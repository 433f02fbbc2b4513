--------------------------- MODULE RpcClientProofs ---------------------------
\* The RPC client, for every number of attempts, node starts and bad replies.
EXTENDS RpcClient, TLAPS

\* No credential is known before its start, and what the cookie file holds is never
\* older than the credential of the client: a rebuild never goes back.
NeverBack ==
    /\ file <= starts /\ auth <= starts
    /\ file # Unreadable => auth <= file

\* The type needs nothing else: the bound on `attempt` is the guard of the retry.
ClientInv == TypeOK /\ NeverBack

LEMMA InitClient == Init => ClientInv
<1> SUFFICES ASSUME Init PROVE ClientInv
  OBVIOUS
<1>1. /\ starts \in Credential /\ file \in Credential \cup {Unreadable}
      /\ faults \in 0..MaxFaults /\ attempt \in 1..MaxAttempts
      /\ file <= starts /\ 0 <= file /\ 0 <= starts
  BY ClientAssumption DEF Init, Credential, Unreadable
<1>2. up \in BOOLEAN /\ steady \in BOOLEAN /\ buildable \in BOOLEAN
  BY DEF Init
<1>3. auth = Unreadable /\ phase = "connect" /\ call \in Calls /\ error = "none"
  BY DEF Init, Calls
<1>4. QED
  BY <1>1, <1>2, <1>3 DEF ClientInv, TypeOK, NeverBack, Unreadable

\* Every result is "Ok" or one of the errors.
LEMMA ResultKinds ==
  ASSUME NEW c, NEW reply
  PROVE  Result(c, reply) \in Errors \cup {"Ok"}
BY DEF Result, Classify, Errors

\* Whatever a call answers, the count of faults stays within its bound.
LEMMA AnswersBounded ==
  ASSUME TypeOK, NEW c, NEW reply, Answers(c, reply)
  PROVE  faults' \in 0..MaxFaults
BY ClientAssumption DEF Answers, TypeOK

\* A rebuild installs what the cookie file holds, if that is anything, or leaves
\* the credential as it is.
LEMMA ReconnectKeeps ==
  ASSUME ClientInv, Reconnect
  PROVE  /\ auth' \in Credential \cup {Unreadable}
         /\ auth' <= starts /\ (file # Unreadable => auth' <= file)
BY DEF ClientInv, TypeOK, NeverBack, Reconnect, Credential, Unreadable

\* Calls are followed by calls.
LEMMA CallsOnly ==
  ASSUME NEW c \in Calls
  PROVE  AfterOk(c) \subseteq Calls /\ AfterError(c) \subseteq Calls
BY DEF Calls, AfterOk, AfterError

\* Every step of the process or of what is around it preserves the invariant.
LEMMA StepClient == ClientInv /\ [Next]_vars => ClientInv'
<1> SUFFICES ASSUME ClientInv, [Next]_vars
             PROVE  ClientInv'
  OBVIOUS
<1> USE ClientAssumption DEF ClientInv
<1>1. CASE Connect
  <2>1. /\ auth' \in Credential \cup {Unreadable}
        /\ auth' <= starts /\ (file # Unreadable => auth' <= file)
    BY <1>1, ReconnectKeeps DEF Connect
  <2>2. error' \in Errors \cup SetupErrors \cup {"none"}
    BY <1>1 DEF Connect, TypeOK, SetupErrors
  <2>3. QED
    BY <1>1, <2>1, <2>2 DEF Connect, outside, TypeOK, NeverBack
<1>2. CASE ProbeOk
  <2>1. faults' \in 0..MaxFaults
    BY <1>2, AnswersBounded DEF ProbeOk
  <2>2. QED
    BY <1>2, <2>1 DEF ProbeOk, outside, TypeOK, NeverBack
<1>3. CASE ProbeRetry
  <2>1. faults' \in 0..MaxFaults
    BY <1>3, AnswersBounded DEF ProbeRetry
  <2>2. error' \in Errors
    BY <1>3 DEF ProbeRetry, MayRetry, IsReconnectable, Errors
  <2>3. attempt' \in 1..MaxAttempts
    BY <1>3 DEF ProbeRetry, MayRetry, NextAttempt, TypeOK
  <2>4. /\ auth' \in Credential \cup {Unreadable}
        /\ auth' <= starts /\ (file # Unreadable => auth' <= file)
    BY <1>3, ReconnectKeeps DEF ProbeRetry
  <2>5. QED
    BY <1>3, <2>1, <2>2, <2>3, <2>4 DEF ProbeRetry, outside, TypeOK, NeverBack
<1>4. CASE ProbeGivesUp
  <2>1. faults' \in 0..MaxFaults
    BY <1>4, AnswersBounded DEF ProbeGivesUp
  <2>2. error' \in Errors
    BY <1>4, ResultKinds DEF ProbeGivesUp
  <2>3. QED
    BY <1>4, <2>1, <2>2 DEF ProbeGivesUp, outside, TypeOK, NeverBack
<1>5. CASE CallOk
  <2>1. faults' \in 0..MaxFaults
    BY <1>5, AnswersBounded DEF CallOk
  <2>2. call' \in Calls
    BY <1>5, CallsOnly DEF CallOk, TypeOK
  <2>3. steady' \in BOOLEAN
    BY <1>5 DEF CallOk
  <2>4. QED
    BY <1>5, <2>1, <2>2, <2>3 DEF CallOk, outside, TypeOK, NeverBack
<1>6. CASE CallFails
  <2>1. faults' \in 0..MaxFaults
    BY <1>6, AnswersBounded DEF CallFails
  <2>2. error' \in Errors
    BY <1>6, ResultKinds DEF CallFails
  <2>3. call' \in Calls
    BY <1>6, CallsOnly DEF CallFails, TypeOK
  <2>4. /\ auth' \in Credential \cup {Unreadable}
        /\ auth' <= starts /\ (file # Unreadable => auth' <= file)
    <3>1. CASE Reconnect
      BY <3>1, ReconnectKeeps
    <3>2. CASE UNCHANGED auth
      BY <3>2 DEF TypeOK, NeverBack
    <3>3. QED
      BY <1>6, <3>1, <3>2 DEF CallFails
  <2>5. QED
    BY <1>6, <2>1, <2>2, <2>3, <2>4 DEF CallFails, outside, TypeOK, NeverBack
<1>7. CASE NodeStops
  <2>1. /\ file' \in Credential \cup {Unreadable} /\ auth' = auth /\ starts' = starts
        /\ file' <= starts' /\ (file' # Unreadable => auth <= file')
    BY <1>7 DEF NodeStops, TypeOK, NeverBack, Credential, Unreadable
  <2>2. QED
    BY <1>7, <2>1 DEF NodeStops, TypeOK, NeverBack
<1>8. CASE NodeStarts
  <2>1. starts' = starts + 1 /\ starts' \in Credential
    BY <1>8 DEF NodeStarts, TypeOK, Credential
  <2>2. /\ file' \in Credential \cup {Unreadable} /\ auth' = auth
        /\ file' <= starts' /\ auth <= starts' /\ (file' # Unreadable => auth <= file')
    BY <1>8, <2>1 DEF NodeStarts, TypeOK, NeverBack, Credential, Unreadable
  <2>3. QED
    BY <1>8, <2>1, <2>2 DEF NodeStarts, TypeOK, NeverBack
<1>9. CASE NodeWritesCookie
  BY <1>9 DEF NodeWritesCookie, TypeOK, NeverBack, Credential, Unreadable
<1>10. CASE CookieUnreadable
  BY <1>10 DEF CookieUnreadable, TypeOK, NeverBack, Credential, Unreadable
<1>11. CASE BuildFlips
  BY <1>11 DEF BuildFlips, TypeOK, NeverBack
<1>12. CASE UNCHANGED vars
  BY <1>12 DEF vars, outside, TypeOK, NeverBack
<1>13. QED
  BY <1>1, <1>2, <1>3, <1>4, <1>5, <1>6, <1>7, <1>8, <1>9, <1>10, <1>11, <1>12
     DEF Next, Startup, SyncCalls, Outside

\* Every variable keeps its type; the startup probe never makes more than
\* MaxAttempts attempts, whatever the node answers.
THEOREM ClientTypes == Spec => []TypeOK
<1>1. ClientInv => TypeOK
  BY DEF ClientInv
<1>2. QED
  BY <1>1, InitClient, StepClient, PTL DEF Spec

\* A step leaves the credential alone, or it is a rebuild that reads a cookie at
\* least as new: which is the accepted one again, as no newer start is known.
LEMMA StepAccepted ==
  ASSUME ClientInv, [Next]_vars, auth = starts, starts' = starts
  PROVE  auth' = starts
<1>1. CASE Reconnect
  <2>1. CASE UNCHANGED auth
    BY <2>1
  <2>2. CASE auth' = file /\ file # Unreadable
    BY <2>2 DEF ClientInv, TypeOK, NeverBack, Credential, Unreadable
  <2>3. QED
    BY <1>1, <2>1, <2>2 DEF Reconnect
<1>2. CASE UNCHANGED auth
  BY <1>2
<1>3. QED
  BY <1>1, <1>2
     DEF Next, Startup, SyncCalls, Outside, Connect, ProbeOk, ProbeRetry, ProbeGivesUp, CallOk,
         CallFails, NodeStops, NodeStarts, NodeWritesCookie, CookieUnreadable, BuildFlips, vars

\* A credential that the node accepts is lost to a restart of the node only, for
\* every sequence of failed calls, unreadable cookies and failed builds (reconnect
\* in rpc.rs).
THEOREM AcceptedUntilRestart == Spec => AcceptedStaysAccepted
<1>1. ClientInv /\ [Next]_vars => [auth = starts /\ starts' = starts => auth' = starts]_vars
  BY StepAccepted
<1>2. QED
  BY <1>1, InitClient, StepClient, PTL DEF Spec, AcceptedStaysAccepted
=============================================================================

------------------------------ MODULE MCSimRpc ------------------------------
\* A small instance of SimRpc for TLC.
EXTENDS SimRpc

\* NetworkProfile::local_node, ::getblock_remote, and the lossy and capped one
\* of the tests.
MCProfiles ==
    {[limited |-> FALSE, req_per_sec |-> 0, body_cap |-> 9, may_drop |-> FALSE],
     [limited |-> TRUE, req_per_sec |-> 2, body_cap |-> 9, may_drop |-> FALSE],
     [limited |-> TRUE, req_per_sec |-> 2, body_cap |-> 0, may_drop |-> TRUE]}

\* The limiter and the node share no state: without calls every mempool is
\* explored, with calls only small ones, empty or of one transaction.
Focus ==
    \/ Cardinality(DOMAIN node.txs) <= 1
    \/ count = 0 /\ reply = "none" /\ \A c \in Clients : call[c] = Idle
=============================================================================

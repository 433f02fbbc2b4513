--------------------------- MODULE MCMempoolSync ---------------------------
\* Small instances of MempoolSync for TLC.
EXTENDS MempoolSync, TLC

\* Transaction ids are interchangeable.
Symmetry == Permutations(Txid)
=============================================================================

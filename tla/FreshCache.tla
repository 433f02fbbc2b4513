----------------------------- MODULE FreshCache -----------------------------
(***************************************************************************)
(* What the sync task promises to those who read the shared MempoolState   *)
(* (the HTTP handlers), without saying how it is done: a cache that        *)
(* follows a source in rounds, a claim of freshness, and an estimate.      *)
(* MempoolSync implements it.                                              *)
(*                                                                         *)
(* A round begins when the source is listed and ends when the claim is     *)
(* made anew.  Between rounds a claim means: everything that the source    *)
(* has held since it was listed is in the cache, and nothing else than     *)
(* what was listed.  Within a round the claim is that of the round before. *)
(***************************************************************************)
CONSTANTS Txid, NoEstimate

VARIABLES
    source,     \* what the node holds
    cache,
    claim,      \* whether the cache is claimed to be fresh
    estimate,   \* the transactions that the served estimate counts
    listing,    \* the source as listed at the beginning of the round
    kept,       \* what of it the source has held ever since
    round       \* "open" or "closed"

vars == <<source, cache, claim, estimate, listing, kept, round>>

Init ==
    /\ source \in SUBSET Txid
    /\ cache = {} /\ listing = {} /\ kept = {}
    /\ claim = FALSE
    /\ estimate = NoEstimate
    /\ round = "open"

\* The source is not ours.
SourceChanges ==
    /\ source' \in SUBSET Txid
    /\ kept' = kept \cap source'
    /\ UNCHANGED <<cache, claim, estimate, listing, round>>

\* A listing, the first or a later one, begins a round.
List ==
    /\ round' = "open"
    /\ listing' = source
    /\ kept' = source
    /\ UNCHANGED <<source, cache, claim, estimate>>

\* Within a round the cache may lose what was not listed ...
Evict ==
    /\ round = "open" /\ round' = "open"
    /\ cache' \subseteq cache
    /\ cache \cap listing \subseteq cache'
    /\ UNCHANGED <<source, claim, estimate, listing, kept>>

\* ... or become the listing altogether.
Load ==
    /\ round = "open" /\ round' = "open"
    /\ cache' = listing
    /\ UNCHANGED <<source, claim, estimate, listing, kept>>

\* The end of a round: the cache has gained listed transactions only, and is
\* claimed to be fresh only if it lacks none of those that were kept.
Close ==
    /\ round = "open" /\ round' = "closed"
    /\ cache \subseteq cache'
    /\ cache' \subseteq cache \cup listing
    /\ claim' \in BOOLEAN
    /\ claim' => kept \subseteq cache' /\ cache' \subseteq listing
    /\ UNCHANGED <<source, estimate, listing, kept>>

\* A round that fails, or cannot even begin, ends the claim.
GiveUp ==
    /\ claim' = FALSE
    /\ round' = "closed"
    /\ UNCHANGED <<source, cache, estimate, listing, kept>>

\* Only a cache that is claimed to be fresh is estimated.
Reckon ==
    /\ round = "closed" /\ claim
    /\ estimate' = cache
    /\ UNCHANGED <<source, cache, claim, listing, kept, round>>

Next == SourceChanges \/ List \/ Evict \/ Load \/ Close \/ GiveUp \/ Reckon

Spec == Init /\ [][Next]_vars

-----------------------------------------------------------------------------
\* What a reader may rely on: between rounds, a claim is true of the listing.
ClaimTrue == round = "closed" /\ claim => kept \subseteq cache /\ cache \subseteq listing
=============================================================================

----------------------------- MODULE MCPackages -----------------------------
\* Small instances of Packages.
EXTENDS Packages

\* A wrong `depends` matters to the search alone, which looks at nothing but the
\* cache: after one, the node is left as it was listed.
Focus == corrupt > 0 => quiet /\ reorgs = 0
=============================================================================

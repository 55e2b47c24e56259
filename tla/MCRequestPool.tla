--------------------------- MODULE MCRequestPool ---------------------------
\* Small instances of RequestPool for TLC.
EXTENDS RequestPool, TLC

Symmetry == Permutations(Requests)
=============================================================================

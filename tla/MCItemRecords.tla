--------------------------- MODULE MCItemRecords ---------------------------
\* Small instances of ItemRecords for TLC.
EXTENDS ItemRecords, TLC

\* Requests and items are interchangeable.
Symmetry == Permutations(Requests) \union Permutations(Items)
=============================================================================

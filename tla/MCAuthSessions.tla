--------------------------- MODULE MCAuthSessions ---------------------------
\* Small instances of AuthSessions for TLC.
EXTENDS AuthSessions, TLC

\* Requests, pairs and users are interchangeable.
Symmetry ==
  Permutations(Requests) \union Permutations(Pairs) \union Permutations(Users)
=============================================================================

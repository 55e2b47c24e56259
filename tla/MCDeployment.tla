---------------------------- MODULE MCDeployment ----------------------------
\* Small instances of Deployment for TLC.
EXTENDS Deployment, TLC

\* Requests and replicas are interchangeable among themselves.
Symmetry == Permutations(Requests) \union Permutations(Replicas)
=============================================================================

---------------------------- MODULE MCPoolStacks ----------------------------
\* Instances of PoolStacks for TLC: pools and workers are interchangeable.
EXTENDS PoolStacks, TLC

\* max_recycled_pools when MaxMemFree is not set
Unlimited == -1

Alike == Permutations(Pools) \cup Permutations(Workers)
=============================================================================

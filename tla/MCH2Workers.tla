----------------------------- MODULE MCH2Workers -----------------------------
\* H2Workers with sessions that are interchangeable.
EXTENDS H2Workers, TLC

Sessions == Permutations(Producers)
=============================================================================

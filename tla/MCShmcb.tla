------------------------------ MODULE MCShmcb ------------------------------
\* Shmcb for TLC: a value of one byte, one that fills the data area but for the
\* id, and one that is too large.
EXTENDS Shmcb, TLC

MCValLen == [v \in Values |-> CASE v = "s" -> 1 [] v = "full" -> DataSize - IdLen
                                [] v = "huge" -> DataSize]

Alike == Permutations(Ids)
=============================================================================

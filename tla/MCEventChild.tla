---------------------------- MODULE MCEventChild ----------------------------
(* Instances of EventChild for TLC. *)
EXTENDS EventChild, TLC

Alike == Permutations(Conns) \union Permutations(Workers)
=============================================================================

--------------------------- MODULE MCContentIndex ---------------------------
(* Instances of ContentIndex for TLC. *)
EXTENDS ContentIndex, TLC

(* Every content is one block; all of the same size. *)
MCDag == [k \in Contents |-> {k}]
MCSize == [k \in Contents |-> 2]
MCSymmetry == Permutations(Contents)
=============================================================================

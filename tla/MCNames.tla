------------------------------ MODULE MCNames ------------------------------
(***************************************************************************)
(* Instances of Names for TLC: n3 has a slot of its own, the other names   *)
(* share one.  Nothing tells apart two dbrefs, nor two names of a slot.    *)
(***************************************************************************)
EXTENDS Names, TLC

CONSTANTS n1, n2, n3, d1, d2

MCSlotOf == [n \in Name |-> IF n = n3 THEN 1 ELSE 0]
NameSymmetry == Permutations(Name \ {n3}) \cup Permutations(Dbref)
=============================================================================

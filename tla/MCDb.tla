------------------------------- MODULE MCDb -------------------------------
(***************************************************************************)
(* Instances of Db for TLC.  Neither dbrefs nor contents are told apart by *)
(* anything but Size, so that permuting dbrefs is a symmetry.              *)
(***************************************************************************)
EXTENDS Db, TLC

CONSTANTS d1, d2, d3, small, large

MCSize == [c \in Contents |-> IF c = large THEN 2 ELSE 1]
\* Without a clean file no start reads the index: what ndbm writes of its own
\* accord matters only while there is one.
NoIdleWrites == clean \/ indexDisk' \in {indexDisk, index', NoIndex}

DbrefSymmetry == Permutations(Dbref)
=============================================================================

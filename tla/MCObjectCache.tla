--------------------------- MODULE MCObjectCache ---------------------------
(***************************************************************************)
(* Instances of ObjectCache for TLC.  The holders are interchangeable: no  *)
(* two of them are told apart before init_cache() or malloc() hands them   *)
(* out, so that permuting them is a symmetry.                              *)
(***************************************************************************)
EXTENDS ObjectCache

CONSTANTS h1, h2, h3, h4, h5

Holders == <<h1, h2, h3, h4, h5>>
HolderSymmetry == Permutations(Holder)

\* init_cache() takes the first CACHE_DEPTH holders of each bucket.
MCInitChain ==
  [b \in Bucket |-> [i \in 1 .. CACHE_DEPTH |-> Holders[b * CACHE_DEPTH + i]]]

\* Parent lists: the root alone; any one object; lists of two; the empty list.
\* Lattice has cycles of one, two and three objects to refuse, a list of two
\* and one that names an object twice.
RootOnly == {<<1>>}
OneParent == {<<d>> : d \in Dbref}
OneOrTwoParents == OneParent \cup {<<0, 1>>, <<1, 1>>, <<1, 2>>}
Lattice == {<<0>>, <<1>>, <<3>>, <<2, 3>>, <<2, 2>>}
RootOrNone == {<<1>>, <<>>}

\* Where every object has a bucket of its own, a binary dump changes nothing
\* but copies on disk that nobody reads: leave it out.
NoDump == \A d \in Dbref : store'.disk[d] \in {store.disk[d], NoImage}
=============================================================================

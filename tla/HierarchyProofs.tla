-------------------------- MODULE HierarchyProofs ---------------------------
(***************************************************************************)
(* Proofs about the hierarchy of ObjectCache: the parents and children     *)
(* lists of all objects, while create(), chparents() and destroy() change  *)
(* them object by object.  The theorems are about a server whose cache has *)
(* room for every object (Roomy) and that was not restarted: the code      *)
(* marks neither a new object nor one with new parents dirty, so that an   *)
(* eviction or a restart may lose a list.                                  *)
(*                                                                         *)
(* Here the store is shown to say one world of HierarchyGraphProofs at     *)
(* each time, wherever the objects are, and each action to make one of     *)
(* the changes of that module, or none.                                    *)
(***************************************************************************)
EXTENDS HierarchyGraphProofs

-----------------------------------------------------------------------------
(***************************************************************************)
(* The order of an inactive chain: the holders without an object are       *)
(* behind those with one, so that cache_get_holder(), which takes the last *)
(* one, evicts no object as long as the chain has a holder without one.    *)
(***************************************************************************)
EmptiesBehind(chain, E) ==
  \A i, j \in 1 .. Len(chain) : i <= j /\ chain[i] \in E => chain[j] \in E

\* The last holder of an ordered chain is without an object if any of them is.
LEMMA BehindLast ==
  ASSUME NEW S, NEW chain \in Seq(S), NEW E, EmptiesBehind(chain, E), NEW x \in Range(chain),
         x \in E
  PROVE  chain # <<>> /\ chain[Len(chain)] \in E
<1>1. Len(chain) \in Nat /\ DOMAIN chain = 1 .. Len(chain)
  BY LenProperties
<1>2. PICK i \in 1 .. Len(chain) : chain[i] = x
  BY <1>1 DEF Range
<1>3. Len(chain) \in 1 .. Len(chain) /\ i <= Len(chain)
  BY <1>1, <1>2
<1> QED
  BY <1>2, <1>3, EmptySeq DEF EmptiesBehind

\* The holders that matter are those of the chain.
LEMMA BehindSame ==
  ASSUME NEW S, NEW chain \in Seq(S), NEW E, NEW F, EmptiesBehind(chain, E),
         \A x \in Range(chain) : x \in F <=> x \in E
  PROVE  EmptiesBehind(chain, F)
<1>1. \A i \in 1 .. Len(chain) : chain[i] \in Range(chain)
  BY LenProperties DEF Range
<1> QED
  BY <1>1 DEF EmptiesBehind

\* What is left of a chain without its last holder is ordered.
LEMMA BehindFront ==
  ASSUME NEW S, NEW chain \in Seq(S), chain # <<>>, NEW E, EmptiesBehind(chain, E)
  PROVE  EmptiesBehind(SubSeq(chain, 1, Len(chain) - 1), E)
<1> DEFINE n == Len(chain)
           front == SubSeq(chain, 1, n - 1)
<1>1. n \in Nat \ {0} /\ DOMAIN chain = 1 .. n
  BY EmptySeq, LenProperties
<1>2. Len(front) = n - 1 /\ \A i \in 1 .. n - 1 : front[i] = chain[i]
  BY <1>1, SubSeqProperties, LenProperties
<1> HIDE DEF front
<1>3. EmptiesBehind(front, E)
  BY <1>1, <1>2 DEF EmptiesBehind
<1> QED
  BY <1>3 DEF front

\* Taking a holder out leaves a chain ordered.
LEMMA BehindUnlink ==
  ASSUME NEW S, NEW chain \in Seq(S), NEW h \in Range(chain), NEW E, EmptiesBehind(chain, E)
  PROVE  EmptiesBehind(Unlink(chain, h), E)
<1> DEFINE n == Len(chain)
           both == Unlink(chain, h)
<1>1. n \in Nat
  BY LenProperties
<1>2. PICK k \in 1 .. n : \A i \in 1 .. n - 1 : both[i] = IF i < k THEN chain[i] ELSE chain[i + 1]
  BY UnlinkShape
<1>4. Len(both) = n - 1
  BY UnlinkShape
<1> HIDE DEF n, both
<1>5. EmptiesBehind(both, E)
  <2> SUFFICES ASSUME NEW i \in 1 .. n - 1, NEW j \in 1 .. n - 1, i <= j, both[i] \in E
               PROVE  both[j] \in E
    BY <1>4 DEF EmptiesBehind
  <2> DEFINE a == IF i < k THEN i ELSE i + 1
             c == IF j < k THEN j ELSE j + 1
  <2>1. a \in 1 .. n /\ c \in 1 .. n /\ a <= c
    BY <1>1, <1>2
  <2>2. both[i] = chain[a] /\ both[j] = chain[c]
    BY <1>2
  <2> QED
    BY <2>1, <2>2 DEF EmptiesBehind, n
<1> QED
  BY <1>5 DEF both

\* An empty holder goes last.
LEMMA BehindAppend ==
  ASSUME NEW S, NEW chain \in Seq(S), NEW h \in S, NEW E, EmptiesBehind(chain, E), h \in E
  PROVE  EmptiesBehind(Append(chain, h), E)
<1> DEFINE n == Len(chain)
           longer == Append(chain, h)
<1>1. n \in Nat
  BY LenProperties
<1>2. /\ Len(longer) = n + 1
      /\ \A i \in 1 .. n : longer[i] = chain[i]
      /\ longer[n + 1] = h
  BY <1>1, AppendProperties
<1> HIDE DEF longer
<1>3. EmptiesBehind(longer, E)
  BY <1>1, <1>2 DEF EmptiesBehind
<1> QED
  BY <1>3 DEF longer

\* Any holder with an object goes first, as cache_discard() puts it.
LEMMA BehindPrepend ==
  ASSUME NEW S, NEW chain \in Seq(S), NEW h \in S, NEW E, EmptiesBehind(chain, E), h \notin E
  PROVE  EmptiesBehind(<<h>> \o chain, E)
<1> DEFINE n == Len(chain)
           longer == <<h>> \o chain
<1>1. n \in Nat
  BY LenProperties
<1>2. /\ Len(longer) = n + 1
      /\ \A i \in 1 .. n + 1 : longer[i] = IF i = 1 THEN h ELSE chain[i - 1]
  BY <1>1, ConcatProperties, LenProperties
<1> HIDE DEF longer
<1>3. EmptiesBehind(longer, E)
  <2> SUFFICES ASSUME NEW i \in 1 .. n + 1, NEW j \in 1 .. n + 1, i <= j, longer[i] \in E
               PROVE  longer[j] \in E
    BY <1>2 DEF EmptiesBehind
  <2>1. i - 1 \in 1 .. n /\ j - 1 \in 1 .. n /\ i - 1 <= j - 1 /\ i # 1 /\ j # 1
    BY <1>1, <1>2
  <2> QED
    BY <1>2, <2>1 DEF EmptiesBehind
<1> QED
  BY <1>3 DEF longer
-----------------------------------------------------------------------------
(***************************************************************************)
(* What a store says of the hierarchy: per dbref, the lists of the object  *)
(* of that dbref, wherever it is.                                          *)
(***************************************************************************)
Kin(image) == [parents |-> image.parents, children |-> image.children]

KinAt(s, d) == IF Exists(s, d) THEN {Kin(ObjectData(s, d))} ELSE {}

\* Where an object is cached, its dbref has this holder and no other.
LEMMA ObjectHolder ==
  ASSUME NEW s \in Store, ChainsOK(s), NEW h \in Chained(s), s.obj[h].dbref # EMPTY
  PROVE  /\ s.obj[h].dbref \in Dbref /\ h \in Holder
         /\ CacheHits(s, s.obj[h].dbref) = {h}
<1> DEFINE d == s.obj[h].dbref
<1>1. h \in Holder /\ d \in Dbref
  BY StoreTypes DEF Record
<1>2. h \in CacheHits(s, d)
  <2>1. CASE h \in Active(s)
    BY <2>1, ActiveHolder DEF ActiveHits, CacheHits
  <2>2. CASE h \in Inactive(s)
    <3>1. PICK b \in Bucket : h \in Range(s.inactive[b])
      BY <2>2 DEF Inactive
    <3>2. b = Hash(d)
      BY <3>1 DEF ChainsOK, InactiveOK
    <3> QED
      BY <3>1, <3>2 DEF InactiveHits, CacheHits
  <2> QED
    BY <2>1, <2>2 DEF Chained
<1>3. \A g \in CacheHits(s, d) : g \in Chained(s) /\ s.obj[g].dbref = d
  BY <1>1, HashType, StoreTypes DEF CacheHits, ActiveHits, InactiveHits, Dbref
<1> QED
  BY <1>1, <1>2, <1>3 DEF ChainsOK, OneHolder

\* An object in the cache is what its holder says, and any other one what the
\* database says.
LEMMA KinCached ==
  ASSUME NEW s \in Store, ChainsOK(s), NEW h \in Chained(s), s.obj[h].dbref # EMPTY
  PROVE  /\ Exists(s, s.obj[h].dbref)
         /\ ObjectData(s, s.obj[h].dbref) = s.obj[h].data
         /\ KinAt(s, s.obj[h].dbref) = {Kin(s.obj[h].data)}
<1>1. CacheHits(s, s.obj[h].dbref) = {h}
  BY ObjectHolder
<1>2. ObjectData(s, s.obj[h].dbref) = s.obj[h].data
  BY <1>1 DEF ObjectData
<1>3. Exists(s, s.obj[h].dbref)
  BY <1>1 DEF Exists, Check, CacheHits
<1> QED
  BY <1>2, <1>3 DEF KinAt

\* An object that is not cached has the lists of its image on disk.
LEMMA KinOnDisk ==
  ASSUME NEW s \in Store, ChainsOK(s), NEW d \in Dbref, \A g \in Chained(s) : s.obj[g].dbref # d
  PROVE  /\ CacheHits(s, d) = {}
         /\ Exists(s, d) <=> s.disk[d] # NoImage
         /\ ObjectData(s, d) = s.disk[d]
         /\ KinAt(s, d) = IF s.disk[d] # NoImage THEN {Kin(s.disk[d])} ELSE {}
<1>1. ActiveHits(s, d) = {} /\ InactiveHits(s, d) = {}
  BY HashType, StoreTypes DEF ActiveHits, InactiveHits, Dbref
<1>2. CacheHits(s, d) = {} /\ (Exists(s, d) <=> s.disk[d] # NoImage)
  BY <1>1 DEF CacheHits, Exists, Check
<1> QED
  BY <1>2 DEF ObjectData, KinAt

\* An object that exists has lists, and no other has.
LEMMA KinExists ==
  ASSUME NEW s \in Store, ChainsOK(s), NEW d \in Dbref
  PROVE  /\ Exists(s, d) <=> d \in Existing(s)
         /\ Exists(s, d) <=> KinAt(s, d) # {}
         /\ Exists(s, d) => ObjectData(s, d) \in Image
<1>1. Exists(s, d) <=> KinAt(s, d) # {}
  BY DEF KinAt
<1>2. CASE \E h \in Chained(s) : s.obj[h].dbref = d
  <2>1. PICK h \in Chained(s) : s.obj[h].dbref = d
    BY <1>2
  <2>2. d # EMPTY
    BY EmptyDbref
  <2>3. Exists(s, d) /\ ObjectData(s, d) = s.obj[h].data
    BY <2>1, <2>2, KinCached
  <2>4. s.obj[h].data \in Image
    BY StoreTypes DEF Record
  <2> QED
    BY <1>1, <2>1, <2>3, <2>4 DEF Existing
<1>3. CASE \A h \in Chained(s) : s.obj[h].dbref # d
  <2>1. (Exists(s, d) <=> s.disk[d] # NoImage) /\ ObjectData(s, d) = s.disk[d]
    BY <1>3, KinOnDisk
  <2>2. s.disk[d] \in Image \cup {NoImage}
    BY DEF Store
  <2> QED
    BY <1>1, <1>3, <2>1, <2>2 DEF Existing
<1> QED
  BY <1>2, <1>3

(***************************************************************************)
(* A step after which every object still has its lists: it stayed in a     *)
(* holder with them, or it stayed out of the cache with the same image on  *)
(* disk, or it was loaded from there.                                      *)
(***************************************************************************)
Carried(s, d) == {h \in Chained(s) : s.obj[h].dbref = d}

SameFor(s, t, d) ==
  \/ \E h \in Carried(s, d) : h \in Carried(t, d) /\ Kin(t.obj[h].data) = Kin(s.obj[h].data)
  \/ Carried(s, d) = {} /\ Carried(t, d) = {} /\ t.disk[d] = s.disk[d]
  \/ /\ Carried(s, d) = {} /\ s.disk[d] # NoImage
     /\ \E h \in Carried(t, d) : Kin(t.obj[h].data) = Kin(s.disk[d])

\* An object that stays where it is keeps its lists.
LEMMA KinSame ==
  ASSUME NEW s \in Store, ChainsOK(s), NEW t \in Store, ChainsOK(t), NEW d \in Dbref,
         SameFor(s, t, d)
  PROVE  KinAt(t, d) = KinAt(s, d)
<1>1. d # EMPTY
  BY EmptyDbref
<1>2. CASE \E h \in Carried(s, d) : h \in Carried(t, d) /\ Kin(t.obj[h].data) = Kin(s.obj[h].data)
  <2>1. PICK h \in Carried(s, d) : h \in Carried(t, d) /\ Kin(t.obj[h].data) = Kin(s.obj[h].data)
    BY <1>2
  <2>2. KinAt(s, d) = {Kin(s.obj[h].data)}
    BY <1>1, <2>1, KinCached DEF Carried
  <2>3. KinAt(t, d) = {Kin(t.obj[h].data)}
    BY <1>1, <2>1, KinCached DEF Carried
  <2> QED
    BY <2>1, <2>2, <2>3
<1>3. CASE Carried(s, d) = {} /\ Carried(t, d) = {} /\ t.disk[d] = s.disk[d]
  <2>1. KinAt(s, d) = IF s.disk[d] # NoImage THEN {Kin(s.disk[d])} ELSE {}
    BY <1>3, KinOnDisk DEF Carried
  <2>2. KinAt(t, d) = IF t.disk[d] # NoImage THEN {Kin(t.disk[d])} ELSE {}
    BY <1>3, KinOnDisk DEF Carried
  <2> QED
    BY <1>3, <2>1, <2>2
<1>4. CASE /\ Carried(s, d) = {} /\ s.disk[d] # NoImage
           /\ \E h \in Carried(t, d) : Kin(t.obj[h].data) = Kin(s.disk[d])
  <2>1. PICK h \in Carried(t, d) : Kin(t.obj[h].data) = Kin(s.disk[d])
    BY <1>4
  <2>2. KinAt(s, d) = {Kin(s.disk[d])}
    BY <1>4, KinOnDisk DEF Carried
  <2>3. KinAt(t, d) = {Kin(t.obj[h].data)}
    BY <1>1, <2>1, KinCached DEF Carried
  <2> QED
    BY <2>1, <2>2, <2>3
<1> QED
  BY <1>2, <1>3, <1>4 DEF SameFor
-----------------------------------------------------------------------------
(***************************************************************************)
(* Room.  The buckets are deep enough for the objects that hash to them;   *)
(* the holders of init_cache() stay in their bucket, except for the one    *)
(* that object_destroy() works on, v; and the empty ones are last.  Then   *)
(* nothing is ever evicted.                                                *)
(***************************************************************************)
Roomy == \A b \in Bucket : Cardinality({d \in Dbref : Hash(d) = b}) <= CACHE_DEPTH

Empties(s) == {h \in Holder : s.obj[h].dbref = EMPTY}

Home(s, v) ==
  \A b \in Bucket : \A h \in Range(InitChain[b]) :
    \/ h \in s.active[b]
    \/ h \in Range(s.inactive[b])
    \/ h = v /\ Hash(s.obj[h].dbref) = b

EmptiesLast(s) == \A b \in Bucket : EmptiesBehind(s.inactive[b], Empties(s))

Neat(s, v) == Home(s, v) /\ EmptiesLast(s)

\* The object being destroyed, if there is one.
Dying(s, v) == v = NULL \/ (v \in Holder /\ Gone(s, v))

\* Neat, and every object still has its lists.
Quiet(s, t, v) == Neat(t, v) /\ \A d \in Dbref : KinAt(t, d) = KinAt(s, d)

\* An inactive chain begins with CACHE_DEPTH holders.
LEMMA InitRange ==
  ASSUME NEW b \in Bucket
  PROVE  /\ Range(InitChain[b]) \subseteq Holder
         /\ IsFiniteSet(Range(InitChain[b]))
         /\ Cardinality(Range(InitChain[b])) = CACHE_DEPTH
<1> DEFINE chain == InitChain[b]
           R == Range(chain)
<1>1. /\ chain \in Seq(Holder) /\ Len(chain) = CACHE_DEPTH /\ IsInjective(chain)
      /\ CACHE_DEPTH \in Nat
  BY CacheAssumption
<1>2. DOMAIN chain = 1 .. CACHE_DEPTH /\ R \subseteq Holder
  BY <1>1, LenProperties, RangeOfSeq
<1>3. chain \in [1 .. CACHE_DEPTH -> R]
  <2>1. chain = [i \in 1 .. CACHE_DEPTH |-> chain[i]]
    BY <1>1, SeqDef
  <2>2. \A i \in 1 .. CACHE_DEPTH : chain[i] \in R
    BY <1>2 DEF Range
  <2> QED
    BY <2>1, <2>2
<1>4. chain \in Bijection(1 .. CACHE_DEPTH, R)
  BY <1>1, <1>2, <1>3 DEF Bijection, Injection, Surjection, Range, IsInjective
<1>5. IsFiniteSet(1 .. CACHE_DEPTH) /\ Cardinality(1 .. CACHE_DEPTH) = CACHE_DEPTH
  BY <1>1, FS_Interval
<1>6. IsFiniteSet(R) /\ Cardinality(R) = CACHE_DEPTH
  <2>1. ExistsBijection(1 .. CACHE_DEPTH, R)
    BY <1>4 DEF ExistsBijection
  <2> QED
    BY <1>5, <2>1, FS_Bijection
<1> QED
  BY <1>2, <1>6

\* A dbref that no holder carries finds an empty holder at the end of its chain.
LEMMA RoomLeft ==
  ASSUME Roomy, NEW s \in Store, ChainsOK(s), NEW v, Dying(s, v), Neat(s, v),
         NEW d \in Dbref, \A g \in Chained(s) : s.obj[g].dbref # d,
         v # NULL => s.obj[v].dbref # d
  PROVE  /\ s.inactive[Hash(d)] # <<>>
         /\ Victim(s, d) \in Range(s.inactive[Hash(d)])
         /\ s.obj[Victim(s, d)].dbref = EMPTY
         /\ WriteBack(s, Victim(s, d)) = s.disk
<1> DEFINE b == Hash(d)
           chain == s.inactive[b]
           R == Range(InitChain[b])
           D == {e \in Dbref : Hash(e) = b}
<1>1. b \in Bucket /\ chain \in Seq(Holder)
  BY HashType DEF Dbref, Store
<1>2. R \subseteq Holder /\ IsFiniteSet(R) /\ Cardinality(R) = CACHE_DEPTH
  BY <1>1, InitRange
<1>3. \E x \in Range(chain) : x \in Empties(s)
  <2> SUFFICES ASSUME \A x \in Range(chain) : x \notin Empties(s)
               PROVE  FALSE
    OBVIOUS
  <2> DEFINE f == [h \in R |-> s.obj[h].dbref]
  <2>1. \A h \in R : /\ h \in Holder
                     /\ h \in s.active[b] \/ h \in Range(chain) \/ (h = v /\ Hash(s.obj[h].dbref) = b)
    BY <1>1, <1>2 DEF Neat, Home
  <2>2. \A h \in R : s.obj[h].dbref \in D \ {d}
    <3> TAKE h \in R
    <3>1. CASE h \in s.active[b]
      <4>1. h \in Active(s) /\ h \in Chained(s)
        BY <1>1, <3>1, StoreTypes
      <4>2. s.obj[h].dbref \in Dbref /\ Hash(s.obj[h].dbref) = b
        BY <1>1, <3>1, <4>1, ActiveHolder DEF ChainsOK, ActiveOK
      <4> QED
        BY <4>1, <4>2
    <3>2. CASE h \in Range(chain)
      <4>1. h \in Chained(s) /\ s.obj[h].dbref # EMPTY
        BY <1>1, <2>1, <3>2, StoreTypes DEF Empties
      <4>2. s.obj[h].dbref \in Dbref /\ Hash(s.obj[h].dbref) = b
        BY <1>1, <2>1, <3>2, <4>1, StoreTypes DEF ChainsOK, InactiveOK, Record
      <4> QED
        BY <4>1, <4>2
    <3>3. CASE h = v /\ Hash(s.obj[h].dbref) = b
      <4>1. v # NULL
        BY <2>1, <3>3, ClientAssumption
      <4>2. Gone(s, h)
        BY <3>3, <4>1 DEF Dying
      <4> QED
        BY <3>3, <4>1, <4>2 DEF Gone
    <3> QED
      BY <2>1, <3>1, <3>2, <3>3
  <2>3. \A g, h \in R : s.obj[g].dbref = s.obj[h].dbref => g = h
    <3> SUFFICES ASSUME NEW g \in R, NEW h \in R, s.obj[g].dbref = s.obj[h].dbref
                 PROVE  g = h
      OBVIOUS
    <3>1. \A x \in R : x \in Chained(s) \/ x = v
      BY <1>1, <2>1, StoreTypes
    <3>2. s.obj[g].dbref \in Dbref /\ s.obj[g].dbref # EMPTY
      BY <2>2, EmptyDbref
    <3>3. CASE g \in Chained(s) /\ h \in Chained(s)
      BY <3>2, <3>3 DEF ChainsOK, OneHolder
    <3>4. ASSUME NEW x \in R, NEW y \in R, x \in Chained(s), y = v, y \notin Chained(s),
                 s.obj[x].dbref = s.obj[y].dbref
          PROVE  FALSE
      <4>1. v # NULL
        BY <2>1, <3>4, ClientAssumption
      <4>2. s.obj[v].dbref \notin Existing(s)
        BY <4>1 DEF Dying, Gone
      <4> QED
        BY <2>2, <3>4, <4>2 DEF Existing
    <3> QED
      BY <3>1, <3>3, <3>4
  <2>4. f \in Injection(R, D \ {d})
    BY <2>2, <2>3 DEF Injection, IsInjective
  <2>5. IsFiniteSet(Dbref)
    BY DbrefFinite
  <2>6. IsFiniteSet(D)
    BY <2>5, FS_Subset
  <2>7. IsFiniteSet(D \ {d}) /\ Cardinality(D \ {d}) = Cardinality(D) - 1
    BY <2>6, FS_RemoveElement
  <2>8. Cardinality(R) <= Cardinality(D \ {d})
    BY <2>4, <2>7, FS_Injection
  <2>9. Cardinality(D) <= CACHE_DEPTH /\ Cardinality(D) \in Nat /\ CACHE_DEPTH \in Nat
    BY <1>1, <2>6, FS_CardinalityType, CacheAssumption DEF Roomy
  <2> QED
    BY <1>2, <2>7, <2>8, <2>9
<1>4. chain # <<>> /\ chain[Len(chain)] \in Empties(s)
  BY <1>1, <1>3, BehindLast DEF Neat, EmptiesLast
<1>5. Victim(s, d) = chain[Len(chain)]
  BY <1>4 DEF Victim
<1>6. chain[Len(chain)] \in Range(chain)
  BY <1>1, <1>4, EmptySeq, LenProperties DEF Range
<1> QED
  BY <1>4, <1>5, <1>6 DEF Empties, WriteBack

-----------------------------------------------------------------------------
(***************************************************************************)
(* What the operators of the cache do to neatness and to the lists.        *)
(***************************************************************************)
LEMMA NeatStep ==
  ASSUME NEW s \in Store, NEW t \in Store, NEW v, Neat(s, v), NEW h \in Holder, NEW b \in Bucket,
         \A g \in Holder : g # h => t.obj[g].dbref = s.obj[g].dbref,
         \A c \in Bucket : c # b =>
           /\ t.active[c] = s.active[c] /\ t.inactive[c] = s.inactive[c]
           /\ h \notin s.active[c] /\ h \notin Range(s.inactive[c]),
         EmptiesBehind(t.inactive[b], Empties(t)),
         s.active[b] \cup Range(s.inactive[b]) \subseteq t.active[b] \cup Range(t.inactive[b]),
         v # h
  PROVE  Neat(t, v)
<1>1. \A c \in Bucket : Range(InitChain[c]) \subseteq Holder
  BY InitRange
<1>2. Home(t, v)
  BY <1>1 DEF Neat, Home
<1>3. \A c \in Bucket : EmptiesBehind(t.inactive[c], Empties(t))
  <2> TAKE c \in Bucket
  <2>1. CASE c = b
    BY <2>1
  <2>2. CASE c # b
    <3>1. s.inactive[c] \in Seq(Holder) /\ Range(s.inactive[c]) \subseteq Holder
      BY RangeOfSeq DEF Store
    <3>2. \A x \in Range(s.inactive[c]) : x \in Empties(t) <=> x \in Empties(s)
      BY <2>2, <3>1 DEF Empties
    <3>3. EmptiesBehind(s.inactive[c], Empties(s))
      BY DEF Neat, EmptiesLast
    <3> QED
      BY <2>2, <3>1, <3>2, <3>3, BehindSame
  <2> QED
    BY <2>1, <2>2
<1> QED
  BY <1>2, <1>3 DEF Neat, EmptiesLast

\* The chains and the dbrefs decide whether a store is neat.
LEMMA NeatSame ==
  ASSUME NEW s \in Store, NEW t \in Store, NEW v, Neat(s, v),
         t.active = s.active, t.inactive = s.inactive,
         \A g \in Holder : t.obj[g].dbref = s.obj[g].dbref
  PROVE  Neat(t, v)
<1>1. \A c \in Bucket : Range(InitChain[c]) \subseteq Holder
  BY InitRange
<1>2. Home(t, v)
  BY <1>1 DEF Neat, Home
<1>3. Empties(t) = Empties(s)
  BY DEF Empties
<1> QED
  BY <1>2, <1>3 DEF Neat, EmptiesLast

\* ... and which holders carry a dbref.
LEMMA CarriedSame ==
  ASSUME NEW s \in Store, NEW t \in Store, Chained(t) = Chained(s),
         \A g \in Chained(s) : t.obj[g].dbref = s.obj[g].dbref
  PROVE  \A d \in Dbref : Carried(t, d) = Carried(s, d)
BY DEF Carried

\* Neither the chains nor what the objects say of the hierarchy changes.
LEMMA SameQuiet ==
  ASSUME NEW s \in Store, ChainsOK(s), NEW t \in Store, ChainsOK(t), NEW v, Neat(s, v),
         t.active = s.active, t.inactive = s.inactive,
         \A g \in Holder : t.obj[g].dbref = s.obj[g].dbref,
         \A g \in Chained(s) : Kin(t.obj[g].data) = Kin(s.obj[g].data),
         \A d \in Dbref : Carried(s, d) = {} => t.disk[d] = s.disk[d]
  PROVE  Quiet(s, t, v)
<1>1. Neat(t, v)
  BY NeatSame
<1>2. Chained(t) = Chained(s)
  BY DEF Chained, Active, Inactive
<1>3. \A d \in Dbref : Carried(t, d) = Carried(s, d) /\ Carried(s, d) \subseteq Chained(s)
  BY <1>2, StoreTypes, CarriedSame DEF Carried
<1>4. \A d \in Dbref : SameFor(s, t, d)
  BY <1>3 DEF SameFor
<1> QED
  BY <1>1, <1>4, KinSame DEF Quiet

\* What an active holder says.
LEMMA ActiveFields ==
  ASSUME NEW s \in Store, NEW h \in Holder, NEW r
  PROVE  LET t == [s EXCEPT !.obj = [s.obj EXCEPT ![h] = r]]
         IN  /\ t.active = s.active /\ t.inactive = s.inactive /\ t.disk = s.disk
             /\ t.heap = s.heap
             /\ t.obj[h] = r /\ \A g \in Holder : g # h => t.obj[g] = s.obj[g]
BY DEF Store

\* cache_grab(), object_discard() of one reference of several, the dirty flag and
\* cache_sync() change no list.
LEMMA GrabQuiet ==
  ASSUME NEW s \in Store, ChainsOK(s), NEW v, Neat(s, v), NEW h \in Active(s)
  PROVE  Quiet(s, Grab(s, h), v)
<1> DEFINE t == Grab(s, h)
<1>1. h \in Holder /\ s.obj[h] \in Record /\ Chained(s) \subseteq Holder
  BY ActiveHolder, StoreTypes
<1>2. t \in Store /\ ChainsOK(t)
  BY GrabEffect DEF FoundBy, Effect, Sound
<1>3. /\ t.active = s.active /\ t.inactive = s.inactive /\ t.disk = s.disk
      /\ \A g \in Holder : t.obj[g].dbref = s.obj[g].dbref /\ t.obj[g].data = s.obj[g].data
  BY <1>1 DEF Grab, Store, Record
<1> HIDE DEF t
<1> QED
  BY <1>1, <1>2, <1>3, SameQuiet DEF t

\* Giving back a reference that is not the last changes no list.
LEMMA ReleaseQuiet ==
  ASSUME NEW s \in Store, ChainsOK(s), NEW v, Neat(s, v), NEW h \in Active(s), s.obj[h].refs # 1
  PROVE  Quiet(s, Discard(s, h), v)
<1> DEFINE t == Discard(s, h)
<1>1. h \in Holder /\ s.obj[h] \in Record /\ Chained(s) \subseteq Holder
  BY ActiveHolder, StoreTypes
<1>2. t \in Store /\ ChainsOK(t)
  BY DiscardEffect DEF Effect, Sound
<1>3. /\ t.active = s.active /\ t.inactive = s.inactive /\ t.disk = s.disk
      /\ \A g \in Holder : t.obj[g].dbref = s.obj[g].dbref /\ t.obj[g].data = s.obj[g].data
  BY <1>1 DEF Discard, Store, Record
<1> HIDE DEF t
<1> QED
  BY <1>1, <1>2, <1>3, SameQuiet DEF t

\* The dirty flag and the dead flag change no list.
LEMMA MarkQuiet ==
  ASSUME NEW s \in Store, ChainsOK(s), NEW v, Neat(s, v), NEW h \in Active(s)
  PROVE  Quiet(s, MarkDirty(s, h), v) /\ Quiet(s, MarkDead(s, h), v)
<1>1. h \in Holder /\ s.obj[h] \in Record /\ Chained(s) \subseteq Holder
  BY ActiveHolder, StoreTypes
<1>2. Quiet(s, MarkDirty(s, h), v)
  <2> DEFINE t == MarkDirty(s, h)
  <2>1. t \in Store /\ ChainsOK(t)
    BY <1>1, BlankTypes, WriteEffect DEF Effect, Sound, EmptyHolder
  <2>2. /\ t.active = s.active /\ t.inactive = s.inactive /\ t.disk = s.disk
        /\ \A g \in Holder : t.obj[g].dbref = s.obj[g].dbref /\ t.obj[g].data = s.obj[g].data
    BY <1>1 DEF MarkDirty, Store, Record
  <2> HIDE DEF t
  <2> QED
    BY <1>1, <2>1, <2>2, SameQuiet DEF t
<1>3. Quiet(s, MarkDead(s, h), v)
  <2> DEFINE t == MarkDead(s, h)
  <2>1. t \in Store /\ ChainsOK(t)
    BY <1>1, MarkDeadEffect
  <2>2. /\ t.active = s.active /\ t.inactive = s.inactive /\ t.disk = s.disk
        /\ \A g \in Holder : t.obj[g].dbref = s.obj[g].dbref /\ t.obj[g].data = s.obj[g].data
    BY <1>1 DEF MarkDead, Store, Record
  <2> HIDE DEF t
  <2> QED
    BY <1>1, <2>1, <2>2, SameQuiet DEF t
<1> QED
  BY <1>2, <1>3

\* cache_sync() changes no list.
LEMMA SyncQuiet ==
  ASSUME NEW s \in Store, ChainsOK(s), NEW v, Neat(s, v)
  PROVE  Quiet(s, Sync(s), v)
<1> DEFINE t == Sync(s)
<1>1. Chained(s) \subseteq Holder /\ \A h \in Holder : s.obj[h] \in Record
  BY StoreTypes
<1>2. t \in Store /\ ChainsOK(t)
  BY SyncEffect
<1>3. /\ t.active = s.active /\ t.inactive = s.inactive
      /\ \A g \in Holder : t.obj[g].dbref = s.obj[g].dbref /\ t.obj[g].data = s.obj[g].data
  BY <1>1 DEF Sync, Store, Record
<1>4. \A d \in Dbref : Carried(s, d) = {} => t.disk[d] = s.disk[d]
  BY DEF Sync, Store, Carried, Unsaved
<1> HIDE DEF t
<1> QED
  BY <1>1, <1>2, <1>3, <1>4, SameQuiet DEF t

\* Writing an object's data changes its lists and no other object's.
LEMMA SetDataKin ==
  ASSUME NEW s \in Store, ChainsOK(s), NEW v, Neat(s, v), NEW h \in Active(s),
         NEW contents \in Image
  PROVE  /\ Neat(SetData(s, h, contents), v)
         /\ \A d \in Dbref : KinAt(SetData(s, h, contents), d) =
                               IF d = s.obj[h].dbref THEN {Kin(contents)} ELSE KinAt(s, d)
<1> DEFINE t == SetData(s, h, contents)
<1>1. /\ h \in Holder /\ s.obj[h] \in Record /\ Chained(s) \subseteq Holder
      /\ h \in Chained(s) /\ s.obj[h].dbref \in Dbref /\ s.obj[h].dbref # EMPTY
  BY ActiveHolder, StoreTypes, EmptyDbref
<1>2. t \in Store /\ ChainsOK(t)
  BY WriteEffect DEF Effect, Sound
<1>3. /\ t.active = s.active /\ t.inactive = s.inactive /\ t.disk = s.disk
      /\ \A g \in Holder : t.obj[g].dbref = s.obj[g].dbref
      /\ \A g \in Holder : g # h => t.obj[g].data = s.obj[g].data
      /\ t.obj[h].data = contents
  BY <1>1 DEF SetData, Store, Record
<1> HIDE DEF t
<1>4. Neat(t, v)
  BY <1>2, <1>3, NeatSame
<1>5. Chained(t) = Chained(s)
  BY <1>3 DEF Chained, Active, Inactive
<1>6. KinAt(t, s.obj[h].dbref) = {Kin(contents)}
  BY <1>1, <1>2, <1>3, <1>5, KinCached
<1>7. ASSUME NEW d \in Dbref, d # s.obj[h].dbref
      PROVE  KinAt(t, d) = KinAt(s, d)
  <2>1. Carried(t, d) = Carried(s, d) /\ \A g \in Carried(s, d) : g \in Holder /\ g # h
    BY <1>1, <1>3, <1>5, <1>7 DEF Carried
  <2>2. SameFor(s, t, d)
    BY <1>3, <2>1 DEF SameFor
  <2> QED
    BY <1>2, <2>2, KinSame
<1> QED
  BY <1>4, <1>6, <1>7 DEF t

-----------------------------------------------------------------------------
(***************************************************************************)
(* How an object gets into the cache: none of the ways loses another one.  *)
(***************************************************************************)
\* cache_retrieve() moves a holder to the active chain, ...
LEMMA ActivateQuiet ==
  ASSUME NEW s \in Store, ChainsOK(s), NEW v, Dying(s, v), Neat(s, v), NEW d \in Dbref,
         NEW h \in InactiveHits(s, d), ActiveHits(s, d) = {}
  PROVE  Quiet(s, Activate(s, h, Hash(d)), v)
<1> DEFINE b == Hash(d)
           t == Activate(s, h, b)
<1>1. b \in Bucket /\ h \in Range(s.inactive[b]) /\ s.obj[h].dbref = d /\ d # EMPTY
  BY HashType, EmptyDbref DEF InactiveHits, Dbref
<1>2. /\ h \in Holder /\ h \in Chained(s) /\ s.obj[h] \in Record /\ Chained(s) \subseteq Holder
      /\ s.inactive[b] \in Seq(Holder) /\ IsInjective(s.inactive[b])
  BY <1>1, StoreTypes DEF Store, ChainsOK, InactiveOK
<1>3. \A c \in Bucket : h \notin s.active[c] /\ (c # b => h \notin Range(s.inactive[c]))
  BY <1>1 DEF ChainsOK, ChainsDisjoint
<1>4. t \in Store /\ ChainsOK(t)
  BY ActivateEffect DEF FoundBy, Effect, Sound
<1>5. /\ t.active[b] = s.active[b] \cup {h} /\ t.inactive[b] = Unlink(s.inactive[b], h)
      /\ \A c \in Bucket : c # b => t.active[c] = s.active[c] /\ t.inactive[c] = s.inactive[c]
      /\ t.disk = s.disk
      /\ \A g \in Holder : t.obj[g].dbref = s.obj[g].dbref /\ t.obj[g].data = s.obj[g].data
  BY <1>1, <1>2 DEF Activate, Store, Record
<1> HIDE DEF t
<1>6. Range(t.inactive[b]) = Range(s.inactive[b]) \ {h}
  BY <1>1, <1>2, <1>5, ChainUnlink
<1>7. EmptiesBehind(t.inactive[b], Empties(t))
  <2>1. Empties(t) = Empties(s)
    BY <1>5 DEF Empties
  <2>2. EmptiesBehind(s.inactive[b], Empties(s))
    BY <1>1 DEF Neat, EmptiesLast
  <2> QED
    BY <1>1, <1>2, <1>5, <2>1, <2>2, BehindUnlink
<1>8. v # h
  BY <1>2, ClientAssumption DEF Dying, Gone
<1>9. Neat(t, v)
  BY <1>1, <1>2, <1>3, <1>4, <1>5, <1>6, <1>7, <1>8, NeatStep
<1>10. Chained(t) = Chained(s)
  <2>1. \A c \in Bucket : t.active[c] \cup Range(t.inactive[c]) = s.active[c] \cup Range(s.inactive[c])
    BY <1>1, <1>5, <1>6
  <2> QED
    BY <2>1 DEF Chained, Active, Inactive
<1>11. \A e \in Dbref : SameFor(s, t, e)
  <2>1. \A e \in Dbref : Carried(t, e) = Carried(s, e) /\ Carried(s, e) \subseteq Holder
    BY <1>2, <1>5, <1>10 DEF Carried
  <2> QED
    BY <1>5, <2>1 DEF SameFor
<1> QED
  BY <1>4, <1>9, <1>11, KinSame DEF Quiet, t

\* A dbref without a holder gets one that was empty.
LEMMA NewHolder ==
  ASSUME Roomy, NEW s \in Store, ChainsOK(s), NEW v, Dying(s, v), Neat(s, v),
         NEW d \in Dbref, \A g \in Chained(s) : s.obj[g].dbref # d,
         v # NULL => s.obj[v].dbref # d, NEW contents \in Image
  PROVE  LET t == GetHolder(s, d, contents)
         IN  /\ Neat(t, v)
             /\ \A e \in Dbref : e # d => KinAt(t, e) = KinAt(s, e)
             /\ KinAt(t, d) = {Kin(contents)}
<1> DEFINE h == Victim(s, d)
           b == Hash(d)
           chain == s.inactive[b]
           t == GetHolder(s, d, contents)
<1>1. /\ chain # <<>> /\ h \in Range(chain) /\ s.obj[h].dbref = EMPTY
      /\ WriteBack(s, h) = s.disk
  BY RoomLeft
<1>2. b \in Bucket /\ chain \in Seq(Holder) /\ IsInjective(chain)
  BY HashType DEF Dbref, Store, ChainsOK, InactiveOK
<1>3. /\ h = chain[Len(chain)] /\ h \in Holder /\ h \in Chained(s) /\ CanGetHolder(s, d)
      /\ Chained(s) \subseteq Holder
  BY <1>1, <1>2, StoreTypes DEF Victim, CanGetHolder
<1>4. /\ t \in Store /\ ChainsOK(t) /\ h \in Active(t)
      /\ Chained(t) = Chained(s) \cup {h}
      /\ t.obj = [s.obj EXCEPT ![h] = [dbref |-> d, refs |-> 1, dirty |-> 0,
                                       dead |-> 0, data |-> contents]]
      /\ t.disk = WriteBack(s, h)
  BY <1>3, GetHolderEffect
<1>5. /\ t.active[b] = s.active[b] \cup {h}
      /\ t.inactive[b] = SubSeq(chain, 1, Len(chain) - 1)
      /\ \A c \in Bucket : c # b => t.active[c] = s.active[c] /\ t.inactive[c] = s.inactive[c]
  BY <1>1, <1>2 DEF GetHolder, Store
<1> HIDE DEF h, t, b, chain
<1>6. /\ t.obj[h].dbref = d /\ t.obj[h].data = contents
      /\ \A g \in Holder : g # h => t.obj[g] = s.obj[g]
      /\ Chained(t) = Chained(s) /\ t.disk = s.disk
  BY <1>1, <1>3, <1>4 DEF Store
<1>7. Range(t.inactive[b]) = Range(chain) \ {h}
  BY <1>1, <1>2, <1>3, <1>5, ChainFront
<1>8. \A c \in Bucket : h \notin s.active[c] /\ (c # b => h \notin Range(s.inactive[c]))
  BY <1>1, <1>2 DEF ChainsOK, ChainsDisjoint, chain
<1>9. EmptiesBehind(t.inactive[b], Empties(t))
  <2>1. EmptiesBehind(chain, Empties(s))
    BY <1>2 DEF Neat, EmptiesLast, chain
  <2>2. EmptiesBehind(t.inactive[b], Empties(s))
    BY <1>1, <1>2, <1>5, <2>1, BehindFront
  <2>3. t.inactive[b] \in Seq(Holder) /\ Range(t.inactive[b]) \subseteq Holder
    BY <1>2, <1>4, RangeOfSeq DEF Store
  <2>4. \A x \in Range(t.inactive[b]) : x \in Empties(t) <=> x \in Empties(s)
    BY <1>6, <1>7, <2>3 DEF Empties
  <2> QED
    BY <2>2, <2>3, <2>4, BehindSame
<1>10. v # h
  BY <1>3, ClientAssumption DEF Dying, Gone
<1>11. Neat(t, v)
  <2>1. s.active[b] \cup Range(s.inactive[b]) \subseteq t.active[b] \cup Range(t.inactive[b])
    BY <1>5, <1>7 DEF chain
  <2>2. \A g \in Holder : g # h => t.obj[g].dbref = s.obj[g].dbref
    BY <1>6
  <2>3. \A c \in Bucket : c # b =>
           /\ t.active[c] = s.active[c] /\ t.inactive[c] = s.inactive[c]
           /\ h \notin s.active[c] /\ h \notin Range(s.inactive[c])
    BY <1>5, <1>8
  <2>4. h \in Holder /\ b \in Bucket /\ t \in Store
    BY <1>2, <1>3, <1>4
  <2> QED
    BY ONLY s \in Store, Neat(s, v), <1>9, <1>10, <2>1, <2>2, <2>3, <2>4, NeatStep
<1>12. ASSUME NEW e \in Dbref, e # d
       PROVE  KinAt(t, e) = KinAt(s, e)
  <2>1. Carried(t, e) = Carried(s, e) /\ \A g \in Carried(s, e) : g \in Holder /\ g # h
    BY <1>1, <1>3, <1>6, <1>12, EmptyDbref DEF Carried
  <2>2. SameFor(s, t, e)
    BY <1>6, <2>1 DEF SameFor
  <2> QED
    BY <1>4, <2>2, KinSame
<1>13. KinAt(t, d) = {Kin(contents)}
  <2>1. h \in Chained(t) /\ t.obj[h].dbref # EMPTY
    BY <1>3, <1>6, EmptyDbref
  <2> QED
    BY <1>4, <1>6, <2>1, KinCached
<1> QED
  BY <1>11, <1>12, <1>13 DEF t

\* ... or reads the object from disk into an empty one, ...
LEMMA LoadQuiet ==
  ASSUME Roomy, NEW s \in Store, ChainsOK(s), NEW v, Dying(s, v), Neat(s, v),
         NEW d \in Dbref, \A g \in Chained(s) : s.obj[g].dbref # d,
         v # NULL => s.obj[v].dbref # d, s.disk[d] # NoImage
  PROVE  Quiet(s, Load(s, d), v)
<1>1. s.disk[d] \in Image
  BY DEF Store
<1>2. KinAt(s, d) = {Kin(s.disk[d])}
  BY KinOnDisk
<1> DEFINE t == GetHolder(s, d, s.disk[d])
<1>3. /\ Neat(t, v)
      /\ \A e \in Dbref : e # d => KinAt(t, e) = KinAt(s, e)
      /\ KinAt(t, d) = {Kin(s.disk[d])}
  BY <1>1, NewHolder
<1>4. Load(s, d) = t
  BY DEF Load
<1> HIDE DEF t
<1> QED
  BY <1>2, <1>3, <1>4 DEF Quiet

\* ... or finds no such object.
LEMMA MissQuiet ==
  ASSUME Roomy, NEW s \in Store, ChainsOK(s), NEW v, Dying(s, v), Neat(s, v),
         NEW d \in Dbref, ActiveHits(s, d) = {}, InactiveHits(s, d) = {},
         v # NULL => s.obj[v].dbref # d
  PROVE  Quiet(s, Miss(s, d), v)
<1> DEFINE h == Victim(s, d)
           b == Hash(d)
           chain == s.inactive[b]
           front == SubSeq(chain, 1, Len(chain) - 1)
           t == Miss(s, d)
<1>0. \A g \in Chained(s) : s.obj[g].dbref # d
  BY NoHits
<1>1. /\ chain # <<>> /\ h \in Range(chain) /\ s.obj[h].dbref = EMPTY
      /\ WriteBack(s, h) = s.disk
  BY <1>0, RoomLeft
<1>2. b \in Bucket /\ chain \in Seq(Holder) /\ IsInjective(chain)
  BY HashType DEF Dbref, Store, ChainsOK, InactiveOK
<1>3. /\ h = chain[Len(chain)] /\ h \in Holder /\ h \in Chained(s) /\ CanGetHolder(s, d)
      /\ Chained(s) \subseteq Holder
  BY <1>1, <1>2, StoreTypes DEF Victim, CanGetHolder
<1>4. t \in Store /\ ChainsOK(t)
  BY <1>3, MissEffect DEF Effect, Sound
<1>5. \A c \in Bucket : h \notin s.active[c] /\ (c # b => h \notin Range(s.inactive[c]))
  BY <1>1, <1>2 DEF ChainsOK, ChainsDisjoint
<1>a. front \in Seq(Holder) /\ IsInjective(front) /\ Range(front) = Range(chain) \ {h}
  BY <1>1, <1>2, <1>3, ChainFront
<1>b. EmptiesBehind(front, Empties(s))
  BY <1>1, <1>2, BehindFront DEF Neat, EmptiesLast
<1> HIDE DEF h
<1>6. /\ t.active[b] = (s.active[b] \cup {h}) \ {h}
      /\ t.inactive[b] = Append(front, h)
      /\ \A c \in Bucket : c # b => t.active[c] = s.active[c] /\ t.inactive[c] = s.inactive[c]
      /\ t.obj[h] = EmptyHolder
      /\ \A g \in Holder : g # h => t.obj[g] = s.obj[g]
      /\ t.disk = s.disk
  BY <1>1, <1>2, <1>3 DEF Miss, GetHolder, Store, h
<1> HIDE DEF t, front
<1>7. \A g \in Holder : t.obj[g].dbref = s.obj[g].dbref
  BY <1>1, <1>6 DEF EmptyHolder
<1>9. Range(t.inactive[b]) = Range(chain) /\ t.active[b] = s.active[b]
  <2>1. Range(Append(front, h)) = Range(front) \cup {h}
    BY <1>3, <1>a, ChainAppend
  <2> QED
    BY <1>1, <1>2, <1>5, <1>6, <1>a, <2>1
<1>10. Empties(t) = Empties(s) /\ h \in Empties(s)
  BY <1>1, <1>3, <1>7 DEF Empties
<1>11. EmptiesBehind(t.inactive[b], Empties(t))
  <2>1. EmptiesBehind(Append(front, h), Empties(s))
    BY <1>3, <1>a, <1>b, <1>10, BehindAppend
  <2> QED
    BY <1>6, <1>10, <2>1
<1>12. v # h
  BY <1>3, ClientAssumption DEF Dying, Gone
<1>13. Neat(t, v)
  <2>1. s.active[b] \cup Range(s.inactive[b]) \subseteq t.active[b] \cup Range(t.inactive[b])
    BY <1>9
  <2>2. \A g \in Holder : g # h => t.obj[g].dbref = s.obj[g].dbref
    BY <1>7
  <2>3. \A c \in Bucket : c # b =>
           /\ t.active[c] = s.active[c] /\ t.inactive[c] = s.inactive[c]
           /\ h \notin s.active[c] /\ h \notin Range(s.inactive[c])
    BY <1>5, <1>6
  <2>4. h \in Holder /\ b \in Bucket /\ t \in Store
    BY <1>2, <1>3, <1>4
  <2> HIDE DEF b
  <2> QED
    BY ONLY s \in Store, Neat(s, v), <1>11, <1>12, <2>1, <2>2, <2>3, <2>4, NeatStep
<1>14. Chained(t) = Chained(s)
  <2>1. \A c \in Bucket : t.active[c] \cup Range(t.inactive[c]) = s.active[c] \cup Range(s.inactive[c])
    BY <1>6, <1>9
  <2> QED
    BY <2>1 DEF Chained, Active, Inactive
<1>15. \A e \in Dbref : SameFor(s, t, e)
  <2>1. \A e \in Dbref : Carried(t, e) = Carried(s, e) /\ \A g \in Carried(s, e) : g \in Holder /\ g # h
    BY <1>1, <1>3, <1>7, <1>14, EmptyDbref DEF Carried
  <2> QED
    BY <1>6, <2>1 DEF SameFor
<1> QED
  BY <1>4, <1>13, <1>15, KinSame DEF Quiet, t

\* cache_retrieve(): whichever way it finds the object, or does not.
LEMMA RetrieveQuiet ==
  ASSUME Roomy, NEW s \in Store, ChainsOK(s), NEW v, Dying(s, v), Neat(s, v),
         NEW d \in Dbref, v # NULL => s.obj[v].dbref # d
  PROVE  Quiet(s, Retrieve(s, d), v)
<1>1. CASE ActiveHits(s, d) # {}
  <2>1. Retrieved(s, d) \in ActiveHits(s, d) /\ Retrieve(s, d) = Grab(s, Retrieved(s, d))
    BY <1>1 DEF Retrieve, Retrieved
  <2>2. Retrieved(s, d) \in Active(s)
    BY <2>1, HashType, StoreTypes DEF ActiveHits, Dbref
  <2> QED
    BY <2>1, <2>2, GrabQuiet
<1>2. CASE ActiveHits(s, d) = {} /\ InactiveHits(s, d) # {}
  <2>1. /\ Retrieved(s, d) \in InactiveHits(s, d)
        /\ Retrieve(s, d) = Activate(s, Retrieved(s, d), Hash(d))
    BY <1>2 DEF Retrieve, Retrieved
  <2> QED
    BY <2>1, <1>2, ActivateQuiet
<1>3. CASE ActiveHits(s, d) = {} /\ InactiveHits(s, d) = {} /\ s.disk[d] # NoImage
  <2>1. Retrieve(s, d) = Load(s, d)
    BY <1>3 DEF Retrieve
  <2> QED
    BY <1>3, <2>1, NoHits, LoadQuiet
<1>4. CASE ActiveHits(s, d) = {} /\ InactiveHits(s, d) = {} /\ s.disk[d] = NoImage
  <2>1. Retrieve(s, d) = Miss(s, d)
    BY <1>4 DEF Retrieve
  <2> QED
    BY <1>4, <2>1, MissQuiet
<1> QED
  BY <1>1, <1>2, <1>3, <1>4

-----------------------------------------------------------------------------
(***************************************************************************)
(* How an object leaves it.                                                *)
(***************************************************************************)
\* The last reference of a living object puts its holder in front of the chain.
LEMMA RetireQuiet ==
  ASSUME NEW s \in Store, ChainsOK(s), NEW v, Dying(s, v), Neat(s, v), NEW h \in Active(s),
         s.obj[h].refs = 1, s.obj[h].dead = 0
  PROVE  Quiet(s, Discard(s, h), v)
<1> DEFINE b == Hash(s.obj[h].dbref)
           chain == s.inactive[b]
           t == Discard(s, h)
<1>1. /\ h \in Holder /\ b \in Bucket /\ h \in s.active[b] /\ h \notin Inactive(s)
      /\ \A c \in Bucket : c # b => h \notin s.active[c]
      /\ s.obj[h].dbref # EMPTY /\ s.obj[h] \in Record /\ h \in Chained(s)
      /\ Chained(s) \subseteq Holder
  BY ActiveHolder, StoreTypes, EmptyDbref
<1>2. chain \in Seq(Holder) /\ IsInjective(chain) /\ \A c \in Bucket : h \notin Range(s.inactive[c])
  BY <1>1 DEF Store, ChainsOK, InactiveOK, Inactive
<1>3. t \in Store /\ ChainsOK(t)
  BY DiscardEffect DEF Effect, Sound
<1>4. /\ t.active[b] = s.active[b] \ {h} /\ t.inactive[b] = <<h>> \o chain
      /\ \A c \in Bucket : c # b => t.active[c] = s.active[c] /\ t.inactive[c] = s.inactive[c]
      /\ t.disk = s.disk
      /\ \A g \in Holder : t.obj[g].dbref = s.obj[g].dbref /\ t.obj[g].data = s.obj[g].data
  <2> DEFINE r == [s.obj[h] EXCEPT !.refs = @ - 1]
  <2>1. r.dbref = s.obj[h].dbref /\ r.data = s.obj[h].data
    BY <1>1 DEF Record
  <2>2. t = [s EXCEPT !.obj = [s.obj EXCEPT ![h] = r],
                      !.active = [s.active EXCEPT ![b] = s.active[b] \ {h}],
                      !.inactive = [s.inactive EXCEPT ![b] = <<h>> \o s.inactive[b]]]
    BY <1>1 DEF Discard, Store
  <2> HIDE DEF t, r
  <2> QED
    BY <1>1, <2>1, <2>2 DEF Store
<1>5. Range(<<h>> \o chain) = Range(chain) \cup {h}
  BY <1>1, <1>2, ChainPrepend
<1> HIDE DEF t, b
<1>6. EmptiesBehind(t.inactive[b], Empties(t))
  <2>1. Empties(t) = Empties(s) /\ h \notin Empties(s)
    BY <1>1, <1>4 DEF Empties
  <2>2. EmptiesBehind(chain, Empties(s))
    BY <1>1 DEF Neat, EmptiesLast
  <2>3. EmptiesBehind(<<h>> \o chain, Empties(s))
    BY <1>1, <1>2, <2>1, <2>2, BehindPrepend
  <2> QED
    BY <1>4, <2>1, <2>3
<1>7. v # h
  BY <1>1, ClientAssumption DEF Dying, Gone
<1>8. Neat(t, v)
  <2>1. s.active[b] \cup Range(s.inactive[b]) \subseteq t.active[b] \cup Range(t.inactive[b])
    BY <1>4, <1>5
  <2>2. \A g \in Holder : g # h => t.obj[g].dbref = s.obj[g].dbref
    BY <1>4
  <2>3. \A c \in Bucket : c # b =>
           /\ t.active[c] = s.active[c] /\ t.inactive[c] = s.inactive[c]
           /\ h \notin s.active[c] /\ h \notin Range(s.inactive[c])
    BY <1>1, <1>2, <1>4
  <2>4. h \in Holder /\ b \in Bucket /\ t \in Store
    BY <1>1, <1>3
  <2> QED
    BY ONLY s \in Store, Neat(s, v), <1>6, <1>7, <2>1, <2>2, <2>3, <2>4, NeatStep
<1>9. Chained(t) = Chained(s)
  <2>1. \A c \in Bucket : t.active[c] \cup Range(t.inactive[c]) = s.active[c] \cup Range(s.inactive[c])
    <3>1. t.active[b] \cup Range(t.inactive[b]) = s.active[b] \cup Range(s.inactive[b])
      BY <1>1, <1>4, <1>5
    <3> QED
      BY <1>4, <3>1
  <2> QED
    BY <2>1 DEF Chained, Active, Inactive
<1>10. \A e \in Dbref : SameFor(s, t, e)
  <2>1. \A e \in Dbref : Carried(t, e) = Carried(s, e) /\ Carried(s, e) \subseteq Holder
    BY <1>1, <1>4, <1>9 DEF Carried
  <2> QED
    BY <1>4, <2>1 DEF SameFor
<1> QED
  BY <1>3, <1>8, <1>10, KinSame DEF Quiet, t

\* cache_discard() of an object that lives on.
LEMMA DiscardQuiet ==
  ASSUME NEW s \in Store, ChainsOK(s), NEW v, Dying(s, v), Neat(s, v), NEW h \in Active(s),
         ~Dies(s, h)
  PROVE  Quiet(s, Discard(s, h), v)
<1>1. s.obj[h].dead \in {0, 1}
  BY StoreTypes DEF Record
<1> QED
  BY <1>1, ReleaseQuiet, RetireQuiet DEF Dies

\* The last reference of a dead object: its holder keeps its lists.
LEMMA DeathKin ==
  ASSUME NEW s \in Store, ChainsOK(s), Neat(s, NULL), NEW h \in Active(s), Dies(s, h)
  PROVE  LET t == Discard(s, h)
         IN  /\ Neat(t, h)
             /\ t.obj[h].dbref = s.obj[h].dbref /\ t.obj[h].data = s.obj[h].data
             /\ \A d \in Dbref : KinAt(t, d) = IF d = s.obj[h].dbref THEN {} ELSE KinAt(s, d)
<1> DEFINE b == Hash(s.obj[h].dbref)
           t == Discard(s, h)
<1>1. /\ h \in Holder /\ b \in Bucket /\ h \in s.active[b] /\ h \notin Inactive(s)
      /\ \A c \in Bucket : c # b => h \notin s.active[c]
      /\ s.obj[h].dbref \in Dbref /\ s.obj[h] \in Record /\ h \in Chained(s)
      /\ Chained(s) \subseteq Holder
  BY ActiveHolder, StoreTypes
<1>2. t \in Store /\ ChainsOK(t)
  BY DiscardEffect DEF Effect, Sound
<1>3. Gone(t, h)
  BY DeathEffect
<1>4. /\ t.active[b] = s.active[b] \ {h} /\ t.inactive = s.inactive
      /\ \A c \in Bucket : c # b => t.active[c] = s.active[c]
      /\ \A d \in Dbref : d # s.obj[h].dbref => t.disk[d] = s.disk[d]
      /\ \A g \in Holder : t.obj[g].dbref = s.obj[g].dbref /\ t.obj[g].data = s.obj[g].data
  BY <1>1 DEF Discard, Store, Record, Dies
<1> HIDE DEF t
<1>5. Empties(t) = Empties(s)
  BY <1>4 DEF Empties
<1>6. Home(t, h)
  <2> SUFFICES ASSUME NEW c \in Bucket, NEW g \in Range(InitChain[c])
               PROVE  \/ g \in t.active[c]
                      \/ g \in Range(t.inactive[c])
                      \/ g = h /\ Hash(t.obj[g].dbref) = c
    BY DEF Home
  <2>1. g \in Holder /\ g # NULL
    BY InitRange, ClientAssumption
  <2>2. g \in s.active[c] \/ g \in Range(s.inactive[c])
    BY <2>1 DEF Neat, Home
  <2>3. CASE g = h
    <3>1. g \notin Range(s.inactive[c])
      BY <1>1, <2>3 DEF Inactive
    <3>2. c = b
      BY <1>1, <2>2, <2>3, <3>1
    <3> QED
      BY <1>1, <1>4, <2>3, <3>2
  <2>4. CASE g # h
    BY <1>4, <2>2, <2>4
  <2> QED
    BY <2>3, <2>4
<1> HIDE DEF b
<1>7. Neat(t, h)
  BY <1>4, <1>5, <1>6 DEF Neat, EmptiesLast
<1>8. Chained(t) = Chained(s) \ {h}
  <2>1. h \notin Chained(t)
    BY <1>3 DEF Gone
  <2>2. \A c \in Bucket : t.active[c] \ {h} = s.active[c] \ {h} /\ t.inactive[c] = s.inactive[c]
    BY <1>4
  <2> QED
    BY <2>1, <2>2 DEF Chained, Active, Inactive
<1>9. KinAt(t, s.obj[h].dbref) = {}
  BY <1>1, <1>2, <1>3, <1>4, KinExists DEF Gone
<1>10. ASSUME NEW d \in Dbref, d # s.obj[h].dbref
       PROVE  KinAt(t, d) = KinAt(s, d)
  <2>1. Carried(t, d) = Carried(s, d) /\ Carried(s, d) \subseteq Holder
    BY <1>1, <1>4, <1>8, <1>10 DEF Carried
  <2>2. SameFor(s, t, d)
    BY <1>4, <1>10, <2>1 DEF SameFor
  <2> QED
    BY <1>2, <2>2, KinSame
<1> QED
  BY <1>1, <1>4, <1>7, <1>9, <1>10 DEF t

\* The holder of the destroyed object is linked, empty, into its bucket.
LEMMA BuryKin ==
  ASSUME NEW s \in Store, ChainsOK(s), NEW v \in Holder, Gone(s, v), Neat(s, v)
  PROVE  Neat(Bury(s, v), NULL) /\ \A d \in Dbref : KinAt(Bury(s, v), d) = KinAt(s, d)
<1> DEFINE b == Hash(s.obj[v].dbref)
           chain == s.inactive[b]
           t == Bury(s, v)
<1>1. /\ b \in Bucket /\ v \notin Chained(s)
      /\ \A c \in Bucket : v \notin s.active[c] /\ v \notin Range(s.inactive[c])
      /\ Chained(s) \subseteq Holder
  BY HashType, StoreTypes DEF Gone
<1>2. chain \in Seq(Holder) /\ IsInjective(chain)
  BY <1>1 DEF Store, ChainsOK, InactiveOK
<1>3. t \in Store /\ ChainsOK(t)
  BY BuryEffect
<1>4. /\ t.active = s.active /\ t.inactive[b] = Append(chain, v)
      /\ \A c \in Bucket : c # b => t.inactive[c] = s.inactive[c]
      /\ t.disk = s.disk
      /\ t.obj[v] = EmptyHolder
      /\ \A g \in Holder : g # v => t.obj[g] = s.obj[g]
  BY <1>1 DEF Bury, Store
<1>5. Range(t.inactive[b]) = Range(chain) \cup {v}
  <2>1. Range(Append(chain, v)) = Range(chain) \cup {v}
    BY <1>1, <1>2, ChainAppend
  <2> QED
    BY <1>4, <2>1
<1> HIDE DEF t
<1>6. v \in Empties(t) /\ \A g \in Holder : g # v => (g \in Empties(t) <=> g \in Empties(s))
  <2>1. t.obj[v].dbref = EMPTY
    BY <1>4 DEF EmptyHolder
  <2>2. \A g \in Holder : g # v => t.obj[g].dbref = s.obj[g].dbref
    BY <1>4
  <2> QED
    BY ONLY <2>1, <2>2, v \in Holder DEF Empties
<1>7. \A c \in Bucket : EmptiesBehind(s.inactive[c], Empties(t))
  <2> TAKE c \in Bucket
  <2>1. s.inactive[c] \in Seq(Holder) /\ Range(s.inactive[c]) \subseteq Holder
    BY RangeOfSeq DEF Store
  <2>2. \A x \in Range(s.inactive[c]) : x \in Empties(t) <=> x \in Empties(s)
    BY <1>1, <1>6, <2>1
  <2> QED
    BY <2>1, <2>2, BehindSame DEF Neat, EmptiesLast
<1>8. EmptiesLast(t)
  <2> SUFFICES ASSUME NEW c \in Bucket
               PROVE  EmptiesBehind(t.inactive[c], Empties(t))
    BY DEF EmptiesLast
  <2>1. CASE c = b
    <3>1. EmptiesBehind(Append(chain, v), Empties(t))
      BY <1>1, <1>2, <1>6, <1>7, BehindAppend
    <3> QED
      BY <1>4, <2>1, <3>1
  <2>2. CASE c # b
    BY <1>4, <1>7, <2>2
  <2> QED
    BY <2>1, <2>2
<1>9. Home(t, NULL)
  BY <1>1, <1>4, <1>5 DEF Neat, Home
<1>10. Chained(t) = Chained(s) \cup {v}
  <2>1. \A c \in Bucket : Range(s.inactive[c]) \subseteq Range(t.inactive[c])
    BY <1>4, <1>5
  <2>2. \A c \in Bucket : Range(t.inactive[c]) \subseteq Range(s.inactive[c]) \cup {v}
    BY <1>4, <1>5
  <2>3. v \in Range(t.inactive[b])
    BY <1>5
  <2> HIDE DEF b
  <2>4. Inactive(t) = Inactive(s) \cup {v}
    BY <1>1, <2>1, <2>2, <2>3 DEF Inactive
  <2> QED
    BY <1>4, <2>4 DEF Chained, Active
<1>11. \A e \in Dbref : SameFor(s, t, e)
  <2>1. \A e \in Dbref : Carried(t, e) = Carried(s, e)
                         /\ \A g \in Carried(s, e) : g \in Holder /\ g # v
    <3> TAKE e \in Dbref
    <3>1. t.obj[v].dbref # e
      BY <1>4, EmptyDbref DEF EmptyHolder
    <3>2. Chained(s) \subseteq Holder /\ v \notin Chained(s)
      BY <1>1
    <3>3. \A g \in Chained(s) : t.obj[g].dbref = s.obj[g].dbref
      BY <1>4, <3>2
    <3> QED
      BY ONLY <1>10, <3>1, <3>2, <3>3 DEF Carried
  <2> QED
    BY <1>4, <2>1 DEF SameFor
<1> QED
  BY <1>3, <1>8, <1>9, <1>11, KinSame DEF Neat, t

\* init_cache() leaves every holder empty in its bucket.
LEMMA InitNeat ==
  ASSUME NEW disk \in [Dbref -> Image \cup {NoImage}]
  PROVE  /\ Neat(InitCache(disk), NULL)
         /\ \A d \in Dbref : KinAt(InitCache(disk), d) =
                               IF disk[d] # NoImage THEN {Kin(disk[d])} ELSE {}
<1> DEFINE s == InitCache(disk)
<1>1. s \in Store /\ ChainsOK(s) /\ s.inactive = InitChain /\ s.disk = disk
  BY InitCacheChains
<1>2. \A h \in Holder : s.obj[h].dbref = EMPTY
  BY DEF InitCache, EmptyHolder
<1> HIDE DEF s
<1>3. Home(s, NULL)
  BY <1>1 DEF Home
<1>4. EmptiesLast(s)
  <2> SUFFICES ASSUME NEW b \in Bucket, NEW j \in 1 .. Len(s.inactive[b])
               PROVE  s.inactive[b][j] \in Empties(s)
    BY DEF EmptiesLast, EmptiesBehind
  <2>1. s.inactive[b][j] \in Holder
    BY <1>1, ElementOfSeq DEF Store
  <2> QED
    BY <1>2, <2>1 DEF Empties
<1>5. \A d \in Dbref : \A g \in Chained(s) : s.obj[g].dbref # d
  BY <1>1, <1>2, StoreTypes, EmptyDbref
<1> QED
  BY <1>1, <1>3, <1>4, <1>5, KinOnDisk DEF Neat, s

\* A reference that was just taken is not the last one of a dead object.
LEMMA FoundLives ==
  ASSUME NEW s \in Store, ChainsOK(s), NEW t, NEW h \in Holder, NEW d, FoundBy(s, t, h, d)
  PROVE  ~Dies(t, h)
<1>1. h \in Active(s) => s.obj[h].refs >= 1 /\ s.obj[h].refs \in Int
  BY ActiveHolder, StoreTypes DEF Record
<1> QED
  BY <1>1 DEF FoundBy, Dies

\* The object being destroyed is in no chain, so that no other step changes it.
LEMMA DyingKept ==
  ASSUME NEW s, NEW t, NEW v, Dying(s, v), Sound(s, t)
  PROVE  Dying(t, v) /\ (v # NULL => t.obj[v] = s.obj[v])
BY DEF Dying, Gone, Sound

\* cache_check() retrieves an object and discards it.
LEMMA TouchQuiet ==
  ASSUME Roomy, NEW s \in Store, ChainsOK(s), Neat(s, NULL), NEW d \in Dbref,
         CanRetrieve(s, d), Check(s, d)
  PROVE  Quiet(s, Touch(s, d), NULL)
<1> DEFINE h == Retrieved(s, d)
           t == Retrieve(s, d)
<1>1. FoundBy(s, t, h, d)
  BY RetrieveFound
<1>2. t \in Store /\ ChainsOK(t) /\ h \in Active(t) /\ h \in Holder
  BY <1>1, StoreTypes DEF FoundBy, Effect, Sound
<1>3. Quiet(s, t, NULL)
  BY RetrieveQuiet DEF Dying
<1> HIDE DEF h, t
<1>4. ~Dies(t, h)
  BY <1>1, <1>2, FoundLives
<1>5. Quiet(t, Discard(t, h), NULL)
  BY <1>2, <1>3, <1>4, DiscardQuiet DEF Quiet, Dying
<1>6. Touch(s, d) = Discard(t, h)
  BY DEF Touch, h, t
<1> QED
  BY <1>3, <1>5, <1>6 DEF Quiet

\* The start of the server: the system and the root object are retrieved.
LEMMA BootKin ==
  ASSUME Roomy, NEW disk \in [Dbref -> Image \cup {NoImage}],
         disk[ROOT_DBREF] # NoImage, disk[SYSTEM_DBREF] # NoImage
  PROVE  /\ Neat(Boot(disk), NULL)
         /\ \A d \in Dbref : KinAt(Boot(disk), d) =
                               IF disk[d] # NoImage THEN {Kin(disk[d])} ELSE {}
<1> DEFINE s0 == InitCache(disk)
           s1 == Touch(s0, ROOT_DBREF)
<1>1. /\ Booted(disk, s0) /\ CanRetrieve(s0, ROOT_DBREF)
      /\ Booted(disk, s1) /\ CanRetrieve(s1, SYSTEM_DBREF)
  BY FirstTouched
<1>2. ROOT_DBREF \in Dbref /\ SYSTEM_DBREF \in Dbref
  BY ClientAssumption, CacheAssumption DEF ROOT_DBREF, SYSTEM_DBREF, Dbref
<1>3. /\ s0 \in Store /\ ChainsOK(s0) /\ Check(s0, ROOT_DBREF)
      /\ s1 \in Store /\ ChainsOK(s1) /\ Check(s1, SYSTEM_DBREF)
  BY <1>1, <1>2 DEF Booted, Check
<1>4. /\ Neat(s0, NULL)
      /\ \A d \in Dbref : KinAt(s0, d) = IF disk[d] # NoImage THEN {Kin(disk[d])} ELSE {}
  BY InitNeat
<1> HIDE DEF s0
<1>5. Quiet(s0, s1, NULL)
  BY <1>1, <1>2, <1>3, <1>4, TouchQuiet
<1> HIDE DEF s1
<1>6. Quiet(s1, Touch(s1, SYSTEM_DBREF), NULL)
  BY <1>1, <1>2, <1>3, <1>5, TouchQuiet DEF Quiet
<1>7. Boot(disk) = Touch(s1, SYSTEM_DBREF)
  BY DEF Boot, s0, s1
<1> QED
  BY <1>4, <1>5, <1>6, <1>7 DEF Quiet

-----------------------------------------------------------------------------
(***************************************************************************)
(* The hierarchy of a store, with the object being destroyed in it, and    *)
(* the loop that is under way, by dbrefs.                                  *)
(***************************************************************************)
DbrefOf(s, h) == IF h = NULL THEN EMPTY ELSE s.obj[h].dbref

World(s, v) ==
  [d \in Existing(s) \cup ({DbrefOf(s, v)} \cap Dbref) |->
     IF d = DbrefOf(s, v) THEN Kin(s.obj[v].data) ELSE Kin(ObjectData(s, d))]

Loop(s, ca) ==
  [pc |-> ca.pc, me |-> DbrefOf(s, ca.who), dying |-> DbrefOf(s, ca.victim),
   todo |-> ca.todo, kids |-> ca.kids, wanted |-> ca.wanted,
   stack |-> ca.stack, seen |-> ca.seen]

\* f is a function.
IsFun(f) == f = [d \in DOMAIN f |-> f[d]]

\* The object being destroyed exists no longer, as far as the cache can tell.
LEMMA DyingDbref ==
  ASSUME NEW s, NEW v, Dying(s, v)
  PROVE  /\ v = NULL => DbrefOf(s, v) = EMPTY
         /\ v # NULL => DbrefOf(s, v) = s.obj[v].dbref /\ DbrefOf(s, v) \in Dbref \ Existing(s)
         /\ DbrefOf(s, v) \notin Existing(s)
BY EmptyDbref DEF Dying, DbrefOf, Gone, Existing

\* w is the hierarchy of s.
Shows(s, v, w) ==
  /\ IsFun(w)
  /\ DOMAIN w = Existing(s) \cup ({DbrefOf(s, v)} \cap Dbref)
  /\ \A d \in Existing(s) : KinAt(s, d) = {w[d]}
  /\ v # NULL => w[DbrefOf(s, v)] = Kin(s.obj[v].data)

\* World is the hierarchy of the store.
LEMMA WorldIs ==
  ASSUME NEW s \in Store, ChainsOK(s), NEW v, Dying(s, v)
  PROVE  /\ Shows(s, v, World(s, v))
         /\ IsWorld(World(s, v))
<1> DEFINE w == World(s, v)
<1>1. /\ DOMAIN w = Existing(s) \cup ({DbrefOf(s, v)} \cap Dbref)
      /\ IsFun(w)
      /\ \A d \in Existing(s) : w[d] = Kin(ObjectData(s, d))
      /\ v # NULL => w[DbrefOf(s, v)] = Kin(s.obj[v].data)
  BY DyingDbref DEF World, IsFun
<1>2. Existing(s) \subseteq Dbref
  BY DEF Existing
<1>3. \A d \in Existing(s) : KinAt(s, d) = {w[d]} /\ ObjectData(s, d) \in Image
  BY <1>1, <1>2, KinExists DEF KinAt
<1>4. \A image \in Image : Kin(image) \in Kinship
  BY DEF Image, Kin, Kinship
<1>5. v # NULL => s.obj[v].data \in Image
  BY StoreTypes DEF Dying, Record
<1>6. v = NULL => DOMAIN w = Existing(s)
  BY <1>1, DyingDbref, EmptyDbref
<1>7. v # NULL => DOMAIN w = Existing(s) \cup {DbrefOf(s, v)}
  BY <1>1, DyingDbref
<1> HIDE DEF w
<1>8. \A d \in DOMAIN w : w[d] \in Kinship /\ d \in Dbref
  BY <1>1, <1>2, <1>3, <1>4, <1>5, <1>6, <1>7
<1>9. IsWorld(w)
  BY <1>1, <1>8 DEF IsWorld, IsFun
<1>10. Shows(s, v, w)
  BY <1>1, <1>3 DEF Shows
<1> QED
  BY <1>9, <1>10 DEF w

\* Its objects are the existing ones and the one being destroyed.
LEMMA ShownDomain ==
  ASSUME NEW s, NEW v, Dying(s, v), NEW w, Shows(s, v, w)
  PROVE  /\ v = NULL => DOMAIN w = Existing(s)
         /\ v # NULL => DOMAIN w = Existing(s) \cup {DbrefOf(s, v)} /\ DbrefOf(s, v) \notin Existing(s)
         /\ Existing(s) \subseteq DOMAIN w
BY DyingDbref, EmptyDbref DEF Shows, Existing

\* Two functions that agree are equal.
LEMMA SameFunction ==
  ASSUME NEW f, NEW g, IsFun(f), IsFun(g),
         DOMAIN f = DOMAIN g, \A d \in DOMAIN f : f[d] = g[d]
  PROVE  f = g
BY DEF IsFun

\* A store shows one hierarchy.
LEMMA ShownOnce ==
  ASSUME NEW s, NEW v, Dying(s, v), NEW w, Shows(s, v, w), NEW u, Shows(s, v, u)
  PROVE  u = w
<1>1. DOMAIN u = DOMAIN w
  BY DEF Shows
<1>2. \A d \in Existing(s) : {u[d]} = {w[d]}
  BY DEF Shows
<1>3. v # NULL => u[DbrefOf(s, v)] = w[DbrefOf(s, v)]
  BY DEF Shows
<1>4. \A d \in DOMAIN w : u[d] = w[d]
  BY <1>2, <1>3, ShownDomain
<1> QED
  BY <1>1, <1>4, SameFunction DEF Shows

\* What shows the hierarchy of a store is its world.
LEMMA WorldShown ==
  ASSUME NEW s \in Store, ChainsOK(s), NEW v, Dying(s, v), NEW w, Shows(s, v, w)
  PROVE  World(s, v) = w
<1>1. Shows(s, v, World(s, v))
  BY WorldIs
<1> HIDE DEF World
<1> QED
  BY <1>1, ShownOnce

\* An object exists if it has lists.
LEMMA ExistingKin ==
  ASSUME NEW s \in Store, ChainsOK(s), NEW t \in Store, ChainsOK(t), NEW d \in Dbref,
         KinAt(t, d) = KinAt(s, d)
  PROVE  d \in Existing(t) <=> d \in Existing(s)
BY KinExists

\* The hierarchy stays as it is.
LEMMA WorldSame ==
  ASSUME NEW s \in Store, ChainsOK(s), NEW t \in Store, ChainsOK(t), NEW v,
         Dying(s, v), Dying(t, v), v # NULL => t.obj[v] = s.obj[v],
         \A d \in Dbref : KinAt(t, d) = KinAt(s, d)
  PROVE  World(t, v) = World(s, v) /\ Existing(t) = Existing(s)
<1>1. Existing(t) = Existing(s) /\ Existing(s) \subseteq Dbref
  BY ExistingKin DEF Existing
<1>2. DbrefOf(t, v) = DbrefOf(s, v)
  BY DEF DbrefOf
<1>3. Shows(s, v, World(s, v))
  BY WorldIs
<1>4. Shows(t, v, World(s, v))
  BY <1>1, <1>2, <1>3 DEF Shows
<1>5. World(t, v) = World(s, v)
  BY <1>4, WorldShown
<1> QED
  BY <1>1, <1>5

\* The last reference of a dead object goes: it exists no longer, but is remembered.
LEMMA WorldDeath ==
  ASSUME NEW s \in Store, ChainsOK(s), Neat(s, NULL), NEW h \in Active(s), Dies(s, h),
         NEW t \in Store, ChainsOK(t), t = Discard(s, h), Dying(t, h)
  PROVE  /\ World(t, h) = World(s, NULL) /\ Neat(t, h)
         /\ DbrefOf(t, h) = s.obj[h].dbref
         /\ Kin(s.obj[h].data) = World(s, NULL)[s.obj[h].dbref]
<1> DEFINE d0 == s.obj[h].dbref
           w == World(s, NULL)
<1>1. /\ d0 \in Dbref /\ h \in Holder /\ h \in Chained(s) /\ d0 # EMPTY /\ h # NULL
  BY ActiveHolder, StoreTypes, EmptyDbref, ClientAssumption
<1>2. /\ Neat(t, h)
      /\ t.obj[h].dbref = d0 /\ t.obj[h].data = s.obj[h].data
      /\ \A d \in Dbref : KinAt(t, d) = IF d = d0 THEN {} ELSE KinAt(s, d)
  BY DeathKin
<1>3. KinAt(s, d0) = {Kin(s.obj[h].data)}
  BY <1>1, KinCached
<1> HIDE DEF d0
<1>4. Existing(t) = Existing(s) \ {d0}
  <2>1. \A d \in Dbref : d # d0 => (d \in Existing(t) <=> d \in Existing(s))
    BY <1>2, ExistingKin
  <2>2. d0 \notin Existing(t)
    BY <1>1, <1>2, KinExists
  <2> QED
    BY <2>1, <2>2 DEF Existing
<1>5. d0 \in Existing(s)
  BY <1>1, <1>3, KinExists
<1>6. DbrefOf(t, h) = d0
  BY <1>1, <1>2 DEF DbrefOf
<1>7. Shows(s, NULL, w) /\ DOMAIN w = Existing(s)
  BY WorldIs, ShownDomain DEF Dying
<1> HIDE DEF w
<1>8. {w[d0]} = {Kin(s.obj[h].data)}
  BY <1>3, <1>5, <1>7 DEF Shows
<1>9. Shows(t, h, w)
  <2>1. Existing(t) \cup ({DbrefOf(t, h)} \cap Dbref) = Existing(s)
    BY <1>1, <1>4, <1>5, <1>6
  <2>2. \A d \in Existing(t) : KinAt(t, d) = {w[d]}
    <3> SUFFICES ASSUME NEW d \in Existing(t)
                 PROVE  KinAt(t, d) = {w[d]}
      OBVIOUS
    <3>1. d \in Existing(s) /\ d # d0 /\ d \in Dbref
      BY <1>4 DEF Existing
    <3>2. KinAt(s, d) = {w[d]}
      BY <1>7, <3>1 DEF Shows
    <3> QED
      BY <1>2, <3>1, <3>2
  <2>3. w[d0] = Kin(t.obj[h].data)
    BY <1>2, <1>8
  <2>4. IsFun(w)
    BY <1>7 DEF Shows
  <2> QED
    BY <1>6, <1>7, <2>1, <2>2, <2>3, <2>4 DEF Shows
<1>10. World(t, h) = w
  BY <1>9, WorldShown
<1> QED
  BY <1>2, <1>6, <1>8, <1>10 DEF w, d0

\* The destroyed object's holder is free again.
LEMMA WorldBury ==
  ASSUME NEW s \in Store, ChainsOK(s), NEW v \in Holder, Gone(s, v), Neat(s, v),
         NEW t \in Store, ChainsOK(t), t = Bury(s, v)
  PROVE  World(t, NULL) = WithoutObject(World(s, v), DbrefOf(s, v)) /\ Neat(t, NULL)
<1> DEFINE w == World(s, v)
           d0 == DbrefOf(s, v)
           u == WithoutObject(w, d0)
<1>1. Neat(t, NULL) /\ \A d \in Dbref : KinAt(t, d) = KinAt(s, d)
  BY BuryKin
<1>2. Existing(t) = Existing(s) /\ Existing(s) \subseteq Dbref
  BY <1>1, ExistingKin DEF Existing
<1>3. v # NULL /\ Dying(s, v) /\ Dying(t, NULL)
  BY ClientAssumption DEF Dying
<1>4. Shows(s, v, w) /\ DOMAIN w = Existing(s) \cup {d0} /\ d0 \notin Existing(s)
  BY <1>3, WorldIs, ShownDomain
<1>5. DbrefOf(t, NULL) \notin Dbref
  BY EmptyDbref DEF DbrefOf
<1> HIDE DEF w, d0
<1>6. DOMAIN u = Existing(s) /\ IsFun(u) /\ \A d \in Existing(s) : u[d] = w[d]
  BY <1>4 DEF WithoutObject, IsFun
<1> HIDE DEF u
<1>7. Shows(t, NULL, u)
  BY <1>1, <1>2, <1>4, <1>5, <1>6 DEF Shows
<1>8. World(t, NULL) = u
  BY <1>3, <1>7, WorldShown
<1> QED
  BY <1>1, <1>8 DEF u, w, d0

\* A new object.
LEMMA WorldNew ==
  ASSUME NEW s \in Store, ChainsOK(s), NEW t \in Store, ChainsOK(t),
         NEW n \in Dbref, n \notin Existing(s), NEW list,
         \A e \in Dbref : e # n => KinAt(t, e) = KinAt(s, e),
         KinAt(t, n) = {[parents |-> list, children |-> <<>>]}
  PROVE  World(t, NULL) = WithObject(World(s, NULL), n, list)
<1> DEFINE w == World(s, NULL)
           u == WithObject(w, n, list)
<1>1. \A d \in Dbref : d # n => (d \in Existing(t) <=> d \in Existing(s))
  BY ExistingKin
<1>2. n \in Existing(t)
  BY KinExists
<1>3. Existing(t) = Existing(s) \cup {n} /\ Existing(t) \subseteq Dbref
  BY <1>1, <1>2 DEF Existing
<1>4. Dying(s, NULL) /\ Dying(t, NULL)
  BY DEF Dying
<1>5. Shows(s, NULL, w) /\ DOMAIN w = Existing(s)
  BY <1>4, WorldIs, ShownDomain
<1>6. DbrefOf(t, NULL) \notin Dbref
  BY EmptyDbref DEF DbrefOf
<1> HIDE DEF w
<1>7. /\ DOMAIN u = Existing(s) \cup {n} /\ IsFun(u)
      /\ \A d \in Existing(s) : u[d] = w[d]
      /\ u[n] = [parents |-> list, children |-> <<>>]
  BY <1>5 DEF WithObject, IsFun
<1> HIDE DEF u
<1>8. \A d \in Existing(t) : KinAt(t, d) = {u[d]}
  BY <1>3, <1>5, <1>7 DEF Shows
<1>9. Shows(t, NULL, u)
  BY <1>3, <1>6, <1>7, <1>8 DEF Shows
<1>10. World(t, NULL) = u
  BY <1>4, <1>9, WorldShown
<1> QED
  BY <1>10 DEF u, w

\* One object's lists change.
LEMMA WorldWrite ==
  ASSUME NEW s \in Store, ChainsOK(s), NEW t \in Store, ChainsOK(t), NEW v,
         Dying(s, v), Dying(t, v), v # NULL => t.obj[v] = s.obj[v],
         NEW d0 \in Existing(s), NEW k,
         \A d \in Dbref : KinAt(t, d) = IF d = d0 THEN {k} ELSE KinAt(s, d)
  PROVE  /\ World(t, v) = [World(s, v) EXCEPT ![d0] = k] /\ Existing(t) = Existing(s)
         /\ d0 \in DOMAIN World(s, v)
<1> DEFINE w == World(s, v)
           u == [w EXCEPT ![d0] = k]
<1>1. d0 \in Dbref /\ Existing(s) \subseteq Dbref
  BY DEF Existing
<1>2. \A d \in Dbref : d # d0 => (d \in Existing(t) <=> d \in Existing(s))
  BY ExistingKin
<1>3. d0 \in Existing(t)
  BY <1>1, KinExists
<1>4. Existing(t) = Existing(s)
  BY <1>1, <1>2, <1>3 DEF Existing
<1>5. DbrefOf(t, v) = DbrefOf(s, v)
  BY DEF DbrefOf
<1>6. Shows(s, v, w) /\ Existing(s) \subseteq DOMAIN w /\ (v # NULL => DbrefOf(s, v) # d0)
  <2>1. Shows(s, v, w)
    BY WorldIs
  <2> HIDE DEF w
  <2> QED
    BY <2>1, ShownDomain
<1> HIDE DEF w
<1>7. /\ DOMAIN u = DOMAIN w /\ IsFun(u) /\ u[d0] = k
      /\ \A d \in DOMAIN w : d # d0 => u[d] = w[d]
  BY <1>6 DEF IsFun
<1>8. v # NULL => u[DbrefOf(s, v)] = w[DbrefOf(s, v)]
  BY <1>6, <1>7, ShownDomain
<1> HIDE DEF u
<1>9. \A d \in Existing(t) : KinAt(t, d) = {u[d]}
  BY <1>1, <1>4, <1>6, <1>7 DEF Shows
<1>10. Shows(t, v, u)
  BY <1>4, <1>5, <1>6, <1>7, <1>8, <1>9 DEF Shows
<1>11. World(t, v) = u
  BY <1>10, WorldShown
<1> QED
  BY <1>4, <1>6, <1>11 DEF u, w

-----------------------------------------------------------------------------
(***************************************************************************)
(* What the steps of ObjectCache do to the hierarchy.                      *)
(***************************************************************************)
Kept(s, t, v) == Sound(s, t) /\ Quiet(s, t, v)

\* What the following lemmas ask of a store, with v being destroyed.
Fit(s, v) == s \in Store /\ ChainsOK(s) /\ Dying(s, v) /\ Neat(s, v)

\* Steps that change no list: what they keep, ...
LEMMA KeptWorld ==
  ASSUME NEW s, NEW v, Fit(s, v), NEW t, Kept(s, t, v)
  PROVE  /\ Fit(t, v)
         /\ World(t, v) = World(s, v) /\ Existing(t) = Existing(s)
         /\ DbrefOf(t, v) = DbrefOf(s, v)
         /\ v # NULL => t.obj[v] = s.obj[v]
         /\ \A g \in Active(s) : t.obj[g].dbref = s.obj[g].dbref
<1>1. Fit(t, v) /\ (v # NULL => t.obj[v] = s.obj[v])
  BY DyingKept DEF Fit, Kept, Sound, Quiet
<1>2. World(t, v) = World(s, v) /\ Existing(t) = Existing(s)
  BY <1>1, WorldSame DEF Fit, Kept, Quiet
<1> QED
  BY <1>1, <1>2 DEF DbrefOf, Kept, Sound

\* ... that there is one, and that two in a row are one.
LEMMA KeptStays ==
  ASSUME NEW s, NEW v, Fit(s, v)
  PROVE  Kept(s, s, v)
BY DEF Fit, Kept, Quiet, Sound

\* Two steps that change no list, one after the other.
LEMMA KeptTrans ==
  ASSUME NEW s, NEW v, Fit(s, v), NEW t, Kept(s, t, v), NEW u, Kept(t, u, v),
         \A g \in Active(s) : g \in Active(t) \/ u.obj[g].dbref = t.obj[g].dbref
  PROVE  Kept(s, u, v)
<1>1. Sound(s, u)
  BY SoundTrans DEF Fit, Kept
<1> QED
  BY <1>1 DEF Kept, Quiet

\* Discarding, grabbing and marking an object are such steps.
LEMMA KeptDiscard ==
  ASSUME NEW s, NEW v, Fit(s, v), NEW h \in Active(s), ~Dies(s, h)
  PROVE  /\ Kept(s, Discard(s, h), v)
         /\ \A g \in Holder : Discard(s, h).obj[g].dbref = s.obj[g].dbref
<1>1. Sound(s, Discard(s, h)) /\ h \in Holder
  BY DiscardEffect, ActiveHolder DEF Fit, Effect
<1> QED
  BY <1>1, DiscardQuiet, DiscardKeepsDbrefs DEF Fit, Kept

\* Another reference to an active object changes no list.
LEMMA KeptGrab ==
  ASSUME NEW s, NEW v, Fit(s, v), NEW h \in Active(s)
  PROVE  Kept(s, Grab(s, h), v) /\ Active(Grab(s, h)) = Active(s)
BY GrabEffect, GrabQuiet DEF Fit, Kept, FoundBy, Effect

\* The flags of an active object change no list and no other field of it.
LEMMA KeptMark ==
  ASSUME NEW s, NEW v, Fit(s, v), NEW h \in Active(s)
  PROVE  /\ Kept(s, MarkDirty(s, h), v) /\ Active(MarkDirty(s, h)) = Active(s)
         /\ Dies(MarkDirty(s, h), h) <=> Dies(s, h)
         /\ MarkDirty(s, h).obj[h].dbref = s.obj[h].dbref
         /\ MarkDirty(s, h).obj[h].data = s.obj[h].data
<1>1. h \in Holder /\ s.obj \in [Holder -> Record]
  BY ActiveHolder DEF Fit, Store
<1>2. Effect(s, MarkDirty(s, h), h, 0) /\ Active(MarkDirty(s, h)) = Active(s)
  <2>1. s.obj[h].data \in Image
    BY <1>1 DEF Record
  <2> QED
    BY <2>1, WriteEffect DEF Fit
<1>3. Quiet(s, MarkDirty(s, h), v)
  BY MarkQuiet DEF Fit
<1>4. /\ MarkDirty(s, h).obj[h].dbref = s.obj[h].dbref
      /\ MarkDirty(s, h).obj[h].data = s.obj[h].data
      /\ MarkDirty(s, h).obj[h].refs = s.obj[h].refs
      /\ MarkDirty(s, h).obj[h].dead = s.obj[h].dead
  BY <1>1 DEF MarkDirty, Record
<1> QED
  BY <1>2, <1>3, <1>4 DEF Kept, Effect, Dies

\* The object of an active holder in the hierarchy.
LEMMA HolderWorld ==
  ASSUME NEW s, NEW v, Fit(s, v), NEW h \in Active(s)
  PROVE  /\ h \in Holder /\ h # NULL /\ h # v
         /\ s.obj[h].dbref \in Existing(s) /\ s.obj[h].dbref \in DOMAIN World(s, v)
         /\ World(s, v)[s.obj[h].dbref] = Kin(s.obj[h].data)
         /\ s.obj[h].dbref # DbrefOf(s, v) /\ s.obj[h].dbref \in Dbref
         /\ DbrefOf(s, h) = s.obj[h].dbref
         /\ s.obj[h].data \in Image
<1> DEFINE d == s.obj[h].dbref
           w == World(s, v)
<1>1. h \in Holder /\ h # NULL /\ d \in Dbref /\ h \in Chained(s) /\ d # EMPTY
  BY ActiveHolder, StoreTypes, EmptyDbref, ClientAssumption DEF Fit
<1>2. KinAt(s, d) = {Kin(s.obj[h].data)} /\ Exists(s, d) /\ s.obj[h].data \in Image
  BY <1>1, KinCached, StoreTypes DEF Fit, Record
<1>3. h # v
  BY <1>1 DEF Fit, Dying, Gone
<1>4. DbrefOf(s, h) = d
  BY <1>1 DEF DbrefOf
<1>5. d \in Existing(s)
  BY <1>1, <1>2, KinExists DEF Fit
<1>6. Shows(s, v, w)
  BY WorldIs DEF Fit
<1> HIDE DEF w, d
<1>7. d \in DOMAIN w /\ d # DbrefOf(s, v)
  <2>1. Dying(s, v)
    BY DEF Fit
  <2>2. Existing(s) \subseteq DOMAIN w
    BY <1>6, <2>1, ShownDomain
  <2>3. DbrefOf(s, v) \notin Existing(s)
    BY <2>1, DyingDbref
  <2> QED
    BY <1>5, <2>2, <2>3
<1>8. {w[d]} = {Kin(s.obj[h].data)}
  BY <1>2, <1>5, <1>6 DEF Shows
<1> QED
  BY <1>1, <1>2, <1>3, <1>4, <1>5, <1>7, <1>8 DEF w, d

\* An object's lists are written through its holder.
Put(w, d, k) == [w EXCEPT ![d] = k]

\* The world after an object is written, ...
LEMMA WriteWorld ==
  ASSUME NEW s, NEW v, Fit(s, v), NEW h \in Active(s), NEW c \in Image
  PROVE  LET t == SetData(s, h, c)
         IN  /\ Fit(t, v) /\ Sound(s, t) /\ Active(t) = Active(s)
             /\ World(t, v) = Put(World(s, v), s.obj[h].dbref, Kin(c))
             /\ Existing(t) = Existing(s)
             /\ DbrefOf(t, v) = DbrefOf(s, v)
             /\ \A g \in Holder : t.obj[g].dbref = s.obj[g].dbref
             /\ Dies(t, h) <=> Dies(s, h)
             /\ t.obj[h].data = c
             /\ v # NULL => t.obj[v] = s.obj[v]
<1> DEFINE t == SetData(s, h, c)
           d0 == s.obj[h].dbref
<1>1. h \in Holder /\ s.obj \in [Holder -> Record]
  BY ActiveHolder DEF Fit, Store
<1>2. /\ \A g \in Holder : t.obj[g].dbref = s.obj[g].dbref
      /\ t.obj[h].refs = s.obj[h].refs /\ t.obj[h].dead = s.obj[h].dead /\ t.obj[h].data = c
  BY <1>1 DEF SetData, Record
<1>3. Sound(s, t) /\ Active(t) = Active(s)
  BY WriteEffect DEF Fit, Effect
<1>4. t \in Store /\ ChainsOK(t)
  BY <1>3 DEF Sound
<1>5. /\ Neat(t, v)
      /\ \A d \in Dbref : KinAt(t, d) = IF d = d0 THEN {Kin(c)} ELSE KinAt(s, d)
  BY SetDataKin DEF Fit
<1>6. Dying(t, v) /\ (v # NULL => t.obj[v] = s.obj[v])
  BY <1>3, DyingKept DEF Fit
<1>7. d0 \in Existing(s)
  BY HolderWorld
<1> HIDE DEF t, d0
<1>8. World(t, v) = Put(World(s, v), d0, Kin(c)) /\ Existing(t) = Existing(s)
  BY <1>4, <1>5, <1>6, <1>7, WorldWrite DEF Fit, Put
<1>9. DbrefOf(t, v) = DbrefOf(s, v)
  BY <1>6 DEF DbrefOf
<1> QED
  BY <1>2, <1>3, <1>4, <1>5, <1>6, <1>8, <1>9 DEF Fit, Dies, t, d0

\* ... when one of its lists is what changes.
LEMMA WriteLists ==
  ASSUME NEW w, NEW d \in DOMAIN w, NEW image \in Image, w[d] = Kin(image),
         NEW list \in Seq(Dbref), NEW c
  PROVE  /\ c = [image EXCEPT !.children = list] =>
              c \in Image /\ Put(w, d, Kin(c)) = WithChildren(w, d, list)
         /\ c = [image EXCEPT !.parents = list] =>
              c \in Image /\ Put(w, d, Kin(c)) = WithParents(w, d, list)
<1>1. /\ c = [image EXCEPT !.children = list] => Kin(c) = [w[d] EXCEPT !.children = list]
      /\ c = [image EXCEPT !.parents = list] => Kin(c) = [w[d] EXCEPT !.parents = list]
  BY DEF Kin, Image
<1>2. /\ c = [image EXCEPT !.children = list] => c \in Image
      /\ c = [image EXCEPT !.parents = list] => c \in Image
  BY DEF Image
<1> QED
  BY <1>1, <1>2 DEF WithChildren, WithParents, Put

\* The two lists of an image.
LEMMA ImageLists ==
  ASSUME NEW image \in Image
  PROVE  /\ Kin(image).parents = image.parents /\ Kin(image).children = image.children
         /\ image.parents \in Seq(Dbref) /\ image.children \in Seq(Dbref)
BY DEF Image, Kin

-----------------------------------------------------------------------------
(***************************************************************************)
(* The inductive invariant.  FirstRun: the server has neither been         *)
(* restarted nor died, so that nothing that is not on disk has been lost.  *)
(***************************************************************************)
FirstRun == restarts = 0 /\ ~crashed

Hierarchy == World(store, call.victim)
TheLoop == Loop(store, call)

HInv ==
  /\ IInv
  /\ Neat(store, call.victim)
  /\ FirstRun => Ordered(Hierarchy, TheLoop)
  /\ FirstRun /\ <<>> \notin ParentLists => Rooted(Hierarchy)

\* What a step has to show beside IInv.
HStep ==
  /\ Neat(store, call.victim)'
  /\ (FirstRun => Ordered(Hierarchy, TheLoop))'
  /\ (FirstRun /\ <<>> \notin ParentLists => Rooted(Hierarchy))'

\* What the invariant says of the state that a step starts from.
LEMMA HBasics ==
  ASSUME HInv
  PROVE  /\ IInv /\ Fit(store, call.victim) /\ CallShape
         /\ store \in Store /\ ChainsOK(store)
         /\ call \in Call /\ call.pc \in PC
         /\ FirstRun => Ordered(Hierarchy, TheLoop)
         /\ FirstRun /\ <<>> \notin ParentLists => Rooted(Hierarchy)
         /\ TheLoop.pc = call.pc /\ TheLoop.todo = call.todo /\ TheLoop.kids = call.kids
         /\ TheLoop.me = DbrefOf(store, call.who)
         /\ TheLoop.dying = DbrefOf(store, call.victim)
<1>1. Dying(store, call.victim)
  BY Basics DEF HInv, IInv, VictimGone, Dying, Call
<1> QED
  BY <1>1, Basics DEF HInv, Fit, TheLoop, Loop, Call

\* The loop is a loop over dbrefs.
LEMMA LoopType ==
  ASSUME NEW s \in Store, NEW ca \in Call
  PROVE  Loop(s, ca) \in LoopState
<1>1. ca.who \in Holder \cup {NULL} /\ ca.victim \in Holder \cup {NULL}
  BY DEF Call
<1>2. \A h \in Holder \cup {NULL} : DbrefOf(s, h) \in Dbref \cup {EMPTY}
  BY StoreTypes DEF DbrefOf, Record
<1> QED
  BY <1>1, <1>2 DEF Loop, LoopState, Call

\* The process dies.
LEMMA DieHolds ==
  ASSUME HInv, Die
  PROVE  HStep
<1>1. store.disk \in [Dbref -> Image \cup {NoImage}]
  BY HBasics DEF Store
<1>2. Neat(InitCache(store.disk), NULL)
  BY <1>1, InitNeat
<1>3. store' = InitCache(store.disk) /\ call'.victim = NULL /\ crashed'
  BY IdleCall DEF Die
<1> QED
  BY <1>2, <1>3 DEF HStep, FirstRun

\* Nothing of the hierarchy changes, and no loop over it goes on.
LEMMA RestHolds ==
  ASSUME HInv, Kept(store, store', NULL), call.victim = NULL, call.pc \in Plain,
         call' \in Call, call'.pc \in {"idle", "method"}, call'.victim = NULL,
         restarts' = restarts, crashed' = crashed
  PROVE  HStep
<1>1. /\ Fit(store', NULL) /\ World(store', NULL) = World(store, NULL)
      /\ Fit(store, NULL)
  BY HBasics, KeptWorld
<1>2. Loop(store', call') \in LoopState
  BY <1>1, LoopType DEF Fit
<1>3. Loop(store', call').pc = call'.pc /\ Loop(store', call').dying = EMPTY
  BY DEF Loop, DbrefOf
<1>4. Hierarchy' = Hierarchy
  BY <1>1 DEF Hierarchy
<1>5. TheLoop' \in LoopState /\ TheLoop'.pc \in {"idle", "method"} /\ TheLoop'.dying = EMPTY
  BY <1>2, <1>3 DEF TheLoop
<1>6. FirstRun' <=> FirstRun
  BY DEF FirstRun
<1>7. FirstRun => Ordered(Hierarchy, TheLoop')
  <2>1. TheLoop.pc \in Plain
    BY HBasics
  <2> QED
    BY <2>1, <1>5, HBasics, RestOrdered
<1>8. FirstRun' => Ordered(Hierarchy', TheLoop')
  BY <1>4, <1>6, <1>7
<1>9. FirstRun' /\ <<>> \notin ParentLists => Rooted(Hierarchy')
  BY <1>4, <1>6, HBasics
<1>10. Neat(store', call'.victim)
  BY <1>1 DEF Fit
<1> QED
  BY <1>8, <1>9, <1>10 DEF HStep, FirstRun

\* The general case: what becomes of the hierarchy and of the loop.
LEMMA LoopHolds ==
  ASSUME NEW t, NEW m, Neat(store', call'.victim),
         Hierarchy' = t, TheLoop' = m,
         restarts' = restarts, crashed' = crashed,
         FirstRun => Ordered(t, m),
         FirstRun /\ <<>> \notin ParentLists => Rooted(t)
  PROVE  HStep
BY DEF HStep, FirstRun

\* Retrieving an object.
LEMMA Fetch ==
  ASSUME Roomy, HInv, NEW d \in Dbref, CanRetrieve(store, d), Exists(store, d)
  PROVE  LET h == Retrieved(store, d)
             t == Retrieve(store, d)
             v == call.victim
         IN  /\ Kept(store, t, v) /\ Fit(t, v) /\ h \in Active(t) /\ h \in Holder /\ h # v
             /\ FoundBy(store, t, h, d)
             /\ t.obj[h].dbref = d /\ ~Dies(t, h) /\ t.obj[h].data \in Image
             /\ d \in DOMAIN Hierarchy /\ Hierarchy[d] = Kin(t.obj[h].data)
             /\ d # DbrefOf(store, v) /\ d \in Existing(store)
<1> DEFINE h == Retrieved(store, d)
           t == Retrieve(store, d)
           v == call.victim
<1>1. /\ h \in Holder /\ t \in Store /\ ChainsOK(t) /\ h \in Active(t)
      /\ Effect(store, t, h, 1) /\ FoundBy(store, t, h, d)
      /\ t.obj[h].data \in Image /\ t.obj[h].dbref = d
  BY HBasics, Found
<1>2. Fit(store, v) /\ store \in Store /\ ChainsOK(store)
  BY HBasics
<1>3. d \in Existing(store)
  BY <1>2, KinExists
<1>4. v # NULL => store.obj[v].dbref # d
  BY <1>2, <1>3 DEF Fit, Dying, Gone
<1>5. Quiet(store, t, v)
  BY <1>2, <1>4, RetrieveQuiet DEF Fit
<1>6. Kept(store, t, v)
  BY <1>1, <1>5 DEF Kept, Effect
<1> HIDE DEF h, t, v
<1>7. Fit(t, v) /\ World(t, v) = World(store, v) /\ DbrefOf(t, v) = DbrefOf(store, v)
  BY <1>2, <1>6, KeptWorld
<1>8. /\ d \in DOMAIN World(t, v) /\ World(t, v)[d] = Kin(t.obj[h].data)
      /\ d # DbrefOf(t, v) /\ h # v
  BY <1>1, <1>7, HolderWorld
<1>9. ~Dies(t, h)
  BY <1>1, <1>2, FoundLives
<1> QED
  BY <1>1, <1>3, <1>6, <1>7, <1>8, <1>9 DEF Hierarchy, h, t, v

\* Retrieving an object, marking it or not, and discarding it.
LEMMA FetchDrop ==
  ASSUME Roomy, HInv, NEW d \in Dbref, CanRetrieve(store, d), Exists(store, d)
  PROVE  LET h == Retrieved(store, d)
             t == Retrieve(store, d)
             v == call.victim
         IN  /\ Kept(store, Discard(t, h), v)
             /\ Kept(store, MarkDirty(t, h), v)
             /\ Kept(store, Discard(MarkDirty(t, h), h), v)
<1> DEFINE h == Retrieved(store, d)
           t == Retrieve(store, d)
           v == call.victim
           m == MarkDirty(t, h)
<1>1. /\ Kept(store, t, v) /\ Fit(t, v) /\ h \in Active(t) /\ h \in Holder
      /\ FoundBy(store, t, h, d) /\ ~Dies(t, h) /\ t.obj[h].data \in Image
  BY Fetch
<1>2. Fit(store, v)
  BY HBasics
<1> HIDE DEF h, t, v
<1>3. /\ Kept(t, m, v) /\ Active(m) = Active(t) /\ ~Dies(m, h)
  BY <1>1, KeptMark
<1> HIDE DEF m
<1>4. Fit(m, v)
  BY <1>1, <1>3, KeptWorld
<1>5. /\ Kept(t, Discard(t, h), v)
      /\ \A g \in Holder : Discard(t, h).obj[g].dbref = t.obj[g].dbref
  BY <1>1, KeptDiscard
<1>6. Kept(m, Discard(m, h), v)
  BY <1>1, <1>3, <1>4, KeptDiscard
<1>7. /\ Effect(store, t, h, 1)
      /\ Effect(store, Discard(t, h), h, 0)
  BY <1>1, <1>2, VisitEffect DEF FoundBy, Fit
<1>8. Effect(store, m, h, 1)
  BY <1>1, <1>2, <1>7, EffectWrite DEF Fit, m
<1>9. Effect(store, Discard(m, h), h, 0)
  BY <1>1, <1>2, <1>8, VisitEffect DEF Fit
<1> QED
  BY <1>1, <1>3, <1>5, <1>6, <1>7, <1>8, <1>9 DEF Kept, Quiet, Effect, h, t, v, m

-----------------------------------------------------------------------------
(***************************************************************************)
(* The operations that have no part in the hierarchy, and destroy().       *)
(***************************************************************************)
\* A dead object that a loop or a search holds is not held by it alone.
LEMMA NotLast ==
  ASSUME HInv, NEW t, Sound(store, t), NEW g \in Active(t),
         References(t, g) >= References(store, g) - Holds(call, g) + 1
  PROVE  ~Dies(t, g)
<1> SUFFICES ASSUME Dies(t, g)
             PROVE  FALSE
  OBVIOUS
<1>1. t \in Store /\ ChainsOK(t) /\ g \in Holder /\ References(t, g) = 1 /\ t.obj[g].dead = 1
  BY ActiveHolder DEF Sound, Dies, References
<1>2. g \in Active(store) /\ store.obj[g].dead = 1
  BY <1>1 DEF Sound
<1>3. References(store, g) > Holds(call, g)
  BY <1>2, HBasics DEF IInv, DeadHeld
<1>4. References(store, g) \in Int /\ Holds(call, g) \in Int
  BY <1>1, HBasics, Basics
<1> QED
  BY <1>1, <1>3, <1>4

\* An operation starts when nothing else is under way.
LEMMA ReadyCall ==
  ASSUME HInv, Ready
  PROVE  /\ call = Idle /\ call.pc \in Plain /\ call.victim = NULL /\ pending = <<>>
         /\ ~crashed /\ Fit(store, NULL)
BY HBasics, IdleCall DEF Ready, Running, CallShape, Plain

\* Operations that touch the hierarchy only to read it.
LEMMA NotFoundHolds ==
  ASSUME Roomy, HInv, Ready, NEW d \in Dbref, CanRetrieve(store, d), NotFound(d)
  PROVE  HStep
<1>1. /\ store' = Retrieve(store, d) /\ UNCHANGED <<call, restarts, crashed>> /\ ~Check(store, d)
  BY DEF NotFound, Exists
<1>2. Quiet(store, store', NULL)
  BY <1>1, ReadyCall, RetrieveQuiet DEF Fit
<1>3. Sound(store, store')
  BY <1>1, HBasics, RetrieveMissing DEF Effect
<1>4. Kept(store, store', NULL)
  BY <1>2, <1>3 DEF Kept
<1> QED
  BY <1>1, <1>4, ReadyCall, RestHolds, HBasics, IdleCall

\* Sending a message keeps the invariant.
LEMMA SendMessageHolds ==
  ASSUME Roomy, HInv, NEW d \in Dbref, SendMessage(d)
  PROVE  HStep
<1>1. Ready /\ CanRetrieve(store, d)
  BY DEF SendMessage
<1>2. CASE NotFound(d)
  BY <1>1, <1>2, NotFoundHolds
<1>3. CASE ~NotFound(d)
  <2>1. /\ Exists(store, d) /\ store' = Retrieve(store, d)
        /\ call' = [Idle EXCEPT !.pc = "method", !.who = Retrieved(store, d),
                                !.target = Retrieved(store, d)]
        /\ UNCHANGED <<frames, pending, dbTop, restarts, crashed>>
    BY <1>3 DEF SendMessage
  <2>2. Kept(store, store', NULL) /\ Retrieved(store, d) \in Holder
    BY <1>1, <2>1, Fetch, ReadyCall
  <2>3. call' \in Call /\ call'.pc = "method" /\ call'.victim = NULL
    BY <2>1, <2>2, IdleCall DEF Call, PC
  <2> QED
    BY <1>1, <2>1, <2>2, <2>3, ReadyCall, RestHolds
<1> QED
  BY <1>2, <1>3

\* Passing a message keeps the invariant.
LEMMA PassMessageHolds ==
  ASSUME Roomy, HInv, PassMessage
  PROVE  HStep
<1>1. /\ Ready /\ frames # <<>> /\ UNCHANGED <<frames, pending, dbTop, restarts, crashed>>
  BY DEF PassMessage
<1>2. Current.object \in Holder
  BY <1>1, HBasics, CurrentActive
<1>3. CASE /\ call' = [Idle EXCEPT !.pc = "method", !.target = Current.object]
           /\ UNCHANGED store
  <2>1. call' \in Call /\ call'.pc = "method" /\ call'.victim = NULL
    BY <1>2, <1>3, IdleCall DEF Call, PC
  <2>2. Kept(store, store', NULL)
    BY <1>1, <1>3, ReadyCall, KeptStays
  <2> QED
    BY <1>1, <2>1, <2>2, ReadyCall, RestHolds
<1>4. CASE \E b \in Dbref :
             /\ Exists(store, b)
             /\ CanRetrieve(store, b)
             /\ store' = Retrieve(store, b)
             /\ call' = [Idle EXCEPT !.pc = "method", !.who = Retrieved(store, b),
                                     !.target = Current.object]
  <2>1. PICK b \in Dbref :
             /\ Exists(store, b)
             /\ CanRetrieve(store, b)
             /\ store' = Retrieve(store, b)
             /\ call' = [Idle EXCEPT !.pc = "method", !.who = Retrieved(store, b),
                                     !.target = Current.object]
    BY <1>4
  <2>2. Kept(store, store', NULL) /\ Retrieved(store, b) \in Holder
    BY <1>1, <2>1, Fetch, ReadyCall
  <2>3. call' \in Call /\ call'.pc = "method" /\ call'.victim = NULL
    BY <1>2, <2>1, <2>2, IdleCall DEF Call, PC
  <2> QED
    BY <1>1, <2>1, <2>2, <2>3, ReadyCall, RestHolds
<1> QED
  BY <1>3, <1>4 DEF PassMessage

\* Returning from a method keeps the invariant.
LEMMA FrameReturnHolds ==
  ASSUME HInv, FrameReturn
  PROVE  HStep
<1>1. Ready /\ UNCHANGED <<store, call, restarts, crashed>>
  BY DEF FrameReturn
<1>2. Kept(store, store', NULL)
  BY <1>1, ReadyCall, KeptStays
<1> QED
  BY <1>1, <1>2, ReadyCall, RestHolds, HBasics, IdleCall

\* destroy() marks the object; it goes when its last reference does.
LEMMA DestroyHolds ==
  ASSUME Roomy, HInv, NEW d \in Dbref, Destroy(d)
  PROVE  HStep
<1>1. Ready /\ CanRetrieve(store, d) /\ d \notin {ROOT_DBREF, SYSTEM_DBREF}
  BY DEF Destroy
<1>2. CASE NotFound(d)
  BY <1>1, <1>2, NotFoundHolds
<1>3. CASE ~NotFound(d)
  <2> DEFINE h == Retrieved(store, d)
             t == Retrieve(store, d)
  <2>1. /\ Exists(store, d) /\ store' = MarkDead(t, h)
        /\ UNCHANGED <<frames, call, dbTop, restarts, crashed>>
    BY <1>3 DEF Destroy
  <2>2. Kept(store, t, NULL) /\ Fit(t, NULL) /\ h \in Active(t)
    BY <1>1, <2>1, Fetch, ReadyCall
  <2> HIDE DEF h, t
  <2>3. Quiet(t, MarkDead(t, h), NULL)
    BY <2>2, MarkQuiet DEF Fit
  <2>4. Quiet(store, store', NULL)
    BY <2>1, <2>2, <2>3 DEF Quiet, Kept
  <2>5. Neat(store', NULL) /\ World(store', NULL) = World(store, NULL)
    <3>1. store' \in Store /\ ChainsOK(store')
      BY <2>1, <2>2, MarkDeadEffect DEF Fit
    <3> QED
      BY <1>1, <2>4, <3>1, ReadyCall, WorldSame DEF Fit, Quiet, Dying
  <2>6. call.who = NULL /\ call.victim = NULL /\ NULL = call'.victim
    BY <1>1, <2>1, ReadyCall, IdleCall
  <2>7. Loop(store', call') = Loop(store, call)
    BY <2>1, <2>6 DEF Loop, DbrefOf
  <2>8. Hierarchy' = Hierarchy /\ TheLoop' = TheLoop
    BY <2>5, <2>6, <2>7 DEF Hierarchy, TheLoop
  <2>9. Neat(store', call'.victim)
    BY <2>5, <2>6
  <2> QED
    BY <2>1, <2>8, <2>9, HBasics, LoopHolds
<1> QED
  BY <1>2, <1>3

\* The methods and the variables have no part in the hierarchy.
LEMMA KeptWrite ==
  ASSUME NEW s, NEW v, Fit(s, v), NEW h \in Active(s), NEW c \in Image,
         Kin(c) = Kin(s.obj[h].data)
  PROVE  Kept(s, SetData(s, h, c), v) /\ Active(SetData(s, h, c)) = Active(s)
<1>1. Sound(s, SetData(s, h, c)) /\ Active(SetData(s, h, c)) = Active(s)
  BY WriteEffect DEF Fit, Effect
<1>2. h \in Chained(s) /\ s.obj[h].dbref # EMPTY
  BY ActiveHolder, StoreTypes, EmptyDbref DEF Fit
<1>3. KinAt(s, s.obj[h].dbref) = {Kin(s.obj[h].data)}
  BY <1>2, KinCached DEF Fit
<1>4. Quiet(s, SetData(s, h, c), v)
  <2>1. /\ Neat(SetData(s, h, c), v)
        /\ \A d \in Dbref : KinAt(SetData(s, h, c), d) =
                              IF d = s.obj[h].dbref THEN {Kin(c)} ELSE KinAt(s, d)
    BY SetDataKin DEF Fit
  <2>2. \A d \in Dbref : KinAt(SetData(s, h, c), d) = KinAt(s, d)
    BY <1>3, <2>1
  <2> QED
    BY <2>1, <2>2 DEF Quiet
<1> QED
  BY <1>1, <1>4 DEF Kept

\* An operator on the current object writes something else than its lists.
LEMMA CurrentHolds ==
  ASSUME HInv, Ready, frames # <<>>, NEW c \in Image,
         Kin(c) = Kin(store.obj[Current.object].data),
         \/ store' = SetData(store, Current.object, c)
         \/ store' = MarkDirty(SetData(store, Current.object, c), Current.object),
         UNCHANGED <<call, restarts, crashed>>
  PROVE  HStep
<1> DEFINE h == Current.object
           t == SetData(store, h, c)
<1>1. Fit(store, NULL) /\ h \in Active(store)
  BY ReadyCall, HBasics, CurrentActive
<1>2. Kept(store, t, NULL) /\ Active(t) = Active(store)
  BY <1>1, KeptWrite
<1> HIDE DEF h
<1>3. store' = t \/ store' = MarkDirty(t, h)
  BY DEF h
<1> HIDE DEF t
<1>4. Fit(t, NULL)
  BY <1>1, <1>2, KeptWorld
<1>5. Kept(t, MarkDirty(t, h), NULL)
  BY <1>1, <1>2, <1>4, KeptMark
<1>6. Kept(store, MarkDirty(t, h), NULL)
  BY <1>1, <1>2, <1>5, KeptTrans
<1>7. Kept(store, store', NULL)
  BY <1>2, <1>3, <1>6
<1> QED
  BY <1>7, ReadyCall, RestHolds, HBasics, IdleCall

\* Defining a method keeps the invariant.
LEMMA DefineMethodHolds ==
  ASSUME HInv, NEW m \in Methods, DefineMethod(m)
  PROVE  HStep
<1> DEFINE c == [store.obj[Current.object].data EXCEPT !.methods = m]
<1>1. /\ Ready /\ frames # <<>>
      /\ store' = MarkDirty(SetData(store, Current.object, c), Current.object)
      /\ UNCHANGED <<call, restarts, crashed>>
  BY DEF DefineMethod
<1>2. store.obj[Current.object].data \in Image
  BY <1>1, HBasics, CurrentActive, HolderData
<1>3. c \in Image /\ Kin(c) = Kin(store.obj[Current.object].data)
  BY <1>2 DEF Image, Kin
<1> QED
  BY <1>1, <1>3, CurrentHolds

\* Assigning a variable keeps the invariant.
LEMMA AssignVarHolds ==
  ASSUME HInv, NEW x \in Vars, AssignVar(x)
  PROVE  HStep
<1> DEFINE c == [store.obj[Current.object].data EXCEPT !.vars = x]
<1>1. /\ Ready /\ frames # <<>>
      /\ \/ store' = SetData(store, Current.object, c)
         \/ store' = MarkDirty(SetData(store, Current.object, c), Current.object)
      /\ UNCHANGED <<call, restarts, crashed>>
  BY DEF AssignVar
<1>2. store.obj[Current.object].data \in Image
  BY <1>1, HBasics, CurrentActive, HolderData
<1>3. c \in Image /\ Kin(c) = Kin(store.obj[Current.object].data)
  BY <1>2 DEF Image, Kin
<1> QED
  BY <1>1, <1>3, CurrentHolds

\* binary_dump() keeps the invariant.
LEMMA BinaryDumpHolds ==
  ASSUME HInv, BinaryDump
  PROVE  HStep
<1>1. Ready /\ store' = Sync(store) /\ UNCHANGED <<call, restarts, crashed>>
  BY DEF BinaryDump
<1>2. Kept(store, store', NULL)
  BY <1>1, ReadyCall, SyncSound, SyncQuiet DEF Fit, Kept
<1> QED
  BY <1>1, <1>2, ReadyCall, RestHolds, HBasics, IdleCall

\* A restart from the disk keeps the invariant.
LEMMA RestartHolds ==
  ASSUME Roomy, HInv, Restart
  PROVE  HStep
<1> DEFINE disk == Sync(store).disk
<1>1. Ready /\ store' = Boot(disk) /\ restarts' = restarts + 1 /\ call' = call
  BY DEF Restart, AtMainLoop
<1>2. /\ Sync(store) \in Store
      /\ \A d \in Dbref : store.disk[d] # NoImage => disk[d] # NoImage
  BY HBasics, SyncEffect
<1>3. ROOT_DBREF \in Dbref /\ SYSTEM_DBREF \in Dbref
  BY CacheAssumption, ClientAssumption DEF ROOT_DBREF, SYSTEM_DBREF, Dbref
<1>4. disk[ROOT_DBREF] # NoImage /\ disk[SYSTEM_DBREF] # NoImage
  BY <1>2, <1>3, HBasics DEF IInv, RootsSafe
<1>5. disk \in [Dbref -> Image \cup {NoImage}]
  BY <1>2 DEF Store
<1> HIDE DEF disk
<1>6. Neat(store', NULL)
  BY <1>1, <1>4, <1>5, BootKin
<1>7. call'.victim = NULL
  BY <1>1, ReadyCall
<1>8. restarts' # 0
  BY <1>1, HBasics, ClientAssumption DEF IInv, TypeOK
<1> QED
  BY <1>6, <1>7, <1>8 DEF HStep, FirstRun

-----------------------------------------------------------------------------
(***************************************************************************)
(* The method search.                                                      *)
(***************************************************************************)
\* A method search changes nothing of the hierarchy, and destroys nothing.
LEMMA MethodCall ==
  ASSUME HInv, call.pc = "method"
  PROVE  call.victim = NULL /\ call.pc \in Plain /\ Fit(store, NULL)
BY HBasics DEF CallShape, Plain

\* The search's own references are not the last ones of a dead object.
LEMMA HeldTwice ==
  ASSUME HInv, NEW t, Sound(store, t), NEW g \in Active(t), g \in {call.who, call.found},
         References(t, g) >= References(store, g)
  PROVE  ~Dies(t, g)
<1>1. g \in Holder /\ t \in Store
  BY ActiveHolder DEF Sound
<1>2. References(store, g) \in Int /\ References(t, g) \in Int /\ Holds(call, g) \in Int
  BY <1>1, HBasics, Basics, StoreTypes
<1>3. Holds(call, g) >= 1
  BY HoldsBy
<1> QED
  BY <1>2, <1>3, NotLast

\* object_find_method() retrieves an ancestor, marks it or not, and goes on.
LEMMA VisitAncestorHolds ==
  ASSUME Roomy, HInv, NEW x \in Dbref, NEW mark \in BOOLEAN, NEW hit \in BOOLEAN,
         VisitAncestor(x, mark, hit)
  PROVE  HStep
<1> DEFINE h == Retrieved(store, x)
           t == Retrieve(store, x)
           s1 == IF mark THEN MarkDirty(t, h) ELSE t
<1>1. call.pc = "method" /\ CanRetrieve(store, x)
  BY DEF VisitAncestor, Running
<1>2. call.victim = NULL /\ call.pc \in Plain /\ Fit(store, NULL)
  BY <1>1, MethodCall
<1>3. CASE Die
  BY <1>3, DieHolds
<1>4. CASE ~Die
  <2>1. /\ Exists(store, x)
        /\ \/ ~hit /\ store' = Discard(s1, h) /\ call' = call
           \/ /\ hit
              /\ store' = IF call.found = NULL THEN s1 ELSE Discard(s1, call.found)
              /\ call' = [call EXCEPT !.found = h]
        /\ restarts' = restarts /\ crashed' = crashed
    BY <1>4 DEF VisitAncestor
  <2>2. /\ Kept(store, t, NULL) /\ Fit(t, NULL) /\ h \in Active(t) /\ h \in Holder
        /\ FoundBy(store, t, h, x) /\ t.obj[h].data \in Image
        /\ Kept(store, Discard(t, h), NULL) /\ Kept(store, MarkDirty(t, h), NULL)
        /\ Kept(store, Discard(MarkDirty(t, h), h), NULL)
    BY <1>1, <1>2, <2>1, Fetch, FetchDrop
  <2> HIDE DEF h, t
  <2>3. Kept(store, s1, NULL) /\ Kept(store, Discard(s1, h), NULL)
    BY <2>2
  <2>4. Effect(store, s1, h, 1)
    BY <1>2, <2>2, EffectWrite DEF FoundBy, Fit
  <2> HIDE DEF s1
  <2>5. Fit(s1, NULL)
    BY <1>2, <2>3, KeptWorld
  <2>6. call.found # NULL => Kept(store, Discard(s1, call.found), NULL)
    <3> SUFFICES ASSUME call.found # NULL
                 PROVE  Kept(store, Discard(s1, call.found), NULL)
      OBVIOUS
    <3> DEFINE g == call.found
    <3>1. g \in Holder /\ g \in Active(store)
      BY HBasics, HeldActive DEF Call
    <3>2. References(store, g) >= 1 /\ References(store, g) \in Int
      BY <1>2, <3>1, ActiveHolder, StoreTypes DEF Fit, References
    <3>3. References(s1, g) >= References(store, g) /\ References(s1, g) \in Int
      BY <2>4, <3>1, <3>2 DEF Effect
    <3>4. g \in Active(s1)
      BY <3>2, <3>3 DEF References
    <3>5. ~Dies(s1, g)
      BY <2>3, <3>3, <3>4, HeldTwice DEF Kept
    <3> HIDE DEF g
    <3>6. /\ Kept(s1, Discard(s1, g), NULL)
          /\ \A f \in Holder : Discard(s1, g).obj[f].dbref = s1.obj[f].dbref
      BY <2>5, <3>4, <3>5, KeptDiscard
    <3>7. Active(store) \subseteq Holder
      BY HBasics, StoreTypes
    <3>8. Kept(store, Discard(s1, g), NULL)
      BY <1>2, <2>3, <3>6, <3>7, KeptTrans
    <3> QED
      BY <3>8 DEF g
  <2>7. Kept(store, store', NULL)
    BY <2>1, <2>3, <2>6
  <2>8. call' \in Call /\ call'.pc = call.pc /\ call'.victim = NULL
    BY <1>2, <2>1, <2>2, HBasics DEF Call
  <2> QED
    BY <1>1, <1>2, <2>1, <2>7, <2>8, RestHolds
<1> QED
  BY <1>3, <1>4

\* The end of a method search keeps the invariant.
LEMMA SearchEndsHolds ==
  ASSUME HInv, SearchEnds
  PROVE  HStep
<1>1. call.pc = "method" /\ call' = Idle /\ UNCHANGED <<store, restarts, crashed>>
  BY DEF SearchEnds, Running
<1>2. Kept(store, store', NULL)
  BY <1>1, MethodCall, KeptStays
<1> QED
  BY <1>1, <1>2, MethodCall, RestHolds, IdleCall

\* The method found starts a frame; the references of the search go.
LEMMA MethodFoundHolds ==
  ASSUME HInv, MethodFound
  PROVE  HStep
<1> DEFINE u1 == Grab(store, call.target)
           u2 == Grab(u1, call.found)
           u3 == IF call.who = NULL THEN u2 ELSE Discard(u2, call.who)
           u4 == Discard(u3, call.found)
<1>1. /\ call.pc = "method" /\ call.found # NULL
      /\ store' = u4 /\ call' = Idle /\ UNCHANGED <<restarts, crashed>>
  BY DEF MethodFound, Running
<1>2. /\ call.target \in Holder /\ call.found \in Holder
      /\ call.who \in Holder \/ call.who = NULL
      /\ call.victim = NULL /\ call.pc \in Plain /\ Fit(store, NULL)
      /\ call.target = call.who \/ (frames # <<>> /\ call.target = Current.object)
  BY <1>1, HBasics, MethodCall DEF CallShape, Call
<1>3. call.target \in Active(store) /\ call.found \in Active(store)
  BY <1>2, HBasics, HeldActive, CurrentActive
<1>4. Kept(store, u1, NULL) /\ Active(u1) = Active(store) /\ Effect(store, u1, call.target, 1)
  BY <1>2, <1>3, KeptGrab, GrabEffect DEF Fit, FoundBy
<1> HIDE DEF u1
<1>5. Fit(u1, NULL)
  BY <1>2, <1>4, KeptWorld
<1>6. Kept(u1, u2, NULL) /\ Active(u2) = Active(store) /\ Effect(u1, u2, call.found, 1)
  BY <1>3, <1>4, <1>5, KeptGrab, GrabEffect DEF Fit, FoundBy
<1> HIDE DEF u2
<1>7. Kept(store, u2, NULL) /\ Fit(u2, NULL)
  BY <1>2, <1>4, <1>5, <1>6, KeptTrans, KeptWorld
<1>8. \A g \in Holder : /\ References(u2, g) \in Int /\ References(store, g) \in Int
                        /\ References(u2, g) >= References(store, g)
                        /\ g = call.found => References(u2, g) >= References(store, g) + 1
  <2>1. \A g \in Holder : References(u2, g) \in Int /\ References(store, g) \in Int
    BY <1>2, <1>7, StoreTypes DEF Fit
  <2> QED
    BY <2>1, <1>4, <1>6 DEF Effect
<1>9. Active(store) \subseteq Holder
  BY HBasics, StoreTypes
<1>10. /\ Kept(store, u3, NULL)
       /\ \A g \in Holder : References(u3, g) = References(u2, g) - (IF call.who = g THEN 1 ELSE 0)
  <2>1. CASE call.who = NULL
    BY <2>1, <1>7, <1>8, ClientAssumption
  <2>2. CASE call.who # NULL
    <3> DEFINE g == call.who
    <3>1. g \in Active(u2) /\ g \in Holder
      BY <1>2, <1>6, <2>2, HBasics, HeldActive
    <3>2. ~Dies(u2, g)
      BY <3>1, <1>7, <1>8, HeldTwice DEF Kept
    <3>3. u3 = Discard(u2, g)
      BY <2>2
    <3> HIDE DEF g, u3
    <3>4. /\ Kept(u2, u3, NULL) /\ Effect(u2, u3, g, -1)
          /\ \A f \in Holder : u3.obj[f].dbref = u2.obj[f].dbref
      BY <1>7, <3>1, <3>2, <3>3, KeptDiscard, DiscardEffect DEF Fit
    <3>5. Kept(store, u3, NULL)
      BY <1>2, <1>7, <1>9, <3>4, KeptTrans
    <3> QED
      BY <3>4, <3>5, <1>8 DEF Effect, g
  <2> QED
    BY <2>1, <2>2
<1> HIDE DEF u3
<1>11. Fit(u3, NULL)
  BY <1>2, <1>10, KeptWorld
<1>12. \A g \in Holder : Holds(call, g) = (IF call.who = g THEN 1 ELSE 0)
                                         + (IF call.found = g THEN 1 ELSE 0)
  BY HoldsBy
<1>13. References(u3, call.found) >= References(store, call.found) - Holds(call, call.found) + 2
  <2> DEFINE g == call.found
  <2>1. /\ References(u2, g) >= References(store, g) + 1
        /\ References(u2, g) \in Int /\ References(store, g) \in Int
    BY <1>2, <1>8
  <2>2. References(u3, g) = References(u2, g) - (IF call.who = g THEN 1 ELSE 0)
    BY <1>2, <1>10
  <2>3. Holds(call, g) = (IF call.who = g THEN 1 ELSE 0) + 1
    BY <1>2, <1>12
  <2> QED
    BY <2>1, <2>2, <2>3
<1>14. call.found \in Active(u3)
  <2>1. References(store, call.found) >= Holds(call, call.found)
    <3>1. \A g : /\ FramePointers(frames, g) \in Nat /\ Count(pending, g) \in Nat
                 /\ Holds(call, g) \in Nat
      BY HBasics, Basics, FramePointersType, CountType, PointersOfType
    <3>2. PointersOf(frames, pending, call, call.found) >= Holds(call, call.found)
      BY <3>1 DEF PointersOf
    <3> QED
      BY <3>2, <1>2, HBasics, Basics DEF IInv, RefsEnough
  <2>2. References(store, call.found) \in Int /\ Holds(call, call.found) \in Int
    BY <1>2, HBasics, Basics
  <2>3. References(u3, call.found) \in Int
    BY <1>2, <1>8, <1>10
  <2>4. References(u3, call.found) # 0
    BY <1>13, <2>1, <2>2, <2>3
  <2> QED
    BY <2>4 DEF References
<1>15. ~Dies(u3, call.found)
  <2>1. References(u3, call.found) >= References(store, call.found) - Holds(call, call.found) + 1
    <3>1. References(store, call.found) \in Int /\ Holds(call, call.found) \in Int
      BY <1>2, HBasics, Basics
    <3>2. References(u3, call.found) \in Int
      BY <1>2, <1>8, <1>10
    <3> QED
      BY <1>13, <3>1, <3>2
  <2> QED
    BY <2>1, <1>10, <1>14, NotLast DEF Kept
<1>16. /\ Kept(u3, u4, NULL)
       /\ \A f \in Holder : u4.obj[f].dbref = u3.obj[f].dbref
  BY <1>11, <1>14, <1>15, KeptDiscard
<1> HIDE DEF u4
<1>17. Kept(store, store', NULL)
  BY <1>1, <1>2, <1>9, <1>10, <1>16, KeptTrans
<1> QED
  BY <1>1, <1>2, <1>17, RestHolds, IdleCall

-----------------------------------------------------------------------------
(***************************************************************************)
(* create() and the beginning of chparents().                              *)
(***************************************************************************)
\* op_create(): the new object is in the cache and names its parents, which are to
\* adopt it.
LEMMA CreateHolds ==
  ASSUME Roomy, HInv, NEW parents \in ParentLists, Create(parents)
  PROVE  HStep
<1> DEFINE n == dbTop
           c == NewObject(parents)
           h == Victim(store, n)
           t == GetHolder(store, n, c)
           w == World(store, NULL)
<1>1. /\ Ready /\ dbTop <= MaxDbref /\ CanGetHolder(store, n)
      /\ \A i \in 1 .. Len(parents) : Exists(store, parents[i])
      /\ store' = t
      /\ call' = [Idle EXCEPT !.pc = "adopt", !.who = h, !.todo = parents]
      /\ UNCHANGED <<restarts, crashed>>
  BY DEF Create
<1>2. /\ call = Idle /\ call.pc = "idle" /\ call.victim = NULL /\ Fit(store, NULL)
  BY <1>1, ReadyCall, IdleCall
<1>3. n \in Dbref /\ n \notin Existing(store) /\ (\A g \in Chained(store) : store.obj[g].dbref # n)
  <2>1. n \in Dbref
    BY <1>1, HBasics, CacheAssumption DEF IInv, TypeOK, Dbref
  <2>2. n \notin Existing(store)
    BY <2>1, HBasics DEF IInv, DbTopUnused, Dbref
  <2> QED
    BY <2>1, <2>2 DEF Existing
<1>4. parents \in Seq(Dbref)
  BY ClientAssumption
<1>5. c \in Image /\ Kin(c) = [parents |-> parents, children |-> <<>>]
  BY <1>4, BlankTypes DEF NewObject, Kin, Blank, Image
<1> HIDE DEF c
<1>6. /\ t \in Store /\ ChainsOK(t) /\ h \in Holder
      /\ t.obj = [store.obj EXCEPT ![h] = [dbref |-> n, refs |-> 1, dirty |-> 0,
                                           dead |-> 0, data |-> c]]
  BY <1>1, <1>2, <1>3, <1>5, GetHolderEffect DEF Fit
<1>7. /\ Neat(t, NULL)
      /\ \A e \in Dbref : e # n => KinAt(t, e) = KinAt(store, e)
      /\ KinAt(t, n) = {Kin(c)}
  BY <1>2, <1>3, <1>5, NewHolder DEF Fit
<1>8. t.obj[h].dbref = n
  BY <1>2, <1>6 DEF Fit, Store
<1> HIDE DEF h, t
<1>9. World(t, NULL) = WithObject(w, n, parents)
  BY <1>2, <1>3, <1>5, <1>6, <1>7, WorldNew DEF Fit
<1>10. DOMAIN w = Existing(store)
  BY <1>2, WorldIs, ShownDomain DEF Fit
<1>11. Range(parents) \subseteq DOMAIN w
  <2> SUFFICES ASSUME NEW i \in 1 .. Len(parents)
               PROVE  parents[i] \in DOMAIN w
    BY <1>4 DEF Range
  <2>1. parents[i] \in Dbref /\ Exists(store, parents[i])
    BY <1>1, <1>4
  <2> QED
    BY <2>1, <1>2, <1>10, KinExists DEF Fit
<1> DEFINE m == Loop(t, call')
<1>12. call' \in Call /\ call'.pc = "adopt" /\ call'.who = h /\ call'.todo = parents /\ call'.victim = NULL
  BY <1>1, <1>4, <1>6, IdleCall DEF Call, PC
<1>13. m \in LoopState
  BY <1>6, <1>12, LoopType
<1>14. m.pc = "adopt" /\ m.me = n /\ m.dying = EMPTY /\ m.todo = parents
  BY <1>6, <1>8, <1>12, ClientAssumption DEF Loop, DbrefOf
<1>15. Hierarchy = w /\ TheLoop.pc = "idle"
  BY <1>2, HBasics DEF Hierarchy
<1> HIDE DEF m, w
<1> DEFINE u == WithObject(w, n, parents)
<1>16. FirstRun => Ordered(w, TheLoop)
  BY <1>15, HBasics
<1>17. FirstRun => Ordered(u, m) /\ (parents # <<>> /\ Rooted(w) => Rooted(u))
  BY <1>3, <1>4, <1>10, <1>11, <1>13, <1>14, <1>15, <1>16, CreateOrdered
<1> HIDE DEF u, n
<1>18. FirstRun /\ <<>> \notin ParentLists => Rooted(u)
  BY <1>17, <1>15, HBasics
<1>19. Hierarchy' = u /\ TheLoop' = m /\ Neat(store', call'.victim)
  BY <1>1, <1>7, <1>9, <1>12 DEF Hierarchy, TheLoop, m, u, n
<1> QED
  BY <1>1, <1>17, <1>18, <1>19, LoopHolds

\* op_chparents() begins: it refuses the root, or checks the new parents one by one.
LEMMA ChangeParentsHolds ==
  ASSUME Roomy, HInv, NEW d \in Dbref, NEW parents \in ParentLists, ChangeParents(d, parents)
  PROVE  HStep
<1>1. Ready /\ CanRetrieve(store, d)
  BY DEF ChangeParents
<1>2. CASE NotFound(d)
  BY <1>1, <1>2, NotFoundHolds
<1>3. CASE /\ Exists(store, d) /\ parents = <<>>
           /\ store' = Retrieve(store, d)
           /\ UNCHANGED <<frames, pending, call, dbTop, restarts, crashed>>
  <2>1. Kept(store, store', NULL)
    BY <1>1, <1>3, Fetch, ReadyCall
  <2> QED
    BY <1>1, <1>3, <2>1, ReadyCall, RestHolds, HBasics, IdleCall
<1>4. CASE /\ Exists(store, d) /\ parents # <<>>
           /\ store' = Retrieve(store, d)
           /\ call' = [Idle EXCEPT !.pc = "check", !.who = Retrieved(store, d),
                                   !.todo = parents, !.wanted = parents]
           /\ UNCHANGED <<frames, pending, dbTop, restarts, crashed>>
  <2> DEFINE h == Retrieved(store, d)
             t == Retrieve(store, d)
             m == Loop(t, call')
  <2>1. call.pc \in Plain /\ call.victim = NULL /\ Fit(store, NULL)
    BY <1>1, ReadyCall
  <2>2. /\ Kept(store, t, NULL) /\ Fit(t, NULL) /\ h \in Holder /\ t.obj[h].dbref = d
        /\ d \in DOMAIN Hierarchy
    BY <1>1, <1>4, <2>1, Fetch
  <2>3. parents \in Seq(Dbref)
    BY ClientAssumption
  <2>4. store' = t /\ call' = [Idle EXCEPT !.pc = "check", !.who = h,
                                           !.todo = parents, !.wanted = parents]
    BY <1>4
  <2> HIDE DEF h, t
  <2>5. /\ call' \in Call /\ call'.pc = "check" /\ call'.who = h /\ call'.todo = parents
        /\ call'.wanted = parents /\ call'.victim = NULL
    BY <2>2, <2>3, <2>4, IdleCall DEF Call, PC
  <2>6. m \in LoopState
    BY <2>2, <2>5, LoopType DEF Fit
  <2>7. m.pc = "check" /\ m.me = d /\ m.dying = EMPTY /\ m.todo = parents /\ m.wanted = parents
    BY <2>2, <2>5, ClientAssumption DEF Loop, DbrefOf
  <2>8. World(t, NULL) = World(store, NULL)
    BY <2>1, <2>2, KeptWorld
  <2> HIDE DEF m
  <2>9. FirstRun => Ordered(Hierarchy, TheLoop)
    BY HBasics
  <2>10. TheLoop.pc \in Plain
    BY <2>1, HBasics
  <2>11. FirstRun => Ordered(Hierarchy, m)
    BY <1>4, <2>2, <2>6, <2>7, <2>9, <2>10, CheckOrdered
  <2>12. Hierarchy' = Hierarchy /\ TheLoop' = m /\ Neat(store', call'.victim)
    BY <2>1, <2>2, <2>4, <2>5, <2>8 DEF Hierarchy, TheLoop, m, Fit
  <2> QED
    BY <1>4, <2>11, <2>12, HBasics, LoopHolds
<1> QED
  BY <1>2, <1>3, <1>4 DEF ChangeParents

-----------------------------------------------------------------------------
(***************************************************************************)
(* The state of a loop field by field: the provers compare records with    *)
(* several updated fields only one update at a time.                       *)
(***************************************************************************)
LoopOf(a, b, c, d, e, f, g, h) ==
  [pc |-> a, me |-> b, dying |-> c, todo |-> d, kids |-> e, wanted |-> f, stack |-> g, seen |-> h]

PcTo(l, x) == [l EXCEPT !.pc = x]
MeTo(l, x) == [l EXCEPT !.me = x]
TodoTo(l, x) == [l EXCEPT !.todo = x]
KidsTo(l, x) == [l EXCEPT !.kids = x]
StackTo(l, x) == [l EXCEPT !.stack = x]
SeenTo(l, x) == [l EXCEPT !.seen = x]

\* Each update of a loop changes one field.
LEMMA OneField ==
  ASSUME NEW a, NEW b, NEW c, NEW d, NEW e, NEW f, NEW g, NEW h, NEW x
  PROVE  LET l == LoopOf(a, b, c, d, e, f, g, h)
         IN  /\ PcTo(l, x) = LoopOf(x, b, c, d, e, f, g, h)
             /\ MeTo(l, x) = LoopOf(a, x, c, d, e, f, g, h)
             /\ TodoTo(l, x) = LoopOf(a, b, c, x, e, f, g, h)
             /\ KidsTo(l, x) = LoopOf(a, b, c, d, x, f, g, h)
             /\ StackTo(l, x) = LoopOf(a, b, c, d, e, f, x, h)
             /\ SeenTo(l, x) = LoopOf(a, b, c, d, e, f, g, x)
BY DEF LoopOf, PcTo, MeTo, TodoTo, KidsTo, StackTo, SeenTo

\* The loop in progress, field by field.
LEMMA LoopParts ==
  ASSUME NEW s, NEW ca
  PROVE  Loop(s, ca) = LoopOf(ca.pc, DbrefOf(s, ca.who), DbrefOf(s, ca.victim), ca.todo,
                              ca.kids, ca.wanted, ca.stack, ca.seen)
BY DEF Loop, LoopOf

\* How the loop follows the call.
LEMMA LoopFollows ==
  ASSUME NEW s, NEW t, NEW ca, NEW cb, cb.wanted = ca.wanted,
         DbrefOf(t, cb.victim) = DbrefOf(s, ca.victim)
  PROVE  LET l == Loop(s, ca)
             m == Loop(t, cb)
             x == cb.pc
             y == DbrefOf(t, cb.who)
             same == y = DbrefOf(s, ca.who)
             still == cb.stack = ca.stack /\ cb.seen = ca.seen
             there == cb.todo = ca.todo /\ cb.kids = ca.kids
         IN  /\ same /\ still /\ x = ca.pc /\ cb.kids = ca.kids => m = TodoTo(l, cb.todo)
             /\ same /\ still /\ x = ca.pc /\ cb.todo = ca.todo => m = KidsTo(l, cb.kids)
             /\ same /\ still /\ cb.kids = ca.kids => m = TodoTo(PcTo(l, x), cb.todo)
             /\ same /\ still /\ cb.todo = ca.todo => m = KidsTo(PcTo(l, x), cb.kids)
             /\ same /\ there /\ x = ca.pc /\ cb.seen = ca.seen => m = StackTo(l, cb.stack)
             /\ same /\ there /\ x = ca.pc => m = SeenTo(StackTo(l, cb.stack), cb.seen)
             /\ same /\ there => m = SeenTo(StackTo(PcTo(l, x), cb.stack), cb.seen)
             /\ still /\ there => m = MeTo(PcTo(l, x), y)
             /\ still => m = KidsTo(TodoTo(MeTo(PcTo(l, x), y), cb.todo), cb.kids)
<1> DEFINE a == ca.pc
           b == DbrefOf(s, ca.who)
           c == DbrefOf(s, ca.victim)
           d == ca.todo
           e == ca.kids
           f == ca.wanted
           g == ca.stack
           h == ca.seen
           l == Loop(s, ca)
           m == Loop(t, cb)
           x == cb.pc
           y == DbrefOf(t, cb.who)
           z == cb.todo
           u == cb.kids
           v == cb.stack
           w == cb.seen
<1>1. l = LoopOf(a, b, c, d, e, f, g, h)
  BY LoopParts
<1>2. m = LoopOf(x, y, c, z, u, f, v, w)
  BY LoopParts
<1> HIDE DEF a, b, c, d, e, f, g, h, l, m, x, y, z, u, v, w
<1>3. PcTo(l, x) = LoopOf(x, b, c, d, e, f, g, h)
  BY <1>1, OneField
<1>4. MeTo(PcTo(l, x), y) = LoopOf(x, y, c, d, e, f, g, h)
  BY <1>3, OneField
<1>5. TodoTo(l, z) = LoopOf(a, b, c, z, e, f, g, h)
  BY <1>1, OneField
<1>6. KidsTo(l, u) = LoopOf(a, b, c, d, u, f, g, h)
  BY <1>1, OneField
<1>7. TodoTo(PcTo(l, x), z) = LoopOf(x, b, c, z, e, f, g, h)
  BY <1>3, OneField
<1>8. KidsTo(PcTo(l, x), u) = LoopOf(x, b, c, d, u, f, g, h)
  BY <1>3, OneField
<1>9. StackTo(l, v) = LoopOf(a, b, c, d, e, f, v, h)
  BY <1>1, OneField
<1>10. SeenTo(StackTo(l, v), w) = LoopOf(a, b, c, d, e, f, v, w)
  BY <1>9, OneField
<1>11. SeenTo(StackTo(PcTo(l, x), v), w) = LoopOf(x, b, c, d, e, f, v, w)
  <2>1. StackTo(PcTo(l, x), v) = LoopOf(x, b, c, d, e, f, v, h)
    BY <1>3, OneField
  <2> QED
    BY <2>1, OneField
<1>12. KidsTo(TodoTo(MeTo(PcTo(l, x), y), z), u) = LoopOf(x, y, c, z, u, f, g, h)
  <2>1. TodoTo(MeTo(PcTo(l, x), y), z) = LoopOf(x, y, c, z, e, f, g, h)
    BY <1>4, OneField
  <2> QED
    BY <2>1, OneField
<1> QED
  BY <1>2, <1>4, <1>5, <1>6, <1>7, <1>8, <1>9, <1>10, <1>11, <1>12
     DEF a, b, d, e, g, h, l, m, x, y, z, u, v, w

\* The object a loop works on keeps its dbref, and is in the hierarchy.
LEMMA SubjectKept ==
  ASSUME HInv, NEW t, Sound(store, t)
  PROVE  DbrefOf(t, call.who) = DbrefOf(store, call.who)
<1>1. call.who \in Holder \cup {NULL}
  BY HBasics DEF Call
<1>2. CASE call.who = NULL
  BY <1>2 DEF DbrefOf
<1>3. CASE call.who # NULL
  <2>1. call.who \in Active(store)
    BY <1>1, <1>3, HBasics, HeldActive
  <2> QED
    BY <2>1 DEF Sound, DbrefOf
<1> QED
  BY <1>2, <1>3

\* The loop goes on; the hierarchy stays.
LEMMA KeptHolds ==
  ASSUME HInv, Kept(store, store', call.victim),
         call'.who = call.who, call'.victim = call.victim,
         restarts' = restarts, crashed' = crashed,
         FirstRun => Ordered(Hierarchy, Loop(store, call'))
  PROVE  HStep
<1>1. /\ Fit(store', call.victim) /\ World(store', call.victim) = World(store, call.victim)
      /\ DbrefOf(store', call.victim) = DbrefOf(store, call.victim)
  BY HBasics, KeptWorld
<1>2. DbrefOf(store', call.who) = DbrefOf(store, call.who)
  BY SubjectKept DEF Kept
<1>3. Loop(store', call') = Loop(store, call')
  BY <1>1, <1>2 DEF Loop
<1>4. Hierarchy' = Hierarchy /\ TheLoop' = Loop(store, call') /\ Neat(store', call'.victim)
  BY <1>1, <1>3 DEF Hierarchy, TheLoop, Fit
<1> QED
  BY <1>4, HBasics, LoopHolds

\* op_chparents() gives up: nothing has changed yet.
LEMMA RejectHolds ==
  ASSUME HInv, call.pc \in {"check", "search"}, Kept(store, store', NULL), call' = Idle,
         restarts' = restarts, crashed' = crashed
  PROVE  HStep
<1>1. call.victim = NULL /\ call.pc \in Plain
  BY HBasics DEF CallShape, Plain
<1> QED
  BY <1>1, RestHolds, IdleCall

\* The object of a loop that works on a holder.
LEMMA WhoWorld ==
  ASSUME HInv, call.who # NULL
  PROVE  /\ call.who \in Active(store) /\ call.who \in Holder
         /\ TheLoop.me = store.obj[call.who].dbref
         /\ TheLoop.me \in DOMAIN Hierarchy /\ TheLoop.me \in Dbref
         /\ Hierarchy[TheLoop.me] = Kin(store.obj[call.who].data)
         /\ store.obj[call.who].data \in Image
<1>1. call.who \in Active(store)
  BY HBasics, HeldActive DEF Call
<1>2. TheLoop.me = store.obj[call.who].dbref
  BY HBasics DEF DbrefOf
<1> QED
  BY <1>1, <1>2, HBasics, HolderWorld DEF Hierarchy

\* A new parent is looked up, and the search above it starts.
LEMMA CheckParentHolds ==
  ASSUME HInv, CheckParent
  PROVE  HStep
<1> DEFINE p == Head(call.todo)
           me == store.obj[call.who].dbref
<1>1. /\ call.pc = "check" /\ call.todo # <<>> /\ UNCHANGED <<store, restarts, crashed>>
      /\ IF ~Exists(store, p) \/ p = me
         THEN call' = Idle
         ELSE call' = [call EXCEPT !.pc = "search", !.stack = <<p>>, !.seen = {}]
  BY DEF CheckParent, Running, Reject
<1>2. /\ call.who # NULL /\ call.victim = NULL /\ Fit(store, NULL) /\ p \in Dbref
      /\ call \in Call
  BY <1>1, HBasics, CallLists, HeadTail, ClientAssumption DEF CallShape
<1>3. Kept(store, store', NULL)
  BY <1>1, <1>2, KeptStays
<1>4. CASE ~Exists(store, p) \/ p = me
  BY <1>1, <1>3, <1>4, RejectHolds
<1>5. CASE ~(~Exists(store, p) \/ p = me)
  <2>1. call' = [call EXCEPT !.pc = "search", !.stack = <<p>>, !.seen = {}]
    BY <1>1, <1>5
  <2>2. p \in Existing(store)
    BY <1>2, <1>5, KinExists DEF Fit
  <2>3. p \in DOMAIN Hierarchy
    BY <1>2, <2>2, WorldIs, ShownDomain DEF Fit, Hierarchy
  <2>4. TheLoop.me = me
    BY <1>2, WhoWorld
  <2>5. p # me
    BY <1>5
  <2> HIDE DEF p, me
  <2>6. Loop(store, call') = [TheLoop EXCEPT !.pc = "search", !.stack = <<p>>, !.seen = {}]
    <3>a. /\ call'.who = call.who /\ call'.victim = call.victim /\ call'.wanted = call.wanted
          /\ call'.pc = "search" /\ call'.todo = call.todo /\ call'.kids = call.kids
          /\ call'.stack = <<p>> /\ call'.seen = {}
      BY <1>2, <2>1 DEF Call
    <3>b. Loop(store, call') = SeenTo(StackTo(PcTo(TheLoop, "search"), <<p>>), {})
      BY <3>a, LoopFollows DEF TheLoop
    <3> QED
      BY <3>b DEF PcTo, TodoTo, KidsTo, StackTo, SeenTo
  <2>7. TheLoop.pc = "check" /\ TheLoop.todo # <<>> /\ Head(TheLoop.todo) = p
    BY <1>1, HBasics DEF p
  <2>8. FirstRun => Ordered(Hierarchy, Loop(store, call'))
    BY <2>3, <2>4, <2>5, <2>6, <2>7, HBasics, SearchOrdered
  <2>9. call'.who = call.who /\ call'.victim = call.victim
    BY <1>2, <2>1 DEF Call
  <2> QED
    BY <1>1, <1>2, <1>3, <2>8, <2>9, KeptHolds
<1> QED
  BY <1>4, <1>5

\* All are checked: the old parents are to forget the object.
LEMMA ParentsCheckedHolds ==
  ASSUME HInv, ParentsChecked
  PROVE  HStep
<1> DEFINE list == store.obj[call.who].data.parents
<1>1. /\ call.pc = "check" /\ call.todo = <<>> /\ UNCHANGED <<store, restarts, crashed>>
      /\ call' = [call EXCEPT !.pc = "leave", !.todo = list]
  BY DEF ParentsChecked, Running
<1>2. call.who # NULL /\ call.victim = NULL /\ Fit(store, NULL) /\ call \in Call
  BY <1>1, HBasics, ClientAssumption DEF CallShape
<1>3. Kept(store, store', NULL)
  BY <1>1, <1>2, KeptStays
<1>4. list = Hierarchy[TheLoop.me].parents
  BY <1>2, WhoWorld, ImageLists
<1> HIDE DEF list
<1>5. Loop(store, call') = [TheLoop EXCEPT !.pc = "leave", !.todo = list]
  <2>a. /\ call'.who = call.who /\ call'.victim = call.victim /\ call'.wanted = call.wanted
        /\ call'.pc = "leave" /\ call'.todo = list /\ call'.kids = call.kids
        /\ call'.stack = call.stack /\ call'.seen = call.seen
    BY <1>1, <1>2 DEF Call
  <2>b. Loop(store, call') = TodoTo(PcTo(TheLoop, "leave"), list)
    BY <2>a, LoopFollows DEF TheLoop
  <2> QED
    BY <2>b DEF PcTo, TodoTo, KidsTo, StackTo, SeenTo
<1>6. FirstRun => Ordered(Hierarchy, Loop(store, call'))
  BY <1>1, <1>4, <1>5, HBasics, CheckedOrdered
<1>7. call'.who = call.who /\ call'.victim = call.victim
  BY <1>1, <1>2 DEF Call
<1> QED
  BY <1>1, <1>2, <1>3, <1>6, <1>7, KeptHolds

\* object_has_ancestor() visits the object on top of its stack.
LEMMA SearchAncestorHolds ==
  ASSUME Roomy, HInv, SearchAncestor
  PROVE  HStep
<1> DEFINE x == Head(call.stack)
           h == Retrieved(store, x)
           t == Retrieve(store, x)
           parents == t.obj[h].data.parents
           rest == Tail(call.stack)
           me == store.obj[call.who].dbref
<1>1. call.pc = "search" /\ call.stack # <<>> /\ CanRetrieve(store, x)
  BY DEF SearchAncestor, Running
<1>2. /\ call.who # NULL /\ call.victim = NULL /\ Fit(store, NULL) /\ x \in Dbref
      /\ call \in Call
  BY <1>1, HBasics, CallLists, HeadTail, ClientAssumption DEF CallShape
<1>3. CASE Die
  BY <1>3, DieHolds
<1>4. CASE ~Die
  <2>1. /\ Exists(store, x) /\ UNCHANGED <<restarts, crashed>>
        /\ \/ /\ x \in call.seen
              /\ store' = Discard(t, h)
              /\ call' = [call EXCEPT !.stack = rest]
           \/ /\ store' = Discard(MarkDirty(t, h), h)
              /\ me \in Range(parents) /\ call' = Idle
           \/ /\ x \notin call.seen
              /\ store' = Discard(MarkDirty(t, h), h)
              /\ me \notin Range(parents)
              /\ call' = [call EXCEPT !.stack = parents \o rest, !.seen = @ \cup {x}]
    BY <1>4 DEF SearchAncestor, Reject
  <2>2. /\ Kept(store, Discard(t, h), NULL)
        /\ Kept(store, Discard(MarkDirty(t, h), h), NULL)
        /\ t.obj[h].data \in Image
        /\ x \in DOMAIN Hierarchy /\ Hierarchy[x] = Kin(t.obj[h].data)
    BY <1>1, <1>2, <2>1, Fetch, FetchDrop
  <2>3. Kept(store, store', NULL)
    BY <2>1, <2>2
  <2>4. Hierarchy[x].parents = parents
    BY <2>2, ImageLists
  <2>5. TheLoop.me = me
    BY <1>2, WhoWorld
  <2>6. /\ TheLoop.pc = "search" /\ TheLoop.stack = call.stack /\ TheLoop.seen = call.seen
    BY <1>1 DEF TheLoop, Loop
  <2> HIDE DEF h, t, parents, me
  <2>7. CASE call' = Idle
    BY <1>1, <2>1, <2>3, <2>7, RejectHolds
  <2>8. CASE x \in call.seen /\ call' = [call EXCEPT !.stack = rest]
    <3>1. Loop(store, call') = [TheLoop EXCEPT !.stack = Tail(TheLoop.stack)]
      <4>1. Loop(store, call') = [TheLoop EXCEPT !.stack = rest]
        <5>a. /\ call'.who = call.who /\ call'.victim = call.victim /\ call'.wanted = call.wanted
              /\ call'.pc = call.pc /\ call'.todo = call.todo /\ call'.kids = call.kids
              /\ call'.stack = rest /\ call'.seen = call.seen
          BY <1>2, <2>8 DEF Call
        <5>b. Loop(store, call') = StackTo(TheLoop, rest)
          BY <5>a, LoopFollows DEF TheLoop
        <5> QED
          BY <5>b DEF PcTo, TodoTo, KidsTo, StackTo, SeenTo
      <4> QED
        BY <2>6, <4>1
    <3>2. Head(TheLoop.stack) \in TheLoop.seen /\ TheLoop.stack # <<>>
      BY <1>1, <2>6, <2>8
    <3>3. FirstRun => Ordered(Hierarchy, Loop(store, call'))
      BY <2>6, <3>1, <3>2, HBasics, RevisitOrdered
    <3>4. call'.who = call.who /\ call'.victim = call.victim
      BY <1>2, <2>8 DEF Call
    <3> QED
      BY <1>2, <2>1, <2>3, <3>3, <3>4, KeptHolds
  <2>9. CASE /\ me \notin Range(parents)
             /\ call' = [call EXCEPT !.stack = parents \o rest, !.seen = @ \cup {x}]
    <3>1. Loop(store, call') =
            [TheLoop EXCEPT !.stack = Hierarchy[Head(TheLoop.stack)].parents \o Tail(TheLoop.stack),
                            !.seen = TheLoop.seen \cup {Head(TheLoop.stack)}]
      <4>1. Loop(store, call') =
              [TheLoop EXCEPT !.stack = parents \o rest, !.seen = call.seen \cup {x}]
        <5>a. /\ call'.who = call.who /\ call'.victim = call.victim /\ call'.wanted = call.wanted
              /\ call'.pc = call.pc /\ call'.todo = call.todo /\ call'.kids = call.kids
              /\ call'.stack = parents \o rest /\ call'.seen = call.seen \cup {x}
          BY <1>2, <2>9 DEF Call
        <5>b. Loop(store, call') = SeenTo(StackTo(TheLoop, call'.stack), call'.seen)
          <6>1. /\ call'.who = call.who /\ call'.victim = call.victim /\ call'.wanted = call.wanted
                /\ call'.pc = call.pc /\ call'.todo = call.todo /\ call'.kids = call.kids
            BY <5>a
          <6> QED
            BY ONLY <6>1, LoopFollows DEF TheLoop
        <5> QED
          BY <5>a, <5>b DEF StackTo, SeenTo
      <4>2. /\ parents \o rest = Hierarchy[Head(TheLoop.stack)].parents \o Tail(TheLoop.stack)
            /\ call.seen \cup {x} = TheLoop.seen \cup {Head(TheLoop.stack)}
        BY <2>4, <2>6
      <4> QED
        BY <4>1, <4>2
    <3>2. TheLoop.me \notin Range(Hierarchy[Head(TheLoop.stack)].parents) /\ TheLoop.stack # <<>>
      BY <1>1, <2>4, <2>5, <2>6, <2>9
    <3>3. FirstRun => Ordered(Hierarchy, Loop(store, call'))
      BY <2>6, <3>1, <3>2, HBasics, VisitOrdered
    <3>4. call'.who = call.who /\ call'.victim = call.victim
      BY <1>2, <2>9 DEF Call
    <3> QED
      BY <1>2, <2>1, <2>3, <3>3, <3>4, KeptHolds
  <2> QED
    BY <2>1, <2>7, <2>8, <2>9
<1> QED
  BY <1>3, <1>4

\* The search ends without meeting the object.
LEMMA AncestorAbsentHolds ==
  ASSUME HInv, AncestorAbsent
  PROVE  HStep
<1>1. /\ call.pc = "search" /\ call.stack = <<>> /\ UNCHANGED <<store, restarts, crashed>>
      /\ call' = [call EXCEPT !.pc = "check", !.todo = Tail(@)]
  BY DEF AncestorAbsent, Running
<1>2. call.victim = NULL /\ Fit(store, NULL) /\ call \in Call
  BY <1>1, HBasics DEF CallShape
<1>3. Kept(store, store', NULL)
  BY <1>1, <1>2, KeptStays
<1>4. Loop(store, call') = [TheLoop EXCEPT !.pc = "check", !.todo = Tail(TheLoop.todo)]
  <2>1. Loop(store, call') = [TheLoop EXCEPT !.pc = "check", !.todo = Tail(call.todo)]
    <3>a. /\ call'.who = call.who /\ call'.victim = call.victim /\ call'.wanted = call.wanted
          /\ call'.pc = "check" /\ call'.todo = Tail(call.todo) /\ call'.kids = call.kids
          /\ call'.stack = call.stack /\ call'.seen = call.seen
      BY <1>1, <1>2 DEF Call
    <3>b. Loop(store, call') = TodoTo(PcTo(TheLoop, "check"), Tail(call.todo))
      BY <3>a, LoopFollows DEF TheLoop
    <3> QED
      BY <3>b DEF PcTo, TodoTo, KidsTo, StackTo, SeenTo
  <2>2. call.todo = TheLoop.todo
    BY HBasics
  <2> QED
    BY <2>1, <2>2
<1>5. TheLoop.stack = <<>>
  BY <1>1 DEF TheLoop, Loop
<1>6. FirstRun => Ordered(Hierarchy, Loop(store, call'))
  BY <1>1, <1>4, <1>5, HBasics, AbsentOrdered
<1>7. call'.who = call.who /\ call'.victim = call.victim
  BY <1>1, <1>2 DEF Call
<1> QED
  BY <1>1, <1>2, <1>3, <1>6, <1>7, KeptHolds

\* The object that is being destroyed.
LEMMA VictimWorld ==
  ASSUME HInv, call.victim # NULL
  PROVE  /\ call.victim \in Holder /\ Gone(store, call.victim)
         /\ TheLoop.dying = store.obj[call.victim].dbref
         /\ TheLoop.dying \in Dbref /\ TheLoop.dying # EMPTY
         /\ TheLoop.dying \in DOMAIN Hierarchy
         /\ Hierarchy[TheLoop.dying] = Kin(store.obj[call.victim].data)
         /\ store.obj[call.victim].data \in Image
<1>1. call.victim \in Holder /\ Gone(store, call.victim) /\ Fit(store, call.victim)
  BY HBasics DEF Fit, Dying
<1>2. TheLoop.dying = store.obj[call.victim].dbref /\ TheLoop.dying \in Dbref
  BY <1>1, HBasics DEF DbrefOf, Gone
<1>3. Shows(store, call.victim, Hierarchy)
  BY <1>1, WorldIs DEF Fit, Hierarchy
<1>4. TheLoop.dying = DbrefOf(store, call.victim)
  BY HBasics
<1>5. TheLoop.dying \in DOMAIN Hierarchy
  BY <1>1, <1>3, <1>4, ShownDomain, ZenonT(30) DEF Fit
<1>6. Hierarchy[TheLoop.dying] = Kin(store.obj[call.victim].data)
  BY <1>3, <1>4 DEF Shows
<1>7. store.obj[call.victim].data \in Image
  BY <1>1, StoreTypes DEF Fit, Record
<1> QED
  BY <1>1, <1>2, <1>5, <1>6, <1>7, EmptyDbref

\* object_destroy(): the parents have forgotten the object, its children are next.
LEMMA LeftParentsHolds ==
  ASSUME HInv, LeftParents
  PROVE  HStep
<1> DEFINE list == store.obj[call.victim].data.children
<1>1. /\ call.pc = "leave" /\ call.todo = <<>> /\ call.victim # NULL
      /\ UNCHANGED <<store, restarts, crashed>>
      /\ call' = [call EXCEPT !.pc = "kids", !.kids = list]
  BY DEF LeftParents, Running
<1>2. Fit(store, call.victim) /\ call \in Call
  BY HBasics
<1>3. Kept(store, store', call.victim)
  BY <1>1, <1>2, KeptStays
<1>4. list = Hierarchy[TheLoop.dying].children /\ TheLoop.dying # EMPTY
  BY <1>1, VictimWorld, ImageLists
<1> HIDE DEF list
<1>5. Loop(store, call') = [TheLoop EXCEPT !.pc = "kids", !.kids = list]
  <2>a. /\ call'.who = call.who /\ call'.victim = call.victim /\ call'.wanted = call.wanted
        /\ call'.pc = "kids" /\ call'.todo = call.todo /\ call'.kids = list
        /\ call'.stack = call.stack /\ call'.seen = call.seen
    BY <1>1, <1>2 DEF Call
  <2>b. Loop(store, call') = KidsTo(PcTo(TheLoop, "kids"), list)
    BY <2>a, LoopFollows DEF TheLoop
  <2> QED
    BY <2>b DEF PcTo, TodoTo, KidsTo, StackTo, SeenTo
<1>6. FirstRun => Ordered(Hierarchy, Loop(store, call'))
  BY <1>1, <1>4, <1>5, HBasics, LeftOrdered
<1>7. call'.who = call.who /\ call'.victim = call.victim
  BY <1>1, <1>2 DEF Call
<1> QED
  BY <1>1, <1>3, <1>6, <1>7, KeptHolds

\* The parents list is replaced: what becomes of the world, and that the step does it.
LEMMA SetMoves ==
  ASSUME NEW w, NEW l, Ordered(w, l), l.pc = "leave", l.todo = <<>>, l.dying = EMPTY
  PROVE  LET t == WithParents(w, l.me, l.wanted)
             m == TodoTo(PcTo(l, "adopt"), l.wanted)
         IN  Ordered(t, m) /\ (Rooted(w) => Rooted(t))
<1> DEFINE t == WithParents(w, l.me, l.wanted)
           m == TodoTo(PcTo(l, "adopt"), l.wanted)
<1>1. m = [l EXCEPT !.pc = "adopt", !.todo = l.wanted]
  BY DEF TodoTo, PcTo
<1>2. t = WithParents(w, l.me, l.wanted)
  OBVIOUS
<1> HIDE DEF t, m
<1>3. Onward(w, t, m)
  BY <1>1, <1>2, SetOrdered
<1> QED
  BY <1>3 DEF Onward, t, m

\* The new parents list of a chparents keeps the invariant.
LEMMA SetParentsHolds ==
  ASSUME HInv, SetParents
  PROVE  HStep
<1> DEFINE h == call.who
           image == store.obj[h].data
           c == [image EXCEPT !.parents = call.wanted]
           t == SetData(store, h, c)
           w == WithParents(Hierarchy, TheLoop.me, TheLoop.wanted)
           m == [TheLoop EXCEPT !.pc = "adopt", !.todo = TheLoop.wanted]
<1>1. /\ call.pc = "leave" /\ call.todo = <<>> /\ call.victim = NULL /\ store' = t
      /\ call' = [call EXCEPT !.pc = "adopt", !.todo = call.wanted]
      /\ UNCHANGED <<restarts, crashed>>
  BY DEF SetParents, Running
<1>2. Fit(store, NULL) /\ call \in Call /\ call.wanted \in Seq(Dbref) /\ h # NULL
  BY <1>1, HBasics, CallLists DEF CallShape
<1>3. /\ h \in Active(store) /\ h \in Holder /\ image \in Image
      /\ TheLoop.me = store.obj[h].dbref /\ TheLoop.me \in DOMAIN Hierarchy
      /\ Hierarchy[TheLoop.me] = Kin(image)
  BY <1>2, WhoWorld
<1>4. TheLoop.dying = EMPTY /\ TheLoop.wanted = call.wanted
  BY <1>1, HBasics DEF DbrefOf, TheLoop, Loop
<1>5. Loop(store, call') = m
  <2>1. Loop(store, call') = [TheLoop EXCEPT !.pc = "adopt", !.todo = call.wanted]
    <3>a. /\ call'.who = call.who /\ call'.victim = call.victim /\ call'.wanted = call.wanted
          /\ call'.pc = "adopt" /\ call'.todo = call.wanted /\ call'.kids = call.kids
          /\ call'.stack = call.stack /\ call'.seen = call.seen
      BY <1>1, <1>2 DEF Call
    <3>b. Loop(store, call') = TodoTo(PcTo(TheLoop, "adopt"), call.wanted)
      BY <3>a, LoopFollows DEF TheLoop
    <3> QED
      BY <3>b DEF PcTo, TodoTo, KidsTo, StackTo, SeenTo
  <2> QED
    BY <1>4, <2>1
<1>6. call'.victim = NULL /\ call'.who = h
  BY <1>1, <1>2 DEF Call
<1>7. c = [image EXCEPT !.parents = call.wanted] /\ m = [TheLoop EXCEPT !.pc = "adopt", !.todo = TheLoop.wanted]
      /\ w = WithParents(Hierarchy, TheLoop.me, TheLoop.wanted)
  OBVIOUS
<1> HIDE DEF c, image, m
<1>8. c \in Image /\ Put(Hierarchy, TheLoop.me, Kin(c)) = w
  BY <1>2, <1>3, <1>4, <1>7, WriteLists
<1> HIDE DEF w
<1>9. /\ Fit(t, NULL) /\ Sound(store, t)
      /\ World(t, NULL) = Put(World(store, NULL), store.obj[h].dbref, Kin(c))
  BY <1>2, <1>3, <1>8, WriteWorld
<1>10. World(t, NULL) = w
  BY <1>1, <1>3, <1>8, <1>9 DEF Hierarchy
<1>11. DbrefOf(t, h) = DbrefOf(store, h) /\ DbrefOf(t, NULL) = DbrefOf(store, NULL)
  BY <1>9, SubjectKept DEF DbrefOf
<1>12. Loop(t, call') = m
  BY <1>5, <1>6, <1>11 DEF Loop
<1> HIDE DEF t, h
<1>13. ASSUME FirstRun
       PROVE  Ordered(w, m) /\ (Rooted(Hierarchy) => Rooted(w))
  <2>1. Ordered(Hierarchy, TheLoop) /\ TheLoop.pc = "leave" /\ TheLoop.todo = <<>>
    BY <1>1, <1>13, HBasics
  <2>2. TheLoop.dying = EMPTY
    BY <1>4
  <2>3. m = TodoTo(PcTo(TheLoop, "adopt"), TheLoop.wanted)
    BY <1>7 DEF TodoTo, PcTo
  <2>4. w = WithParents(Hierarchy, TheLoop.me, TheLoop.wanted)
    BY <1>7
  <2> QED
    BY ONLY <2>1, <2>2, <2>3, <2>4, SetMoves
<1>14. Hierarchy' = w /\ TheLoop' = m /\ Neat(store', call'.victim)
  BY <1>1, <1>6, <1>9, <1>10, <1>12 DEF Hierarchy, TheLoop, Fit
<1> QED
  BY <1>1, <1>13, <1>14, HBasics, LoopHolds

-----------------------------------------------------------------------------
(***************************************************************************)
(* Objects are taken off children lists and put on them.                   *)
(***************************************************************************)
\* An object is retrieved and gets other lists, and is then kept or discarded.
LEMMA Rewritten ==
  ASSUME Roomy, HInv, NEW d \in Dbref, CanRetrieve(store, d), Exists(store, d), NEW c \in Image
  PROVE  LET v == call.victim
             h == Retrieved(store, d)
             s == SetData(Retrieve(store, d), h, c)
             t == Discard(MarkDirty(s, h), h)
             after == Put(Hierarchy, d, Kin(c))
         IN  /\ Fit(s, v) /\ World(s, v) = after
             /\ DbrefOf(s, v) = DbrefOf(store, v) /\ DbrefOf(s, call.who) = DbrefOf(store, call.who)
             /\ h \in Holder /\ DbrefOf(s, h) = d
             /\ Fit(t, v) /\ World(t, v) = after
             /\ DbrefOf(t, v) = DbrefOf(store, v) /\ DbrefOf(t, call.who) = DbrefOf(store, call.who)
<1> DEFINE v == call.victim
           h == Retrieved(store, d)
           r == Retrieve(store, d)
           s == SetData(r, h, c)
           m == MarkDirty(s, h)
           t == Discard(m, h)
           after == Put(Hierarchy, d, Kin(c))
<1>1. /\ Kept(store, r, v) /\ Fit(r, v) /\ h \in Active(r) /\ h \in Holder /\ h # v
      /\ FoundBy(store, r, h, d) /\ r.obj[h].dbref = d /\ ~Dies(r, h)
  BY Fetch
<1>2. Fit(store, v) /\ store \in Store /\ ChainsOK(store)
  BY HBasics
<1>3. World(r, v) = Hierarchy /\ DbrefOf(r, v) = DbrefOf(store, v)
  BY <1>1, <1>2, KeptWorld DEF Hierarchy
<1>4. Effect(store, r, h, 1)
  BY <1>1 DEF FoundBy
<1>5. Effect(store, s, h, 1)
  BY <1>1, <1>2, <1>4, EffectWrite
<1>6. /\ Fit(s, v) /\ Active(s) = Active(r) /\ World(s, v) = Put(World(r, v), r.obj[h].dbref, Kin(c))
      /\ DbrefOf(s, v) = DbrefOf(r, v) /\ s.obj[h].dbref = r.obj[h].dbref
      /\ ~Dies(s, h)
  BY <1>1, WriteWorld
<1>7. Effect(store, m, h, 1)
  BY <1>1, <1>2, <1>5, EffectWrite
<1>8. Effect(store, t, h, 0)
  BY <1>1, <1>2, <1>7, VisitEffect
<1> HIDE DEF s, v, h, r
<1>9. /\ Kept(s, m, v) /\ Active(m) = Active(s) /\ ~Dies(m, h)
  BY <1>1, <1>6, KeptMark
<1>10. Fit(m, v) /\ World(m, v) = World(s, v) /\ DbrefOf(m, v) = DbrefOf(s, v)
  BY <1>6, <1>9, KeptWorld
<1> HIDE DEF m
<1>11. Kept(m, t, v)
  BY <1>1, <1>6, <1>9, <1>10, KeptDiscard
<1>12. Fit(t, v) /\ World(t, v) = World(m, v) /\ DbrefOf(t, v) = DbrefOf(m, v)
  BY <1>10, <1>11, KeptWorld
<1>13. DbrefOf(s, h) = d
  BY <1>1, <1>6, ClientAssumption DEF DbrefOf
<1> HIDE DEF t
<1>14. DbrefOf(s, call.who) = DbrefOf(store, call.who)
  BY <1>5, SubjectKept DEF Effect
<1>15. DbrefOf(t, call.who) = DbrefOf(store, call.who)
  BY <1>8, SubjectKept DEF Effect
<1>16. World(s, v) = after
  BY <1>1, <1>3, <1>6
<1> QED
  BY <1>1, <1>3, <1>6, <1>10, <1>12, <1>13, <1>14, <1>15, <1>16 DEF s, v, h, r, m, t

\* The object that is taken off children lists, or put on them.
LEMMA SubjectWorld ==
  ASSUME HInv, call.pc \in {"leave", "adopt", "kids"}
  PROVE  /\ store.obj[Subject].dbref = SubjectOf(TheLoop)
         /\ store.obj[Subject].dbref \in Dbref
         /\ call.pc = "adopt" => SubjectOf(TheLoop) = TheLoop.me
<1>1. call.who # NULL => TheLoop.me = store.obj[call.who].dbref /\ TheLoop.me # EMPTY
  BY WhoWorld, EmptyDbref
<1>2. call.who = NULL => TheLoop.me = EMPTY
  BY HBasics DEF DbrefOf
<1>3. call.victim # NULL => TheLoop.dying = store.obj[call.victim].dbref
  BY VictimWorld
<1>4. store.obj[Subject].dbref \in Dbref
  BY HBasics, SubjectDbref
<1>5. call.who = NULL => call.victim # NULL
  BY HBasics, ClientAssumption DEF CallShape
<1>6. call.pc = "adopt" => call.who # NULL
  BY HBasics, ClientAssumption DEF CallShape
<1> QED
  BY <1>1, <1>2, <1>3, <1>4, <1>5, <1>6 DEF SubjectOf, Subject

\* The change of one parent's children keeps the invariant.
LEMMA TellParentHolds ==
  ASSUME Roomy, HInv, TellParent
  PROVE  HStep
<1> DEFINE p  == Head(call.todo)
           me == store.obj[Subject].dbref
           h  == Retrieved(store, p)
           s1 == Retrieve(store, p)
           data == s1.obj[h].data
           list == ChildrenAfter(data.children, me)
           c == [data EXCEPT !.children = list]
           w == WithChildren(Hierarchy, p, list)
           m == TodoTo(TheLoop, Tail(TheLoop.todo))
<1>1. /\ call.pc \in {"leave", "adopt"} /\ call.todo # <<>> /\ CanRetrieve(store, p)
  BY DEF TellParent, Running
<1>2. CASE Die
  BY <1>2, DieHolds
<1>3. CASE ~Die
  <2>1. /\ Exists(store, p)
        /\ call.pc = "adopt" \/ me \in Range(data.children)
        /\ store' = Discard(MarkDirty(SetData(s1, h, c), h), h)
        /\ call' = [call EXCEPT !.todo = Tail(@)]
        /\ UNCHANGED <<restarts, crashed>>
    BY <1>3 DEF TellParent
  <2>2. p \in Dbref /\ Tail(call.todo) \in Seq(Dbref) /\ call \in Call
    BY <1>1, HBasics, CallLists, HeadTail
  <2>3. me = SubjectOf(TheLoop) /\ me \in Dbref /\ (call.pc = "adopt" => me = TheLoop.me)
    BY <1>1, SubjectWorld
  <2>4. data \in Image /\ p \in DOMAIN Hierarchy /\ Hierarchy[p] = Kin(data)
    BY <1>1, <2>1, <2>2, Fetch
  <2>5. data.children = Hierarchy[p].children /\ data.children \in Seq(Dbref)
    BY <2>4, ImageLists
  <2>6. /\ list \in Seq(Dbref)
        /\ call.pc = "leave" => list = ListDelete(Hierarchy[p].children, SubjectOf(TheLoop))
        /\ call.pc = "adopt" => list = Append(Hierarchy[p].children, TheLoop.me)
    <3> HIDE DEF data, me
    <3>1. Append(data.children, me) \in Seq(Dbref)
      BY <2>3, <2>5
    <3>2. me \in Range(data.children) => ListDelete(data.children, me) \in Seq(Dbref)
      BY <2>5, ListDeleteType
    <3> QED
      BY <1>1, <2>1, <2>3, <2>5, <3>1, <3>2 DEF ChildrenAfter
  <2>7. c = [data EXCEPT !.children = list]
    OBVIOUS
  <2> HIDE DEF list, c, data
  <2>8. c \in Image /\ Put(Hierarchy, p, Kin(c)) = w
    BY <2>4, <2>6, <2>7, WriteLists
  <2>9. /\ Fit(store', call.victim) /\ World(store', call.victim) = w
        /\ DbrefOf(store', call.victim) = DbrefOf(store, call.victim)
        /\ DbrefOf(store', call.who) = DbrefOf(store, call.who)
    BY <1>1, <2>1, <2>2, <2>8, Rewritten
  <2>10. /\ call'.who = call.who /\ call'.victim = call.victim /\ call'.wanted = call.wanted
         /\ call'.pc = call.pc /\ call'.todo = Tail(call.todo) /\ call'.kids = call.kids
         /\ call'.stack = call.stack /\ call'.seen = call.seen
    BY <2>1, <2>2 DEF Call
  <2>11. Loop(store', call') = TodoTo(TheLoop, call'.todo)
    BY ONLY <2>9, <2>10, LoopFollows DEF TheLoop
  <2>12. TheLoop.todo = call.todo /\ TheLoop.pc = call.pc
    BY HBasics
  <2>13. TheLoop' = m
    BY <2>10, <2>11, <2>12 DEF TheLoop
  <2>14. m = [TheLoop EXCEPT !.todo = Tail(TheLoop.todo)]
    BY DEF TodoTo
  <2>15. w = WithChildren(Hierarchy, Head(TheLoop.todo), list)
    BY <2>12
  <2> HIDE DEF m, w, p
  <2>16. ASSUME FirstRun
         PROVE  Ordered(w, m) /\ (Rooted(Hierarchy) => Rooted(w))
    <3>1. Ordered(Hierarchy, TheLoop) /\ TheLoop.todo # <<>>
      BY <1>1, <2>12, <2>16, HBasics
    <3>2. CASE call.pc = "leave"
      <4>1. list = ListDelete(Hierarchy[Head(TheLoop.todo)].children, SubjectOf(TheLoop))
        BY <2>6, <2>12, <3>2 DEF p
      <4> QED
        BY <2>12, <2>14, <2>15, <3>1, <3>2, <4>1, LeaveOrdered
    <3>3. CASE call.pc = "adopt"
      <4>1. list = Append(Hierarchy[Head(TheLoop.todo)].children, TheLoop.me)
        BY <2>6, <2>12, <3>3 DEF p
      <4>2. TheLoop.pc = "adopt"
        BY <2>12, <3>3
      <4>3. w = WithChildren(Hierarchy, Head(TheLoop.todo),
                             Append(Hierarchy[Head(TheLoop.todo)].children, TheLoop.me))
        BY <2>15, <4>1
      <4> QED
        BY ONLY <2>14, <3>1, <4>2, <4>3, AdoptOrdered
    <3> QED
      BY <1>1, <3>2, <3>3
  <2>17. Hierarchy' = w /\ Neat(store', call'.victim)
    BY <2>9, <2>10 DEF Hierarchy, Fit
  <2> QED
    BY <2>1, <2>13, <2>16, <2>17, HBasics, LoopHolds
<1> QED
  BY <1>2, <1>3

-----------------------------------------------------------------------------
(***************************************************************************)
(* The children of the object being destroyed.                             *)
(***************************************************************************)
\* The root is never the object being destroyed.
LEMMA RootStays ==
  ASSUME HInv, call.victim # NULL
  PROVE  TheLoop.dying # ROOT_DBREF
<1>1. store.disk[ROOT_DBREF] # NoImage /\ ROOT_DBREF \in Dbref
  BY HBasics, ClientAssumption, CacheAssumption DEF IInv, RootsSafe, ROOT_DBREF, Dbref
<1>2. TheLoop.dying \notin Existing(store)
  BY VictimWorld DEF Gone
<1> QED
  BY <1>1, <1>2 DEF Existing

\* object_destroy() takes itself from the list of a child, which inherits the parents
\* if none is left.
LEMMA TellKidHolds ==
  ASSUME Roomy, HInv, TellKid
  PROVE  HStep
<1> DEFINE d == Head(call.kids)
           me == store.obj[call.victim].dbref
           h == Retrieved(store, d)
           s1 == Retrieve(store, d)
           data == s1.obj[h].data
           left == ListDelete(data.parents, me)
           inherited == store.obj[call.victim].data.parents
           c1 == [data EXCEPT !.parents = left]
           c2 == [data EXCEPT !.parents = inherited]
           w1 == WithParents(Hierarchy, d, left)
           w2 == WithParents(Hierarchy, d, inherited)
           m1 == KidsTo(TheLoop, Tail(TheLoop.kids))
           m2 == KidsTo(TodoTo(MeTo(PcTo(TheLoop, "adopt"), d), inherited), Tail(TheLoop.kids))
<1>1. call.pc = "kids" /\ call.kids # <<>> /\ CanRetrieve(store, d)
  BY DEF TellKid, Running
<1>2. CASE Die
  BY <1>2, DieHolds
<1>3. CASE ~Die
  <2>1. /\ Exists(store, d)
        /\ me \in Range(data.parents)
        /\ \/ /\ left # <<>>
              /\ store' = Discard(MarkDirty(SetData(s1, h, c1), h), h)
              /\ call' = [call EXCEPT !.kids = Tail(@)]
           \/ /\ left = <<>>
              /\ store' = SetData(s1, h, c2)
              /\ call' = [call EXCEPT !.pc = "adopt", !.who = h, !.todo = inherited,
                                      !.kids = Tail(@)]
        /\ UNCHANGED <<restarts, crashed>>
    BY <1>3 DEF TellKid
  <2>2. d \in Dbref /\ Tail(call.kids) \in Seq(Dbref) /\ call \in Call
    BY <1>1, HBasics, CallLists, HeadTail
  <2>3. call.victim # NULL
    BY <1>1, HBasics, ClientAssumption DEF CallShape
  <2>4. /\ me = TheLoop.dying /\ TheLoop.dying # ROOT_DBREF
        /\ inherited = Hierarchy[TheLoop.dying].parents /\ inherited \in Seq(Dbref)
    BY <2>3, VictimWorld, RootStays, ImageLists
  <2>5. data \in Image /\ d \in DOMAIN Hierarchy /\ Hierarchy[d] = Kin(data)
    BY <1>1, <2>1, <2>2, Fetch
  <2>6. data.parents = Hierarchy[d].parents /\ data.parents \in Seq(Dbref)
    BY <2>5, ImageLists
  <2>7. left \in Seq(Dbref)
    BY <2>1, <2>6, ListDeleteType
  <2>8. c1 = [data EXCEPT !.parents = left] /\ c2 = [data EXCEPT !.parents = inherited]
    OBVIOUS
  <2>9. TheLoop.kids = call.kids /\ TheLoop.pc = "kids"
    BY <1>1, HBasics
  <2>10. left = ListDelete(Hierarchy[Head(TheLoop.kids)].parents, TheLoop.dying)
    BY <2>4, <2>6, <2>9
  <2>11. /\ m1 = [TheLoop EXCEPT !.kids = Tail(TheLoop.kids)]
         /\ m2 = [TheLoop EXCEPT !.pc = "adopt", !.me = Head(TheLoop.kids), !.todo = inherited,
                                 !.kids = Tail(TheLoop.kids)]
    BY <2>9 DEF KidsTo, TodoTo, MeTo, PcTo
  <2>12. /\ w1 = WithParents(Hierarchy, Head(TheLoop.kids), left)
         /\ w2 = WithParents(Hierarchy, Head(TheLoop.kids), inherited)
    BY <2>9
  <2> HIDE DEF left, c1, c2, data, inherited, me
  <2>13. /\ c1 \in Image /\ Put(Hierarchy, d, Kin(c1)) = w1
         /\ c2 \in Image /\ Put(Hierarchy, d, Kin(c2)) = w2
    BY <2>4, <2>5, <2>7, <2>8, WriteLists
  <2>14. CASE /\ left # <<>>
              /\ store' = Discard(MarkDirty(SetData(s1, h, c1), h), h)
              /\ call' = [call EXCEPT !.kids = Tail(@)]
    <3>1. /\ Fit(store', call.victim) /\ World(store', call.victim) = w1
          /\ DbrefOf(store', call.victim) = DbrefOf(store, call.victim)
          /\ DbrefOf(store', call.who) = DbrefOf(store, call.who)
      BY <1>1, <2>1, <2>2, <2>13, <2>14, Rewritten
    <3>2. /\ call'.who = call.who /\ call'.victim = call.victim /\ call'.wanted = call.wanted
          /\ call'.pc = call.pc /\ call'.todo = call.todo /\ call'.kids = Tail(call.kids)
          /\ call'.stack = call.stack /\ call'.seen = call.seen
      BY <2>2, <2>14 DEF Call
    <3>3. Loop(store', call') = KidsTo(TheLoop, call'.kids)
      BY ONLY <3>1, <3>2, LoopFollows DEF TheLoop
    <3>4. TheLoop' = m1
      BY <2>9, <3>2, <3>3 DEF TheLoop
    <3>5. ASSUME FirstRun
          PROVE  Onward(Hierarchy, w1, m1)
      <4>1. Ordered(Hierarchy, TheLoop) /\ TheLoop.kids # <<>>
        BY <1>1, <2>9, <3>5, HBasics
      <4>2. w1 = WithParents(Hierarchy, Head(TheLoop.kids), left)
        BY <2>12
      <4>3. m1 = [TheLoop EXCEPT !.kids = Tail(TheLoop.kids)]
        BY <2>11
      <4> HIDE DEF w1, m1
      <4> QED
        BY <2>9, <2>10, <2>14, <4>1, <4>2, <4>3, KidOrdered
    <3>6. Hierarchy' = w1 /\ Neat(store', call'.victim)
      BY <3>1, <3>2 DEF Hierarchy, Fit
    <3> HIDE DEF w1, m1
    <3> QED
      BY <2>1, <3>4, <3>5, <3>6, HBasics, LoopHolds DEF Onward
  <2>15. CASE /\ left = <<>>
              /\ store' = SetData(s1, h, c2)
              /\ call' = [call EXCEPT !.pc = "adopt", !.who = h, !.todo = inherited,
                                      !.kids = Tail(@)]
    <3>1. /\ Fit(store', call.victim) /\ World(store', call.victim) = w2
          /\ DbrefOf(store', call.victim) = DbrefOf(store, call.victim)
          /\ DbrefOf(store', h) = d /\ h \in Holder
      BY <1>1, <2>1, <2>2, <2>13, <2>15, Rewritten
    <3>2. /\ call'.who = h /\ call'.victim = call.victim /\ call'.wanted = call.wanted
          /\ call'.pc = "adopt" /\ call'.todo = inherited /\ call'.kids = Tail(call.kids)
          /\ call'.stack = call.stack /\ call'.seen = call.seen
      BY <2>2, <2>15 DEF Call
    <3>3. Loop(store', call') =
            KidsTo(TodoTo(MeTo(PcTo(TheLoop, call'.pc), DbrefOf(store', call'.who)), call'.todo),
                   call'.kids)
      BY ONLY <3>1, <3>2, LoopFollows DEF TheLoop
    <3>4. TheLoop' = m2
      BY <2>9, <3>1, <3>2, <3>3 DEF TheLoop
    <3>5. ASSUME FirstRun
          PROVE  Onward(Hierarchy, w2, m2)
      <4>1. Ordered(Hierarchy, TheLoop) /\ TheLoop.kids # <<>>
        BY <1>1, <2>9, <3>5, HBasics
      <4>2. w2 = WithParents(Hierarchy, Head(TheLoop.kids), inherited)
        BY <2>12
      <4>3. m2 = [TheLoop EXCEPT !.pc = "adopt", !.me = Head(TheLoop.kids), !.todo = inherited,
                                 !.kids = Tail(TheLoop.kids)]
        BY <2>11
      <4>4. ListDelete(Hierarchy[Head(TheLoop.kids)].parents, TheLoop.dying) = <<>>
        BY <2>10, <2>15
      <4> HIDE DEF w2, m2
      <4> QED
        BY <2>4, <2>9, <4>1, <4>2, <4>3, <4>4, InheritOrdered
    <3>6. Hierarchy' = w2 /\ Neat(store', call'.victim)
      BY <3>1, <3>2 DEF Hierarchy, Fit
    <3> HIDE DEF w2, m2
    <3> QED
      BY <2>1, <3>4, <3>5, <3>6, HBasics, LoopHolds DEF Onward
  <2> QED
    BY <2>1, <2>14, <2>15
<1> QED
  BY <1>2, <1>3

-----------------------------------------------------------------------------
(***************************************************************************)
(* The ends of the loops, and every step together.                         *)
(***************************************************************************)
LEMMA AdoptedHolds ==
  ASSUME HInv, Adopted
  PROVE  HStep
<1> DEFINE h == call.who
           v == call.victim
<1>1. /\ call.pc = "adopt" /\ call.todo = <<>> /\ UNCHANGED <<restarts, crashed>>
      /\ \/ v = NULL /\ call' = Idle /\ store' = store
         \/ /\ v # NULL
            /\ store' = Discard(MarkDirty(store, h), h)
            /\ call' = [call EXCEPT !.pc = "kids", !.who = NULL]
  BY DEF Adopted, Running
<1>2. Fit(store, v) /\ call \in Call
  BY HBasics
<1>3. h # NULL /\ h \in Active(store) /\ h \in Holder
  BY <1>1, HBasics, WhoWorld, ClientAssumption DEF CallShape
<1>4. TheLoop.pc = "adopt" /\ TheLoop.todo = <<>>
  BY <1>1, HBasics
<1>5. CASE v = NULL
  <2>1. call' = Idle /\ store' = store /\ call'.victim = NULL /\ call'.pc = "idle"
    BY <1>1, <1>5, IdleCall
  <2>2. Loop(store, call') \in LoopState
    BY <1>2, <2>1, LoopType, IdleCall DEF Fit
  <2>3. Loop(store, call').pc = "idle" /\ Loop(store, call').dying = EMPTY
    BY <2>1 DEF Loop, DbrefOf
  <2>4. TheLoop.dying = EMPTY
    BY <1>5, HBasics DEF DbrefOf
  <2>5. FirstRun => Ordered(Hierarchy, Loop(store, call'))
    BY <1>4, <2>2, <2>3, <2>4, HBasics, AdoptedOrdered
  <2>6. Hierarchy' = Hierarchy /\ TheLoop' = Loop(store, call') /\ Neat(store', call'.victim)
    BY <1>2, <1>5, <2>1 DEF Hierarchy, TheLoop, Fit
  <2> QED
    BY <1>1, <2>5, <2>6, HBasics, LoopHolds
<1>6. CASE v # NULL
  <2> DEFINE m == MeTo(PcTo(TheLoop, "kids"), EMPTY)
             s == MarkDirty(store, h)
  <2>1. /\ store' = Discard(s, h)
        /\ call' = [call EXCEPT !.pc = "kids", !.who = NULL]
    BY <1>1, <1>6
  <2>2. Kept(store, s, v) /\ Active(s) = Active(store) /\ (Dies(s, h) <=> Dies(store, h))
    BY <1>2, <1>3, KeptMark
  <2>3. ~Dies(store, h)
    <3>1. Sound(store, store) /\ References(store, h) >= References(store, h)
      BY <1>2, <1>3, KeptStays, StoreTypes DEF Kept, Fit
    <3> QED
      BY <1>3, <3>1, HeldTwice
  <2> HIDE DEF s
  <2>4. Fit(s, v) /\ World(s, v) = Hierarchy /\ DbrefOf(s, v) = DbrefOf(store, v)
    BY <1>2, <2>2, KeptWorld DEF Hierarchy
  <2>5. Kept(s, store', v)
    BY <1>3, <2>1, <2>2, <2>3, <2>4, KeptDiscard
  <2>6. Fit(store', v) /\ World(store', v) = Hierarchy /\ DbrefOf(store', v) = DbrefOf(store, v)
    BY <2>4, <2>5, KeptWorld
  <2>7. /\ call'.who = NULL /\ call'.victim = call.victim /\ call'.wanted = call.wanted
        /\ call'.pc = "kids" /\ call'.todo = call.todo /\ call'.kids = call.kids
        /\ call'.stack = call.stack /\ call'.seen = call.seen
    BY <1>2, <2>1 DEF Call
  <2>8. Loop(store', call') = MeTo(PcTo(TheLoop, call'.pc), DbrefOf(store', call'.who))
    BY ONLY <2>6, <2>7, LoopFollows DEF TheLoop
  <2>9. TheLoop' = m
    BY <2>7, <2>8 DEF TheLoop, DbrefOf
  <2>10. m = [TheLoop EXCEPT !.pc = "kids", !.me = EMPTY]
    BY DEF MeTo, PcTo
  <2> HIDE DEF m
  <2>11. TheLoop.dying # EMPTY
    BY <1>6, VictimWorld
  <2>12. FirstRun => Ordered(Hierarchy, m)
    BY <1>4, <2>10, <2>11, HBasics, KidAdoptedOrdered
  <2>13. Hierarchy' = Hierarchy /\ Neat(store', call'.victim)
    BY <2>6, <2>7 DEF Hierarchy, Fit
  <2> QED
    BY <1>1, <2>9, <2>12, <2>13, HBasics, LoopHolds
<1> QED
  BY <1>5, <1>6

\* The end of object_destroy() keeps the invariant.
LEMMA BuriedHolds ==
  ASSUME HInv, Buried
  PROVE  HStep
<1> DEFINE v == call.victim
           w == WithoutObject(Hierarchy, TheLoop.dying)
           m == Loop(store', Idle)
<1>1. /\ call.pc = "kids" /\ call.kids = <<>> /\ store' = Bury(store, v) /\ call' = Idle
      /\ UNCHANGED <<restarts, crashed>>
  BY DEF Buried, Running
<1>2. v # NULL
  BY <1>1, HBasics, ClientAssumption DEF CallShape
<1>3. Fit(store, v) /\ v \in Holder /\ Gone(store, v) /\ TheLoop.dying = DbrefOf(store, v)
  BY <1>2, HBasics, VictimWorld
<1>4. store' \in Store /\ ChainsOK(store')
  BY <1>1, <1>3, BuryEffect DEF Fit
<1>5. World(store', NULL) = WithoutObject(World(store, v), DbrefOf(store, v)) /\ Neat(store', NULL)
  BY <1>1, <1>3, <1>4, WorldBury DEF Fit
<1>6. World(store', NULL) = w
  BY <1>3, <1>5 DEF Hierarchy
<1>7. m \in LoopState
  BY <1>4, IdleCall, LoopType
<1>8. m.pc = "idle" /\ m.me = EMPTY /\ m.dying = EMPTY
  BY IdleCall DEF Loop, DbrefOf
<1>9. call'.victim = NULL
  BY <1>1, IdleCall
<1>10. Hierarchy' = w /\ TheLoop' = m /\ Neat(store', call'.victim)
  BY <1>1, <1>5, <1>6, <1>9 DEF Hierarchy, TheLoop
<1>11. w = WithoutObject(Hierarchy, TheLoop.dying)
  OBVIOUS
<1> HIDE DEF m, w
<1>12. ASSUME FirstRun
       PROVE  Ordered(w, m) /\ (Rooted(Hierarchy) => Rooted(w))
  <2>1. Ordered(Hierarchy, TheLoop) /\ TheLoop.pc = "kids" /\ TheLoop.kids = <<>>
    BY <1>1, <1>12, HBasics
  <2> QED
    BY <1>7, <1>8, <1>11, <2>1, BuriedOrdered
<1> QED
  BY <1>1, <1>10, <1>12, HBasics, LoopHolds

\* Giving back a pending reference keeps the invariant.
LEMMA DropReferenceHolds ==
  ASSUME HInv, DropReference
  PROVE  HStep
<1> DEFINE h == pending[Len(pending)]
           parents == store.obj[h].data.parents
<1>1. /\ call.pc = "idle" /\ pending # <<>>
      /\ store' = Discard(store, h)
      /\ call' = IF Dies(store, h)
                 THEN [Idle EXCEPT !.pc = "leave", !.victim = h, !.todo = parents]
                 ELSE Idle
      /\ UNCHANGED <<restarts, crashed>>
  BY DEF DropReference, Running
<1>2. call = Idle /\ call.victim = NULL /\ Fit(store, NULL)
  BY <1>1, HBasics, IdleCall DEF CallShape
<1>3. Len(pending) \in 1 .. Len(pending)
  BY <1>1, HBasics, Basics, EmptySeq, LenProperties
<1>4. h \in Active(store)
  BY <1>3, HBasics, HeldActive
<1> HIDE DEF h
<1>5. CASE ~Dies(store, h)
  <2>1. Kept(store, store', NULL)
    BY <1>1, <1>2, <1>4, <1>5, KeptDiscard
  <2>2. call' = Idle
    BY <1>1, <1>5
  <2> QED
    BY <1>1, <1>2, <2>1, <2>2, IdleCall, RestHolds DEF Plain
<1>6. CASE Dies(store, h)
  <2> DEFINE m == Loop(store', call')
             d == store.obj[h].dbref
  <2>1. /\ h \in Holder /\ h # NULL /\ Hierarchy[d] = Kin(store.obj[h].data)
        /\ d \in DOMAIN Hierarchy /\ store.obj[h].data \in Image
    BY <1>2, <1>4, HolderWorld DEF Hierarchy
  <2>2. parents = Hierarchy[d].parents /\ parents \in Seq(Dbref)
    BY <2>1, ImageLists
  <2>3. Gone(store', h) /\ store' \in Store /\ ChainsOK(store')
    BY <1>1, <1>2, <1>4, <1>6, DeathEffect DEF Fit, Effect, Sound
  <2>4. Dying(store', h)
    BY <2>1, <2>3 DEF Dying
  <2>5. World(store', h) = World(store, NULL) /\ Neat(store', h) /\ DbrefOf(store', h) = d
    BY <1>1, <1>2, <1>4, <1>6, <2>3, <2>4, WorldDeath DEF Fit
  <2> HIDE DEF d
  <2>6. call' = [Idle EXCEPT !.pc = "leave", !.victim = h, !.todo = parents]
    BY <1>1, <1>6
  <2> HIDE DEF parents
  <2>7. /\ call' \in Call /\ call'.pc = "leave" /\ call'.victim = h /\ call'.todo = parents
        /\ call'.who = NULL
    BY <2>1, <2>2, <2>6, IdleCall DEF Call, PC
  <2>8. m \in LoopState
    BY <2>3, <2>7, LoopType
  <2>9. m.pc = "leave" /\ m.me = EMPTY /\ m.dying = d /\ m.todo = parents
    <3>1. m.me = DbrefOf(store', call'.who) /\ m.dying = DbrefOf(store', call'.victim)
          /\ m.pc = call'.pc /\ m.todo = call'.todo
      BY DEF Loop
    <3> QED
      BY <2>5, <2>7, <3>1 DEF DbrefOf
  <2>10. Hierarchy' = Hierarchy /\ TheLoop' = m /\ Neat(store', call'.victim)
    BY <1>2, <2>5, <2>7 DEF Hierarchy, TheLoop
  <2> HIDE DEF m
  <2>11. TheLoop.pc = "idle"
    BY <1>1, HBasics
  <2>12. FirstRun => Ordered(Hierarchy, m)
    BY <2>1, <2>2, <2>8, <2>9, <2>11, HBasics, DeathOrdered
  <2> QED
    BY <1>1, <2>10, <2>12, HBasics, LoopHolds
<1> QED
  BY <1>5, <1>6

\* A stuttering step keeps the invariant.
LEMMA StutterHolds ==
  ASSUME HInv, UNCHANGED vars
  PROVE  HStep
<1>1. store' = store /\ call' = call /\ restarts' = restarts /\ crashed' = crashed
  BY DEF vars
<1> QED
  BY <1>1 DEF HInv, HStep, Hierarchy, TheLoop, FirstRun

\* The begin of every operation keeps the invariant.
LEMMA OperationHolds ==
  ASSUME Roomy, HInv, Operation
  PROVE  HStep
<1>1. CASE \E d \in Dbref : SendMessage(d)
  BY <1>1, SendMessageHolds
<1>2. CASE PassMessage
  BY <1>2, PassMessageHolds
<1>3. CASE FrameReturn
  BY <1>3, FrameReturnHolds
<1>4. CASE \E parents \in ParentLists : Create(parents)
  BY <1>4, CreateHolds
<1>5. CASE \E d \in Dbref : Destroy(d)
  BY <1>5, DestroyHolds
<1>6. CASE \E d \in Dbref, parents \in ParentLists : ChangeParents(d, parents)
  BY <1>6, ChangeParentsHolds
<1>7. CASE \E m \in Methods : DefineMethod(m)
  BY <1>7, DefineMethodHolds
<1>8. CASE \E v \in Vars : AssignVar(v)
  BY <1>8, AssignVarHolds
<1>9. CASE BinaryDump
  BY <1>9, BinaryDumpHolds
<1>10. CASE Restart
  BY <1>10, RestartHolds
<1> QED
  BY <1>1, <1>2, <1>3, <1>4, <1>5, <1>6, <1>7, <1>8, <1>9, <1>10 DEF Operation

\* Every step of an operation in progress keeps the invariant.
LEMMA ContinueHolds ==
  ASSUME Roomy, HInv, Continue
  PROVE  HStep
<1>1. CASE DropReference
  BY <1>1, DropReferenceHolds
<1>2. CASE \E x \in Dbref, mark, hit \in BOOLEAN : VisitAncestor(x, mark, hit)
  BY <1>2, VisitAncestorHolds
<1>3. CASE MethodFound
  BY <1>3, MethodFoundHolds
<1>4. CASE SearchEnds
  BY <1>4, SearchEndsHolds
<1>5. CASE CheckParent
  BY <1>5, CheckParentHolds
<1>6. CASE ParentsChecked
  BY <1>6, ParentsCheckedHolds
<1>7. CASE SearchAncestor
  BY <1>7, SearchAncestorHolds
<1>8. CASE AncestorAbsent
  BY <1>8, AncestorAbsentHolds
<1>9. CASE TellParent
  BY <1>9, TellParentHolds
<1>10. CASE SetParents
  BY <1>10, SetParentsHolds
<1>11. CASE LeftParents
  BY <1>11, LeftParentsHolds
<1>12. CASE TellKid
  BY <1>12, TellKidHolds
<1>13. CASE Adopted
  BY <1>13, AdoptedHolds
<1>14. CASE Buried
  BY <1>14, BuriedHolds
<1> QED
  BY <1>1, <1>2, <1>3, <1>4, <1>5, <1>6, <1>7, <1>8, <1>9, <1>10, <1>11, <1>12, <1>13, <1>14
     DEF Continue

\* Every step keeps the invariant.
LEMMA NextHInv ==
  ASSUME Roomy, HInv, [Next]_vars
  PROVE  HInv'
<1>1. HStep
  <2>1. CASE Operation
    BY <2>1, OperationHolds
  <2>2. CASE Continue
    BY <2>2, ContinueHolds
  <2>3. CASE Halted \/ UNCHANGED vars
    BY <2>3, StutterHolds DEF Halted
  <2> QED
    BY <2>1, <2>2, <2>3 DEF Next
<1>2. IInv'
  BY NextGood DEF HInv, Good
<1> QED
  BY <1>1, <1>2 DEF HInv, HStep

-----------------------------------------------------------------------------
(***************************************************************************)
(* The initial state.                                                      *)
(***************************************************************************)
\* The two objects every database has, as initialize() finds them.
LEMMA FirstWorld ==
  ASSUME NEW w, DOMAIN w = {SYSTEM_DBREF, ROOT_DBREF}, IsWorld(w),
         w[SYSTEM_DBREF] = [parents |-> <<ROOT_DBREF>>, children |-> <<>>],
         w[ROOT_DBREF] = [parents |-> <<>>, children |-> <<SYSTEM_DBREF>>],
         NEW l \in LoopState, l.pc = "idle", l.me = EMPTY, l.dying = EMPTY
  PROVE  Ordered(w, l) /\ Rooted(w)
<1>1. SYSTEM_DBREF # ROOT_DBREF /\ SYSTEM_DBREF \in Dbref /\ ROOT_DBREF \in Dbref
  BY ClientAssumption, CacheAssumption DEF SYSTEM_DBREF, ROOT_DBREF, Dbref
<1> DEFINE x == SYSTEM_DBREF
           y == ROOT_DBREF
<1> HIDE DEF x, y
<1>2. x # y /\ x \in Dbref /\ y \in Dbref /\ DOMAIN w = {x, y} /\ y = ROOT_DBREF
  BY <1>1 DEF x, y
<1>3. /\ w[x].parents = <<y>> /\ w[x].children = <<>>
      /\ w[y].parents = <<>> /\ w[y].children = <<x>>
  BY DEF x, y
<1>4. Range(<<>>) = {} /\ \A z : Range(<<z>>) = {z}
  BY DEF Range
<1>5. Up(w, x) = {y} /\ Up(w, y) = {}
  BY <1>2, <1>3, <1>4 DEF Up
<1>6. Within(w)
  BY <1>2, <1>3, <1>4 DEF Within
<1>7. Acyclic(w)
  <2>1. Closed(w, {y}) /\ {y} \in SUBSET Dbref /\ y \in {y} /\ x \notin {y}
    BY <1>2, <1>5 DEF Closed
  <2>2. Apart(w, y, x)
    BY <2>1 DEF Apart
  <2> QED
    BY <1>2, <1>5, <2>2 DEF Acyclic
<1>8. Symmetric(w, l)
  <2> SUFFICES ASSUME NEW d \in {x, y}, NEW p \in {x, y}
               PROVE  Count(w[d].parents, p) = Count(w[p].children, d)
    BY <1>2 DEF Symmetric, Named, Listed
  <2> QED
    BY <1>2, <1>3, CountNone, CountOne
<1>9. Rooted(w)
  <2> SUFFICES ASSUME NEW A \in SUBSET Dbref, Closed(w, A), A \cap {x, y} # {}
               PROVE  y \in A
    BY <1>2 DEF Rooted
  <2> QED
    BY <1>5 DEF Closed
<1> QED
  BY <1>6, <1>7, <1>8, <1>9 DEF Ordered, CastOK, TellsOK, WantedOK, SearchOK

\* The invariant holds at first.
LEMMA InitHInv ==
  ASSUME Roomy, Init
  PROVE  HInv
<1> DEFINE x == SYSTEM_DBREF
           y == ROOT_DBREF
<1>1. store = Boot(FirstDisk) /\ call = Idle /\ IInv
  BY InitIInv DEF Init
<1>2. x # y /\ x \in Dbref /\ y \in Dbref
  BY ClientAssumption, CacheAssumption DEF SYSTEM_DBREF, ROOT_DBREF, Dbref
<1>3. /\ \A d \in Dbref : FirstDisk[d] # NoImage <=> d \in {x, y}
      /\ Kin(FirstDisk[x]) = [parents |-> <<y>>, children |-> <<>>]
      /\ Kin(FirstDisk[y]) = [parents |-> <<>>, children |-> <<x>>]
  <2>1. /\ FirstDisk[y] = [Blank EXCEPT !.children = <<x>>]
        /\ FirstDisk[x] = [Blank EXCEPT !.parents = <<y>>]
        /\ \A d \in Dbref : d \notin {x, y} => FirstDisk[d] = NoImage
    BY <1>2 DEF FirstDisk
  <2>2. FirstDisk[x] # NoImage /\ FirstDisk[y] # NoImage
    BY FirstDiskType
  <2>3. /\ Kin([Blank EXCEPT !.children = <<x>>]) = [parents |-> <<>>, children |-> <<x>>]
        /\ Kin([Blank EXCEPT !.parents = <<y>>]) = [parents |-> <<y>>, children |-> <<>>]
    BY DEF Kin, Blank
  <2> QED
    BY <2>1, <2>2, <2>3
<1>4. /\ Neat(store, NULL)
      /\ \A d \in Dbref : KinAt(store, d) = IF d \in {x, y} THEN {Kin(FirstDisk[d])} ELSE {}
  BY <1>1, <1>3, FirstDiskType, BootKin
<1> HIDE DEF x, y
<1>5. store \in Store /\ ChainsOK(store) /\ Dying(store, NULL)
  BY <1>1, Basics DEF Dying
<1> DEFINE w == World(store, NULL)
           l == Loop(store, Idle)
<1>6. Shows(store, NULL, w) /\ IsWorld(w)
  BY <1>5, WorldIs
<1>7. l \in LoopState /\ l.pc = "idle" /\ l.me = EMPTY /\ l.dying = EMPTY
  BY <1>5, LoopType, IdleCall DEF Loop, DbrefOf
<1> HIDE DEF w, l
<1>8. DOMAIN w = Existing(store)
  BY <1>5, <1>6, ShownDomain
<1>9. \A d \in Dbref : d \in Existing(store) <=> d \in {x, y}
  <2> SUFFICES ASSUME NEW d \in Dbref
               PROVE  d \in Existing(store) <=> d \in {x, y}
    OBVIOUS
  <2>1. d \in Existing(store) <=> KinAt(store, d) # {}
    BY <1>5, KinExists
  <2> QED
    BY <1>4, <2>1
<1>10. DOMAIN w = {x, y}
  BY <1>2, <1>8, <1>9 DEF Existing
<1>11. {w[x]} = {Kin(FirstDisk[x])} /\ {w[y]} = {Kin(FirstDisk[y])}
  BY <1>2, <1>4, <1>8, <1>10, <1>6 DEF Shows
<1>12. w[x] = [parents |-> <<y>>, children |-> <<>>] /\ w[y] = [parents |-> <<>>, children |-> <<x>>]
  BY <1>3, <1>11
<1>13. Ordered(w, l) /\ Rooted(w)
  BY <1>6, <1>7, <1>10, <1>12, FirstWorld DEF x, y
<1>14. call.victim = NULL /\ Hierarchy = w /\ TheLoop = l
  BY <1>1, IdleCall DEF Hierarchy, TheLoop, w, l
<1> QED
  BY <1>1, <1>4, <1>13, <1>14 DEF HInv

-----------------------------------------------------------------------------
(***************************************************************************)
(* What the inductive invariant says of the objects in cache and on disk.  *)
(***************************************************************************)
LEMMA ObjectWorld ==
  ASSUME HInv, NEW d \in Dbref
  PROVE  /\ Exists(store, d) <=> d \in DOMAIN Hierarchy \ {TheLoop.dying}
         /\ Exists(store, d) =>
              /\ ObjectData(store, d).parents = Hierarchy[d].parents
              /\ ObjectData(store, d).children = Hierarchy[d].children
              /\ ObjectData(store, d).parents \in Seq(Dbref)
              /\ ObjectData(store, d).children \in Seq(Dbref)
<1> DEFINE v == call.victim
           w == Hierarchy
<1>1. Fit(store, v) /\ TheLoop.dying = DbrefOf(store, v)
  BY HBasics
<1>2. Shows(store, v, w)
  BY <1>1, WorldIs DEF Fit, Hierarchy
<1>3. /\ v = NULL => DOMAIN w = Existing(store)
      /\ v # NULL => DOMAIN w = Existing(store) \cup {DbrefOf(store, v)}
      /\ DbrefOf(store, v) \notin Existing(store)
  BY <1>1, <1>2, ShownDomain, DyingDbref DEF Fit
<1>4. Exists(store, d) <=> d \in Existing(store)
  BY <1>1, KinExists DEF Fit
<1>5. ASSUME Exists(store, d)
      PROVE  Kin(ObjectData(store, d)) = w[d] /\ ObjectData(store, d) \in Image
  <2>1. KinAt(store, d) = {Kin(ObjectData(store, d))} /\ ObjectData(store, d) \in Image
    BY <1>1, <1>5, KinExists DEF KinAt, Fit
  <2>2. KinAt(store, d) = {w[d]}
    BY <1>2, <1>4, <1>5 DEF Shows
  <2> QED
    BY <2>1, <2>2
<1> QED
  BY <1>1, <1>3, <1>4, <1>5, ImageLists

\* Children have their parents, and parents their children, by the
\* invariant.
LEMMA ShapeSymmetric ==
  ASSUME HInv, restarts = 0
  PROVE  HierarchySymmetric
<1> SUFFICES ASSUME Running("idle"), NEW d \in Dbref, Exists(store, d)
             PROVE  /\ \A e \in Range(ObjectData(store, d).parents)
                              \cup Range(ObjectData(store, d).children) : Exists(store, e)
                    /\ \A p \in Dbref : Exists(store, p) =>
                         Count(ObjectData(store, d).parents, p)
                           = Count(ObjectData(store, p).children, d)
  BY DEF HierarchySymmetric
<1> DEFINE w == Hierarchy
           l == TheLoop
<1>1. Ordered(w, l) /\ l.pc = "idle"
  BY HBasics DEF Running, FirstRun
<1>2. d \in DOMAIN w
  BY ObjectWorld
<1>3. DOMAIN w \subseteq Dbref /\ l.dying = EMPTY
  BY <1>1 DEF Ordered, IsWorld, CastOK
<1>4. ASSUME NEW e \in Range(w[d].parents) \cup Range(w[d].children)
      PROVE  Exists(store, e)
  <2>1. e \in DOMAIN w
    BY <1>1, <1>2 DEF Ordered, Within
  <2>2. e \in Dbref /\ e # l.dying
    BY <1>3, <2>1, EmptyDbref
  <2> QED
    BY <2>1, <2>2, ObjectWorld
<1>5. ASSUME NEW p \in Dbref, Exists(store, p)
      PROVE  Count(ObjectData(store, d).parents, p) = Count(ObjectData(store, p).children, d)
  <2>1. p \in DOMAIN w /\ ObjectData(store, p).children = w[p].children
    BY <1>5, ObjectWorld
  <2>2. Named(w, l, d, p) = Listed(w, l, p, d)
    BY <1>1, <1>2, <2>1 DEF Ordered, Symmetric
  <2>3. ObjectData(store, d).parents = w[d].parents
    BY ObjectWorld
  <2> QED
    BY <1>1, <2>1, <2>2, <2>3 DEF Named, Listed
<1> QED
  BY <1>4, <1>5, ObjectWorld

\* The objects that a loop over a list looks up exist, by the invariant.
LEMMA LoopsFind ==
  ASSUME HInv, restarts = 0
  PROVE  LoopsFindTheirObjects
<1> DEFINE w == Hierarchy
           l == TheLoop
           me == store.obj[Subject].dbref
<1>1. ~crashed => Ordered(w, l)
  BY HBasics DEF FirstRun
<1>2. l.pc = call.pc /\ l.todo = call.todo /\ l.kids = call.kids
      /\ call.todo \in Seq(Dbref) /\ call.kids \in Seq(Dbref)
  BY HBasics, CallLists
<1>3. \A e \in DOMAIN w \ {l.dying} : e \in Dbref /\ Exists(store, e)
  <2>1. DOMAIN w \subseteq Dbref
    BY HBasics, WorldIs DEF Fit, Hierarchy, IsWorld
  <2> QED
    BY <2>1, ObjectWorld
<1>4. call.pc \in {"leave", "adopt", "kids"} => me = SubjectOf(l)
  BY SubjectWorld
<1>5. ASSUME Running("leave") \/ Running("adopt"), NEW p \in Range(call.todo)
      PROVE  Exists(store, p)
  BY <1>1, <1>2, <1>3, <1>5 DEF Running, Ordered, TellsOK
<1>6. ASSUME Running("leave"), NEW p \in Range(call.todo)
      PROVE  Count(ObjectData(store, p).children, me) >= Count(call.todo, p)
  <2>1. p \in DOMAIN w \ {l.dying} /\ Count(w[p].children, me) = Count(call.todo, p)
    BY <1>1, <1>2, <1>4, <1>6, ParentKnows DEF Running
  <2>2. ObjectData(store, p).children = w[p].children
    BY <1>3, <2>1, ObjectWorld
  <2>3. Count(call.todo, p) \in Nat
    BY <1>2, CountType
  <2> QED
    BY <2>1, <2>2, <2>3
<1>7. ASSUME Running("kids"), NEW d \in Range(call.kids)
      PROVE  Exists(store, d) /\ Count(ObjectData(store, d).parents, me) >= Count(call.kids, d)
  <2>1. d \in DOMAIN w \ {l.dying} /\ Count(w[d].parents, l.dying) = Count(call.kids, d)
    BY <1>1, <1>2, <1>7, KidKnows DEF Running
  <2>2. me = l.dying
    BY <1>1, <1>2, <1>4, <1>7 DEF Running, SubjectOf, Ordered, CastOK
  <2>3. Exists(store, d) /\ ObjectData(store, d).parents = w[d].parents
    BY <1>3, <2>1, ObjectWorld
  <2>4. Count(call.kids, d) \in Nat
    BY <1>2, CountType
  <2> QED
    BY <2>1, <2>2, <2>3, <2>4
<1> QED
  BY <1>5, <1>6, <1>7 DEF LoopsFindTheirObjects

-----------------------------------------------------------------------------
(***************************************************************************)
(* Ancestry, a recursive function: it exists, stays within every set that  *)
(* holds d and all above its elements, and is such a set after as many     *)
(* steps as there are dbrefs.                                              *)
(***************************************************************************)
Wider(up, A) == A \cup UNION {up[x] : x \in A}

\* anc, up to the n-th value.
IsPart(up, d, f, n) ==
  /\ DOMAIN f = 0 .. n
  /\ f[0] = {d}
  /\ \A k \in 1 .. n : f[k] = Wider(up, f[k - 1])

\* Two beginnings of the search for ancestors agree as far as both go.
LEMMA PartUnique ==
  ASSUME NEW up, NEW d, NEW n \in Nat, NEW m \in Nat, NEW f, NEW g,
         IsPart(up, d, f, n), IsPart(up, d, g, m)
  PROVE  \A k \in Nat : k <= n /\ k <= m => f[k] = g[k]
<1> DEFINE T == {k \in Nat : k <= n /\ k <= m /\ f[k] # g[k]}
<1> SUFFICES ASSUME T # {}
             PROVE  FALSE
  OBVIOUS
<1>1. PICK k \in T : \A j \in T : k <= j
  BY LeastNumber
<1>2. CASE k = 0
  BY <1>1, <1>2 DEF IsPart
<1>3. CASE k # 0
  <2>1. k - 1 \in Nat /\ k - 1 <= n /\ k - 1 <= m /\ k \in 1 .. n /\ k \in 1 .. m
    BY <1>1, <1>3
  <2>2. k - 1 \notin T
    BY <1>1, <2>1
  <2>3. f[k - 1] = g[k - 1]
    BY <2>1, <2>2
  <2> QED
    BY <1>1, <2>1, <2>3 DEF IsPart
<1> QED
  BY <1>2, <1>3

\* There is a beginning of any length.
LEMMA PartExists ==
  ASSUME NEW up, NEW d
  PROVE  \A n \in Nat : \E f : IsPart(up, d, f, n)
<1> DEFINE T == {n \in Nat : ~ \E f : IsPart(up, d, f, n)}
<1> SUFFICES ASSUME T # {}
             PROVE  FALSE
  OBVIOUS
<1>1. PICK n \in T : \A j \in T : n <= j
  BY LeastNumber
<1>2. CASE n = 0
  <2> DEFINE f == [k \in 0 .. 0 |-> {d}]
  <2>1. IsPart(up, d, f, 0)
    BY DEF IsPart
  <2> QED
    BY <1>1, <1>2, <2>1
<1>3. CASE n # 0
  <2>1. n - 1 \in Nat /\ n - 1 \notin T
    BY <1>1, <1>3
  <2>2. PICK f : IsPart(up, d, f, n - 1)
    BY <2>1
  <2> DEFINE g == [k \in 0 .. n |-> IF k = n THEN Wider(up, f[n - 1]) ELSE f[k]]
  <2>3. \A k \in 0 .. n : g[k] = IF k = n THEN Wider(up, f[n - 1]) ELSE f[k]
    OBVIOUS
  <2>4. DOMAIN g = 0 .. n
    OBVIOUS
  <2> HIDE DEF g
  <2>5. g[0] = {d}
    BY <1>3, <2>1, <2>2, <2>3 DEF IsPart
  <2>6. ASSUME NEW k \in 1 .. n
        PROVE  g[k] = Wider(up, g[k - 1])
    <3>1. k - 1 \in 0 .. n /\ k - 1 # n /\ k \in 0 .. n /\ n \in Nat
      BY <1>1
    <3>2. g[k - 1] = f[k - 1]
      BY <2>3, <3>1
    <3>3. CASE k = n
      BY <2>3, <3>1, <3>2, <3>3
    <3>4. CASE k # n
      <4>1. k \in 1 .. n - 1
        BY <3>1, <3>4
      <4> QED
        BY <2>2, <2>3, <3>1, <3>2, <3>4, <4>1 DEF IsPart
    <3> QED
      BY <3>3, <3>4
  <2>7. IsPart(up, d, g, n)
    BY <2>4, <2>5, <2>6 DEF IsPart
  <2> QED
    BY <1>1, <2>7
<1> QED
  BY <1>2, <1>3

\* The definition of anc.
AncDef(f, up, d) ==
  f = [n \in Nat |-> IF n = 0 THEN {d} ELSE f[n - 1] \cup UNION {up[x] : x \in f[n - 1]}]

\* The search for ancestors is a function.
LEMMA AncExists ==
  ASSUME NEW up, NEW d
  PROVE  \E f : AncDef(f, up, d)
<1> DEFINE part(n) == CHOOSE f : IsPart(up, d, f, n)
           g == [n \in Nat |-> part(n)[n]]
<1>1. \A n \in Nat : IsPart(up, d, part(n), n)
  BY PartExists
<1> HIDE DEF part
<1>2. \A n \in Nat : g[n] = part(n)[n]
  OBVIOUS
<1>3. g[0] = {d}
  BY <1>1, <1>2 DEF IsPart
<1>4. ASSUME NEW n \in Nat, n # 0
      PROVE  g[n] = Wider(up, g[n - 1])
  <2>1. n - 1 \in Nat /\ n \in 1 .. n /\ n - 1 <= n
    BY <1>4
  <2>2. part(n)[n] = Wider(up, part(n)[n - 1])
    BY <1>1, <2>1 DEF IsPart
  <2>3. part(n)[n - 1] = part(n - 1)[n - 1]
    BY <1>1, <2>1, PartUnique
  <2> QED
    BY <1>2, <2>1, <2>2, <2>3
<1>5. \A n \in Nat : g[n] = IF n = 0 THEN {d} ELSE g[n - 1] \cup UNION {up[x] : x \in g[n - 1]}
  BY <1>3, <1>4 DEF Wider
<1> DEFINE h == [n \in Nat |-> IF n = 0 THEN {d} ELSE g[n - 1] \cup UNION {up[x] : x \in g[n - 1]}]
<1>6. g = h
  BY <1>5
<1> QED
  BY <1>6 DEF AncDef

\* What the function chosen in Ancestry is.
IsAnc(f, up, d) == f[0] = {d} /\ \A n \in Nat : f[n + 1] = Wider(up, f[n])

\* Ancestry is the last value of this function.
LEMMA AncestryIs ==
  ASSUME NEW s, NEW d
  PROVE  \E f : IsAnc(f, [x \in Dbref |-> ParentsOf(s, x)], d) /\ Ancestry(s, d) = f[MaxDbref]
<1> DEFINE up == [x \in Dbref |-> ParentsOf(s, x)]
           anc == CHOOSE f : f = [n \in Nat |-> IF n = 0 THEN {d}
                                   ELSE f[n - 1] \cup UNION {up[x] : x \in f[n - 1]}]
<1>1. Ancestry(s, d) = anc[MaxDbref]
  BY DEF Ancestry
<1> HIDE DEF up
<1>2. anc = CHOOSE f : AncDef(f, up, d)
  BY DEF AncDef
<1> HIDE DEF anc
<1>3. AncDef(anc, up, d)
  BY <1>2, AncExists
<1>4. \A n \in Nat : anc[n] = IF n = 0 THEN {d}
                              ELSE anc[n - 1] \cup UNION {up[x] : x \in anc[n - 1]}
  BY <1>3 DEF AncDef
<1>5. IsAnc(anc, up, d)
  <2>1. anc[0] = {d}
    BY <1>4
  <2>2. ASSUME NEW n \in Nat
        PROVE  anc[n + 1] = Wider(up, anc[n])
    <3>1. n + 1 \in Nat /\ n + 1 # 0 /\ (n + 1) - 1 = n
      OBVIOUS
    <3> QED
      BY <1>4, <3>1 DEF Wider
  <2> QED
    BY <2>1, <2>2 DEF IsAnc
<1> QED
  BY <1>1, <1>5 DEF up

\* The search does not leave a set that has its parents.
LEMMA AncWithin ==
  ASSUME NEW up, NEW d, NEW f, IsAnc(f, up, d), NEW A, d \in A, \A x \in A : up[x] \subseteq A
  PROVE  \A n \in Nat : f[n] \subseteq A
<1> DEFINE T == {n \in Nat : ~ (f[n] \subseteq A)}
<1> SUFFICES ASSUME T # {}
             PROVE  FALSE
  OBVIOUS
<1>1. PICK n \in T : \A j \in T : n <= j
  BY LeastNumber
<1>2. CASE n = 0
  BY <1>1, <1>2 DEF IsAnc
<1>3. CASE n # 0
  <2>1. n - 1 \in Nat /\ n - 1 \notin T /\ (n - 1) + 1 = n
    BY <1>1, <1>3
  <2>2. f[n] = Wider(up, f[n - 1])
    BY <2>1 DEF IsAnc
  <2>3. f[n - 1] \subseteq A
    BY <2>1
  <2>4. Wider(up, f[n - 1]) \subseteq A
    BY <2>3 DEF Wider
  <2> QED
    BY <1>1, <2>2, <2>4
<1> QED
  BY <1>2, <1>3

\* An object is itself in what the search finds.
LEMMA AncMember ==
  ASSUME NEW up, NEW d, NEW f, IsAnc(f, up, d)
  PROVE  \A n \in Nat : d \in f[n]
<1> DEFINE T == {n \in Nat : d \notin f[n]}
<1> SUFFICES ASSUME T # {}
             PROVE  FALSE
  OBVIOUS
<1>1. PICK n \in T : \A j \in T : n <= j
  BY LeastNumber
<1>2. CASE n = 0
  BY <1>1, <1>2 DEF IsAnc
<1>3. CASE n # 0
  <2>1. n - 1 \in Nat /\ n - 1 \notin T /\ (n - 1) + 1 = n
    BY <1>1, <1>3
  <2> QED
    BY <1>1, <2>1 DEF IsAnc, Wider
<1> QED
  BY <1>2, <1>3

\* As long as the set is not closed, each step adds an element.
LEMMA AncGrows ==
  ASSUME NEW up \in [Dbref -> SUBSET Dbref], NEW d \in Dbref, NEW f, IsAnc(f, up, d)
  PROVE  \A n \in Nat : Wider(up, f[n]) = f[n] \/ Cardinality(f[n]) >= n + 1
<1> DEFINE T == {n \in Nat : ~ (Wider(up, f[n]) = f[n] \/ Cardinality(f[n]) >= n + 1)}
<1> SUFFICES ASSUME T # {}
             PROVE  FALSE
  OBVIOUS
<1>1. PICK n \in T : \A j \in T : n <= j
  BY LeastNumber
<1>2. \A k \in Nat : f[k] \subseteq Dbref
  BY AncWithin
<1>3. IsFiniteSet(Dbref)
  BY DbrefFinite
<1>4. CASE n = 0
  <2>1. f[n] = {d} /\ Cardinality({d}) = 1
    BY <1>4, FS_Singleton DEF IsAnc
  <2>2. Cardinality(f[n]) = 1
    BY <2>1
  <2>3. Cardinality(f[n]) >= n + 1
    BY <1>4, <2>2
  <2> QED
    BY <1>1, <2>3
<1>5. CASE n # 0
  <2>1. n - 1 \in Nat /\ n - 1 \notin T /\ (n - 1) + 1 = n
    BY <1>1, <1>5
  <2>2. f[n] = Wider(up, f[n - 1])
    BY <2>1 DEF IsAnc
  <2>3. Wider(up, f[n - 1]) = f[n - 1] \/ Cardinality(f[n - 1]) >= n
    BY <2>1
  <2>4. CASE Wider(up, f[n - 1]) = f[n - 1]
    BY <1>1, <2>2, <2>4
  <2>5. CASE Wider(up, f[n - 1]) # f[n - 1] /\ Cardinality(f[n - 1]) >= n
    <3>1. f[n] # f[n - 1] /\ f[n - 1] \in SUBSET f[n]
      BY <2>2, <2>5 DEF Wider
    <3>2. IsFiniteSet(f[n]) /\ IsFiniteSet(f[n - 1])
      BY <1>1, <1>2, <1>3, <2>1, FS_Subset
    <3>3. /\ Cardinality(f[n - 1]) <= Cardinality(f[n])
          /\ Cardinality(f[n]) # Cardinality(f[n - 1])
      BY <3>1, <3>2, FS_Subset
    <3>4. Cardinality(f[n]) \in Nat /\ Cardinality(f[n - 1]) \in Nat
      BY <3>2, FS_CardinalityType
    <3>5. Cardinality(f[n]) >= n + 1
      BY <1>1, <2>5, <3>3, <3>4
    <3> QED
      BY <1>1, <3>5
  <2> QED
    BY <2>3, <2>4, <2>5
<1> QED
  BY <1>4, <1>5

\* After MaxDbref rounds the search has the parents of all it has found.
LEMMA AncClosed ==
  ASSUME NEW up \in [Dbref -> SUBSET Dbref], NEW d \in Dbref, NEW f, IsAnc(f, up, d)
  PROVE  /\ f[MaxDbref] \in SUBSET Dbref /\ d \in f[MaxDbref]
         /\ \A x \in f[MaxDbref] : up[x] \subseteq f[MaxDbref]
<1> DEFINE A == f[MaxDbref]
<1>1. MaxDbref \in Nat
  BY CacheAssumption
<1>2. A \in SUBSET Dbref /\ d \in A
  BY <1>1, AncWithin, AncMember
<1>3. Wider(up, A) = A \/ Cardinality(A) >= MaxDbref + 1
  BY <1>1, AncGrows
<1>4. CASE Wider(up, A) = A
  BY <1>2, <1>4 DEF Wider
<1>5. CASE Cardinality(A) >= MaxDbref + 1
  <2>1. IsFiniteSet(Dbref) /\ Cardinality(Dbref) = MaxDbref + 1
    BY DbrefFinite
  <2>2. Cardinality(A) <= Cardinality(Dbref) /\ (Cardinality(Dbref) = Cardinality(A) => Dbref = A)
    BY <1>2, <2>1, FS_Subset
  <2>3. Cardinality(A) \in Nat
    BY <1>2, <2>1, FS_Subset, FS_CardinalityType
  <2>4. Dbref = A
    BY <1>1, <1>5, <2>1, <2>2, <2>3
  <2> QED
    BY <1>2, <2>4
<1> QED
  BY <1>2, <1>3, <1>4, <1>5

\* The parents lists are those of the hierarchy, but for an object being
\* destroyed.
LEMMA ParentsUp ==
  ASSUME HInv, NEW d \in Dbref
  PROVE  /\ ParentsOf(store, d) \subseteq Up(Hierarchy, d)
         /\ ParentsOf(store, d) \subseteq Dbref
         /\ TheLoop.dying = EMPTY => ParentsOf(store, d) = Up(Hierarchy, d)
<1>1. CASE Exists(store, d)
  <2>1. d \in DOMAIN Hierarchy /\ ParentsOf(store, d) = Range(Hierarchy[d].parents)
    BY <1>1, ObjectWorld DEF ParentsOf
  <2>2. ObjectData(store, d).parents \in Seq(Dbref)
    BY <1>1, ObjectWorld
  <2>3. Range(ObjectData(store, d).parents) \subseteq Dbref
    BY <2>2 DEF Range
  <2> QED
    BY <1>1, <2>1, <2>3 DEF Up, ParentsOf
<1>2. CASE ~Exists(store, d)
  BY <1>2, ObjectWorld, EmptyDbref DEF ParentsOf, Up
<1> QED
  BY <1>1, <1>2

\* No object is its own ancestor, by the invariant.
LEMMA ShapeAcyclic ==
  ASSUME HInv, restarts = 0, ~crashed
  PROVE  HierarchyAcyclic
<1> SUFFICES ASSUME NEW d \in Dbref, NEW p \in ParentsOf(store, d)
             PROVE  d \notin Ancestry(store, p)
  BY DEF HierarchyAcyclic
<1> DEFINE w == Hierarchy
           up == [x \in Dbref |-> ParentsOf(store, x)]
<1>1. p \in Up(w, d) /\ d \in DOMAIN w
  BY ParentsUp DEF Up
<1>2. Acyclic(w)
  BY HBasics DEF FirstRun, Ordered
<1>3. PICK A \in SUBSET Dbref : Closed(w, A) /\ p \in A /\ d \notin A
  BY <1>1, <1>2 DEF Acyclic, Apart
<1>4. \A x \in A : up[x] \subseteq A
  BY <1>3, ParentsUp DEF Closed
<1>5. PICK f : IsAnc(f, up, p) /\ Ancestry(store, p) = f[MaxDbref]
  BY AncestryIs
<1> HIDE DEF up
<1>6. f[MaxDbref] \subseteq A
  BY <1>3, <1>4, <1>5, AncWithin, CacheAssumption
<1> QED
  BY <1>3, <1>5, <1>6

\* Everything descends from the root, by the invariant, when no parents list
\* is empty.
LEMMA ShapeRooted ==
  ASSUME <<>> \notin ParentLists, HInv, restarts = 0
  PROVE  NoOrphans
<1> SUFFICES ASSUME Running("idle"), NEW d \in Dbref, Exists(store, d)
             PROVE  ROOT_DBREF \in Ancestry(store, d)
  BY DEF NoOrphans
<1> DEFINE w == Hierarchy
           up == [x \in Dbref |-> ParentsOf(store, x)]
<1>1. Rooted(w) /\ TheLoop.dying = EMPTY
  BY HBasics DEF Running, FirstRun, Ordered, CastOK
<1>2. up \in [Dbref -> SUBSET Dbref] /\ \A x \in Dbref : up[x] = Up(w, x)
  BY <1>1, ParentsUp
<1>3. PICK f : IsAnc(f, up, d) /\ Ancestry(store, d) = f[MaxDbref]
  BY AncestryIs
<1> HIDE DEF up
<1>4. /\ f[MaxDbref] \in SUBSET Dbref /\ d \in f[MaxDbref]
      /\ \A x \in f[MaxDbref] : up[x] \subseteq f[MaxDbref]
  BY <1>2, <1>3, AncClosed
<1>5. Closed(w, f[MaxDbref])
  BY <1>2, <1>4 DEF Closed
<1>6. d \in DOMAIN w
  BY ObjectWorld
<1> QED
  BY <1>1, <1>3, <1>4, <1>5, <1>6 DEF Rooted

-----------------------------------------------------------------------------
(***************************************************************************)
(* The turns of the loops that nothing in the code guards: the caller does *)
(* not look whether cache_retrieve() found the object, nor list_delete()   *)
(* whether the index is -1.                                                *)
(***************************************************************************)
\* What cache_retrieve() returns to a loop.
Fetched(d) == Retrieve(store, d).obj[Retrieved(store, d)].data

\* The states in which the next turn of a loop passes on NULL, or an index of -1.
FatalSearch ==
  LET x == Head(call.stack)
  IN  call.pc = "search" /\ call.stack # <<>> /\ ~Exists(store, x)

FatalTell ==
  LET p == Head(call.todo)
  IN  /\ call.pc \in {"leave", "adopt"} /\ call.todo # <<>> /\ CanRetrieve(store, p)
      /\ Exists(store, p) =>
           call.pc = "leave" /\ store.obj[Subject].dbref \notin Range(Fetched(p).children)

FatalKid ==
  LET d == Head(call.kids)
  IN  /\ call.pc = "kids" /\ call.kids # <<>> /\ CanRetrieve(store, d)
      /\ Exists(store, d) => store.obj[call.victim].dbref \notin Range(Fetched(d).parents)

Fatal == FatalSearch \/ FatalTell \/ FatalKid

\* No operation ends the process, ...
LEMMA OperationsLive ==
  ASSUME Operation
  PROVE  crashed' = crashed
<1>1. CASE \E d \in Dbref : SendMessage(d)
  BY <1>1 DEF SendMessage, NotFound
<1>2. CASE PassMessage
  BY <1>2 DEF PassMessage
<1>3. CASE FrameReturn
  BY <1>3 DEF FrameReturn
<1>4. CASE \E parents \in ParentLists : Create(parents)
  BY <1>4 DEF Create, NotFound
<1>5. CASE \E d \in Dbref : Destroy(d)
  BY <1>5 DEF Destroy, NotFound
<1>6. CASE \E d \in Dbref, parents \in ParentLists : ChangeParents(d, parents)
  BY <1>6 DEF ChangeParents, NotFound
<1>7. CASE \E m \in Methods : DefineMethod(m)
  BY <1>7 DEF DefineMethod
<1>8. CASE \E v \in Vars : AssignVar(v)
  BY <1>8 DEF AssignVar
<1>9. CASE BinaryDump
  BY <1>9 DEF BinaryDump
<1>10. CASE Restart
  BY <1>10 DEF Restart
<1> QED
  BY <1>1, <1>2, <1>3, <1>4, <1>5, <1>6, <1>7, <1>8, <1>9, <1>10 DEF Operation

\* ... and of the rest only a method search and a fatal turn of a loop do.
LEMMA WhereFatal ==
  ASSUME Continue, call.pc # "method"
  PROVE  crashed' = crashed \/ (Fatal /\ ~crashed)
<1>1. CASE DropReference
  BY <1>1 DEF DropReference
<1>2. CASE \E x \in Dbref, mark, hit \in BOOLEAN : VisitAncestor(x, mark, hit)
  BY <1>2 DEF VisitAncestor, Running
<1>3. CASE MethodFound
  BY <1>3 DEF MethodFound
<1>4. CASE SearchEnds
  BY <1>4 DEF SearchEnds
<1>5. CASE CheckParent
  BY <1>5 DEF CheckParent, Reject
<1>6. CASE ParentsChecked
  BY <1>6 DEF ParentsChecked
<1>7. CASE SearchAncestor
  BY <1>7 DEF SearchAncestor, Running, Fatal, FatalSearch
<1>8. CASE AncestorAbsent
  BY <1>8 DEF AncestorAbsent
<1>9. CASE TellParent
  BY <1>9 DEF TellParent, Running, Fatal, FatalTell, Fetched
<1>10. CASE SetParents
  BY <1>10 DEF SetParents
<1>11. CASE LeftParents
  BY <1>11 DEF LeftParents
<1>12. CASE TellKid
  BY <1>12 DEF TellKid, Running, Fatal, FatalKid, Fetched
<1>13. CASE Adopted
  BY <1>13 DEF Adopted
<1>14. CASE Buried
  BY <1>14 DEF Buried
<1> QED
  BY <1>1, <1>2, <1>3, <1>4, <1>5, <1>6, <1>7, <1>8, <1>9, <1>10, <1>11, <1>12, <1>13, <1>14
     DEF Continue

\* The loops see the hierarchy of the invariant.
LEMMA NeverFatal ==
  ASSUME Roomy, HInv, restarts = 0, ~crashed
  PROVE  ~Fatal
<1> DEFINE w == Hierarchy
           l == TheLoop
           me == store.obj[Subject].dbref
<1>1. Ordered(w, l)
  BY HBasics DEF FirstRun
<1>2. /\ l.pc = call.pc /\ l.todo = call.todo /\ l.kids = call.kids /\ l.stack = call.stack
      /\ call.todo \in Seq(Dbref) /\ call.kids \in Seq(Dbref) /\ call.stack \in Seq(Dbref)
  BY HBasics, CallLists DEF TheLoop, Loop
<1>3. \A e \in DOMAIN w \ {l.dying} : e \in Dbref /\ Exists(store, e)
  <2>1. DOMAIN w \subseteq Dbref
    BY HBasics, WorldIs DEF Fit, Hierarchy, IsWorld
  <2> QED
    BY <2>1, ObjectWorld
<1>4. \A e \in Dbref : CanRetrieve(store, e) /\ Exists(store, e) =>
        /\ Fetched(e).parents = w[e].parents
        /\ Fetched(e).children = w[e].children
  BY Fetch, ImageLists DEF Fetched
<1>5. ~FatalSearch
  <2> SUFFICES ASSUME call.pc = "search", call.stack # <<>>
               PROVE  Exists(store, Head(call.stack))
    BY DEF FatalSearch
  <2>1. Head(call.stack) \in Range(call.stack)
    BY <1>2, CountTail
  <2>2. Head(call.stack) \in DOMAIN w
    BY <1>1, <1>2, <2>1 DEF Ordered, SearchOK
  <2>3. l.dying = EMPTY
    BY <1>1, <1>2 DEF Ordered, CastOK
  <2>4. DOMAIN w \subseteq Dbref
    BY <1>1 DEF Ordered, IsWorld
  <2> QED
    BY <1>3, <2>2, <2>3, <2>4, EmptyDbref
<1>6. ~FatalTell
  <2> DEFINE p == Head(call.todo)
  <2> SUFFICES ASSUME call.pc \in {"leave", "adopt"}, call.todo # <<>>, CanRetrieve(store, p)
               PROVE  /\ Exists(store, p)
                      /\ call.pc = "leave" => me \in Range(Fetched(p).children)
    BY DEF FatalTell
  <2>1. p \in Range(call.todo) /\ p \in Dbref
    BY <1>2, CountTail
  <2>2. Exists(store, p)
    BY <1>1, <1>2, <1>3, <2>1 DEF Ordered, TellsOK
  <2>3. ASSUME call.pc = "leave"
        PROVE  me \in Range(Fetched(p).children)
    <3>1. SubjectOf(l) \in Range(w[p].children)
      BY <1>1, <1>2, <2>1, <2>3, ParentKnows
    <3>2. me = SubjectOf(l)
      BY <2>3, SubjectWorld
    <3> QED
      BY <1>4, <2>1, <2>2, <3>1, <3>2
  <2> QED
    BY <2>2, <2>3
<1>7. ~FatalKid
  <2> DEFINE d == Head(call.kids)
  <2> SUFFICES ASSUME call.pc = "kids", call.kids # <<>>, CanRetrieve(store, d)
               PROVE  /\ Exists(store, d)
                      /\ store.obj[call.victim].dbref \in Range(Fetched(d).parents)
    BY DEF FatalKid
  <2>1. d \in Range(call.kids) /\ d \in Dbref
    BY <1>2, CountTail
  <2>2. d \in DOMAIN w \ {l.dying} /\ l.dying \in Range(w[d].parents)
    BY <1>1, <1>2, <2>1, KidKnows
  <2>3. Exists(store, d)
    BY <1>3, <2>2
  <2>4. call.victim # NULL
    BY HBasics, ClientAssumption DEF CallShape
  <2>5. store.obj[call.victim].dbref = l.dying
    BY <2>4, VictimWorld
  <2> QED
    BY <1>4, <2>1, <2>2, <2>3, <2>5
<1> QED
  BY <1>5, <1>6, <1>7 DEF Fatal

-----------------------------------------------------------------------------
(***************************************************************************)
(* With room for every object in its bucket, every reachable state has     *)
(* the inductive invariant: the references and chains are in order, no     *)
(* holder has left its bucket, and until the first restart or crash the    *)
(* worlds and loops of create(), chparents() and destroy() are ordered     *)
(* and, if no object is created or left without parents, rooted.           *)
(***************************************************************************)
THEOREM HierarchyInvariance ==
  ASSUME Roomy
  PROVE  Spec => []HInv
<1>1. Init => HInv
  BY InitHInv
<1>2. HInv /\ [Next]_vars => HInv'
  BY NextHInv
<1> QED
  BY <1>1, <1>2, PTL DEF Spec

(***************************************************************************)
(* Whenever no loop of object_update_parents() or object_destroy() is      *)
(* under way, every object is on the children list of each of its parents  *)
(* as often as it names the parent, and no list names an object that does  *)
(* not exist: the loops tell everyone, and each as often as it has to be.  *)
(***************************************************************************)
THEOREM HierarchyStaysSymmetric ==
  ASSUME Roomy
  PROVE  Spec => [](restarts = 0 => HierarchySymmetric)
<1>1. HInv => (restarts = 0 => HierarchySymmetric)
  BY ShapeSymmetric
<1> QED
  BY <1>1, HierarchyInvariance, PTL

(***************************************************************************)
(* While the loops run, every object they still have to tell exists, and   *)
(* one that is to forget the subject has it on its list at least as often  *)
(* as it will be told: cache_retrieve() never returns NULL there, and      *)
(* list_delete_element(), which does not check, finds what it deletes.     *)
(***************************************************************************)
THEOREM LoopsFindObjects ==
  ASSUME Roomy
  PROVE  Spec => [](restarts = 0 => LoopsFindTheirObjects)
<1>1. HInv => (restarts = 0 => LoopsFindTheirObjects)
  BY LoopsFind
<1> QED
  BY <1>1, HierarchyInvariance, PTL

(***************************************************************************)
(* No object is its own ancestor, in the middle of a loop either: the      *)
(* search of object_has_ancestor() looks at all above a new parent, and    *)
(* the children of a destroyed object inherit what was above it anyway.    *)
(***************************************************************************)
THEOREM HierarchyStaysAcyclic ==
  ASSUME Roomy
  PROVE  Spec => [](restarts = 0 /\ ~crashed => HierarchyAcyclic)
<1>1. HInv => (restarts = 0 /\ ~crashed => HierarchyAcyclic)
  BY ShapeAcyclic
<1> QED
  BY <1>1, HierarchyInvariance, PTL

(***************************************************************************)
(* If create() and chparents() are given at least one parent, everything   *)
(* descends from the root whenever no loop is under way: destroy() leaves  *)
(* no child of the object without a parent.                                *)
(***************************************************************************)
THEOREM NobodyOrphaned ==
  ASSUME Roomy, <<>> \notin ParentLists
  PROVE  Spec => [](restarts = 0 => NoOrphans)
<1>1. HInv => (restarts = 0 => NoOrphans)
  BY ShapeRooted
<1> QED
  BY <1>1, HierarchyInvariance, PTL

(***************************************************************************)
(* Until a restart the process dies of a NULL object or of a list index of *)
(* -1 in a method search only: never while object_has_ancestor(),          *)
(* object_update_parents() or object_destroy() go through their lists.     *)
(***************************************************************************)
THEOREM LoopsNeverFatal ==
  ASSUME Roomy
  PROVE  Spec => [][restarts = 0 /\ crashed' # crashed => call.pc = "method"]_vars
<1>1. HInv /\ [Next]_vars => [restarts = 0 /\ crashed' # crashed => call.pc = "method"]_vars
  <2> SUFFICES ASSUME HInv, Next, restarts = 0, crashed' # crashed, call.pc # "method"
               PROVE  FALSE
    BY DEF vars
  <2>1. CASE Operation
    BY <2>1, OperationsLive
  <2>2. CASE Continue
    BY <2>2, WhereFatal, NeverFatal
  <2>3. CASE Halted
    BY <2>3 DEF Halted, vars
  <2> QED
    BY <2>1, <2>2, <2>3 DEF Next
<1> QED
  BY <1>1, HierarchyInvariance, PTL DEF Spec

=============================================================================

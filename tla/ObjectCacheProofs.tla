------------------------- MODULE ObjectCacheProofs -------------------------
(***************************************************************************)
(* Proofs about ObjectCache for every size of the cache, every number of   *)
(* frames and objects, and every set of parent lists.  First what the      *)
(* operators of ObjectStore do to the chains.                              *)
(***************************************************************************)
EXTENDS ObjectCache, SequenceTheorems, FiniteSetTheorems, WellFoundedInduction, TLAPS

-----------------------------------------------------------------------------
(***************************************************************************)
(* The four ways a chain changes: losing its tail, losing any element,     *)
(* gaining one at the tail, gaining one at the head.                       *)
(***************************************************************************)
LEMMA ChainFront ==
  ASSUME NEW S, NEW chain \in Seq(S), chain # <<>>, IsInjective(chain)
  PROVE  LET front == SubSeq(chain, 1, Len(chain) - 1)
         IN  /\ front \in Seq(S)
             /\ IsInjective(front)
             /\ Range(front) = Range(chain) \ {chain[Len(chain)]}
             /\ chain[Len(chain)] \in Range(chain)
<1> DEFINE n == Len(chain)
           front == SubSeq(chain, 1, n - 1)
<1>1. n \in Nat \ {0} /\ DOMAIN chain = 1 .. n
  BY EmptySeq, LenProperties
<1>2. /\ front \in Seq(S)
      /\ Len(front) = n - 1
      /\ DOMAIN front = 1 .. n - 1
      /\ \A i \in 1 .. n - 1 : front[i] = chain[i]
  BY <1>1, SubSeqProperties, LenProperties
<1>3. IsInjective(front)
  BY <1>1, <1>2 DEF IsInjective
<1>4. chain[n] \in Range(chain)
  BY <1>1 DEF Range
<1>5. Range(front) \subseteq Range(chain) \ {chain[n]}
  BY <1>1, <1>2 DEF Range, IsInjective
<1>6. Range(chain) \ {chain[n]} \subseteq Range(front)
  <2> SUFFICES ASSUME NEW i \in 1 .. n, chain[i] # chain[n]
               PROVE  chain[i] \in Range(front)
    BY <1>1 DEF Range
  <2>1. i \in 1 .. n - 1
    BY <1>1
  <2> QED
    BY <2>1, <1>2 DEF Range
<1> QED
  BY <1>2, <1>3, <1>4, <1>5, <1>6

\* Unlinking a holder moves the ones behind it up.
LEMMA UnlinkShape ==
  ASSUME NEW S, NEW chain \in Seq(S), NEW h \in Range(chain)
  PROVE  /\ Unlink(chain, h) \in Seq(S)
         /\ DOMAIN Unlink(chain, h) = 1 .. Len(chain) - 1
         /\ Len(Unlink(chain, h)) = Len(chain) - 1
         /\ \E k \in 1 .. Len(chain) :
              /\ chain[k] = h
              /\ \A i \in 1 .. Len(chain) - 1 :
                   Unlink(chain, h)[i] = IF i < k THEN chain[i] ELSE chain[i + 1]
<1> DEFINE n == Len(chain)
           k == CHOOSE i \in 1 .. Len(chain) : chain[i] = h
           left == SubSeq(chain, 1, k - 1)
           right == SubSeq(chain, k + 1, n)
           both == left \o right
<1>1. n \in Nat /\ DOMAIN chain = 1 .. n
  BY LenProperties
<1>2. k \in 1 .. n /\ chain[k] = h
  BY <1>1 DEF Range
<1> HIDE DEF k
<1>a. k \in Nat /\ n \in Nat /\ 1 <= k /\ k <= n
  BY <1>1, <1>2
<1>3. /\ left \in Seq(S)
      /\ Len(left) = k - 1
      /\ \A i \in 1 .. k - 1 : left[i] = chain[i]
  BY <1>1, <1>2, SubSeqProperties
<1>4. /\ right \in Seq(S)
      /\ Len(right) = n - k
      /\ \A i \in 1 .. n - k : right[i] = chain[i + k]
  <2>1. /\ k + 1 \in Int /\ n \in Int
        /\ n - (k + 1) + 1 = n - k
        /\ \A i \in 1 .. n - k : (k + 1) + i - 1 = i + k
        /\ k + 1 <= n \/ n - k = 0
        /\ \A i \in k + 1 .. n : i \in 1 .. n
    <3> HIDE DEF n
    <3> QED
      BY <1>a
  <2> \A i \in k + 1 .. n : chain[i] \in S
    BY <2>1, ElementOfSeq
  <2>2. /\ right \in Seq(S)
        /\ Len(right) = IF k + 1 <= n THEN n - (k + 1) + 1 ELSE 0
        /\ \A i \in 1 .. n - (k + 1) + 1 : right[i] = chain[(k + 1) + i - 1]
    BY <2>1, SubSeqProperties
  <2> QED
    BY <2>1, <2>2, <1>1, <1>2
<1>5. /\ both \in Seq(S)
      /\ Len(both) = n - 1
      /\ DOMAIN both = 1 .. n - 1
      /\ \A i \in 1 .. n - 1 : both[i] = IF i < k THEN chain[i] ELSE chain[i + 1]
  <2>1. /\ both \in Seq(S)
        /\ Len(both) = n - 1
        /\ \A i \in 1 .. n - 1 : both[i] = IF i <= k - 1 THEN left[i] ELSE right[i - (k - 1)]
    <3>1. Len(left) + Len(right) = n - 1 /\ Len(left) = k - 1
      <4> HIDE DEF n, left, right
      <4> QED
        BY <1>a, <1>3, <1>4
    <3> HIDE DEF left, right
    <3> QED
      BY <3>1, <1>3, <1>4, ConcatProperties
  <2>2. ASSUME NEW i \in 1 .. n - 1, i < k
        PROVE  both[i] = chain[i]
    <3>1. i <= k - 1 /\ i \in 1 .. k - 1
      BY <2>2, <1>1, <1>2
    <3> QED
      BY <3>1, <2>1, <1>3
  <2>3. ASSUME NEW i \in 1 .. n - 1, ~(i < k)
        PROVE  both[i] = chain[i + 1]
    <3>1. ~(i <= k - 1) /\ i - (k - 1) \in 1 .. n - k /\ (i - (k - 1)) + k = i + 1
      BY <2>3, <1>1, <1>2
    <3> QED
      BY <3>1, <2>1, <1>4
  <2> QED
    BY <2>1, <2>2, <2>3, LenProperties
<1>6. Unlink(chain, h) = both
  BY DEF Unlink, RemoveAt, k
<1> HIDE DEF both, n
<1> QED
  BY <1>2, <1>5, <1>6 DEF n

\* A chain without one of its holders.
LEMMA ChainUnlink ==
  ASSUME NEW S, NEW chain \in Seq(S), NEW h \in Range(chain), IsInjective(chain)
  PROVE  /\ Unlink(chain, h) \in Seq(S)
         /\ IsInjective(Unlink(chain, h))
         /\ Range(Unlink(chain, h)) = Range(chain) \ {h}
<1> DEFINE n == Len(chain)
           both == Unlink(chain, h)
<1>1. n \in Nat /\ DOMAIN chain = 1 .. n
  BY LenProperties
<1>2. PICK k \in 1 .. n : chain[k] = h /\ \A i \in 1 .. n - 1 : both[i] = IF i < k THEN chain[i] ELSE chain[i + 1]
  BY UnlinkShape
<1>5. both \in Seq(S) /\ DOMAIN both = 1 .. n - 1
  BY UnlinkShape
<1> HIDE DEF both
<1>7. /\ \A i \in 1 .. k - 1 : both[i] = chain[i] /\ i \in 1 .. n
      /\ \A i \in k .. n - 1 : both[i] = chain[i + 1] /\ i + 1 \in 1 .. n
      /\ \A i \in 1 .. n - 1 : i \in 1 .. k - 1 \/ i \in k .. n - 1
  BY <1>1, <1>2, <1>5
<1>8. \A i, j \in 1 .. n : chain[i] = chain[j] => i = j
  BY <1>1 DEF IsInjective
<1>9. IsInjective(both)
  <2> SUFFICES ASSUME NEW i \in 1 .. n - 1, NEW j \in 1 .. n - 1, both[i] = both[j]
               PROVE  i = j
    BY <1>5 DEF IsInjective
  <2>1. CASE i \in 1 .. k - 1 /\ j \in 1 .. k - 1
    BY <2>1, <1>7, <1>8
  <2>2. CASE i \in 1 .. k - 1 /\ j \in k .. n - 1
    <3>1. i = j + 1
      BY <2>2, <1>7, <1>8
    <3> QED
      BY <3>1, <2>2, <1>1, <1>2
  <2>3. CASE i \in k .. n - 1 /\ j \in 1 .. k - 1
    <3>1. i + 1 = j
      BY <2>3, <1>7, <1>8
    <3> QED
      BY <3>1, <2>3, <1>1, <1>2
  <2>4. CASE i \in k .. n - 1 /\ j \in k .. n - 1
    <3>1. i + 1 = j + 1
      BY <2>4, <1>7, <1>8
    <3> QED
      BY <3>1, <1>1
  <2> QED
    BY <2>1, <2>2, <2>3, <2>4, <1>7
<1>10. Range(both) \subseteq Range(chain) \ {h}
  <2> SUFFICES ASSUME NEW i \in 1 .. n - 1
               PROVE  both[i] \in Range(chain) /\ both[i] # h
    BY <1>5 DEF Range
  <2>1. CASE i \in 1 .. k - 1
    <3>1. both[i] = chain[i] /\ i \in 1 .. n /\ i # k
      BY <2>1, <1>7, <1>1, <1>2
    <3> QED
      BY <3>1, <1>1, <1>2, <1>8 DEF Range
  <2>2. CASE i \in k .. n - 1
    <3>1. both[i] = chain[i + 1] /\ i + 1 \in 1 .. n /\ i + 1 # k
      BY <2>2, <1>7, <1>1, <1>2
    <3> QED
      BY <3>1, <1>1, <1>2, <1>8 DEF Range
  <2> QED
    BY <2>1, <2>2, <1>7
<1>11. Range(chain) \ {h} \subseteq Range(both)
  <2> SUFFICES ASSUME NEW x \in Range(chain) \ {h}
               PROVE  x \in Range(both)
    OBVIOUS
  <2> PICK i \in 1 .. n : chain[i] = x
    BY <1>1 DEF Range
  <2> SUFFICES \E j \in 1 .. n - 1 : both[j] = chain[i]
    BY <1>5 DEF Range
  <2>1. CASE i < k
    BY <2>1, <1>1, <1>2, <1>7
  <2>2. CASE i > k
    <3>1. i - 1 \in k .. n - 1 /\ (i - 1) + 1 = i /\ i - 1 \in 1 .. n - 1
      BY <2>2, <1>1, <1>2
    <3> QED
      BY <3>1, <1>7
  <2> QED
    BY <2>1, <2>2, <1>1, <1>2
<1> QED
  BY <1>5, <1>9, <1>10, <1>11 DEF both

\* A chain with a new holder at its end.
LEMMA ChainAppend ==
  ASSUME NEW S, NEW chain \in Seq(S), NEW h \in S, h \notin Range(chain), IsInjective(chain)
  PROVE  /\ Append(chain, h) \in Seq(S)
         /\ IsInjective(Append(chain, h))
         /\ Range(Append(chain, h)) = Range(chain) \cup {h}
<1> DEFINE n == Len(chain)
           longer == Append(chain, h)
<1>1. n \in Nat /\ DOMAIN chain = 1 .. n
  BY LenProperties
<1>2. /\ longer \in Seq(S)
      /\ DOMAIN longer = 1 .. n + 1
      /\ \A i \in 1 .. n : longer[i] = chain[i]
      /\ longer[n + 1] = h
  BY <1>1, AppendProperties, LenProperties
<1> HIDE DEF longer
<1>3. IsInjective(longer)
  BY <1>1, <1>2 DEF IsInjective, Range
<1>4. Range(longer) = Range(chain) \cup {h}
  BY <1>1, <1>2 DEF Range
<1> QED
  BY <1>2, <1>3, <1>4 DEF longer

\* A chain with a new holder in front.
LEMMA ChainPrepend ==
  ASSUME NEW S, NEW chain \in Seq(S), NEW h \in S, h \notin Range(chain), IsInjective(chain)
  PROVE  /\ <<h>> \o chain \in Seq(S)
         /\ IsInjective(<<h>> \o chain)
         /\ Range(<<h>> \o chain) = Range(chain) \cup {h}
<1> DEFINE n == Len(chain)
           longer == <<h>> \o chain
<1>1. n \in Nat /\ DOMAIN chain = 1 .. n
  BY LenProperties
<1>2. /\ longer \in Seq(S)
      /\ DOMAIN longer = 1 .. n + 1
      /\ \A i \in 1 .. n + 1 : longer[i] = IF i = 1 THEN h ELSE chain[i - 1]
  BY <1>1, ConcatProperties, LenProperties
<1> HIDE DEF longer
<1>3. IsInjective(longer)
  BY <1>1, <1>2, SMTT(30) DEF IsInjective, Range
<1>4. Range(chain) \cup {h} \subseteq Range(longer)
  <2>1. \A i \in 1 .. n : i + 1 \in 1 .. n + 1 /\ longer[i + 1] = chain[i]
    BY <1>1, <1>2
  <2>2. 1 \in 1 .. n + 1 /\ longer[1] = h
    BY <1>1, <1>2
  <2> QED
    BY <2>1, <2>2, <1>1, <1>2 DEF Range
<1>5. Range(longer) \subseteq Range(chain) \cup {h}
  BY <1>1, <1>2 DEF Range
<1> QED
  BY <1>2, <1>3, <1>4, <1>5 DEF longer

-----------------------------------------------------------------------------
(***************************************************************************)
(* Every operator of ObjectStore but Sync changes one holder h and the     *)
(* chains of one bucket b, and those only in whether h is on them.         *)
(***************************************************************************)
Moved(s, t, h, b) ==
  /\ t.heap = s.heap \cup {h}
  /\ \A g \in Holder : g # h => t.obj[g] = s.obj[g]
  /\ \A c \in Bucket : c # b =>
       /\ t.active[c] = s.active[c] /\ t.inactive[c] = s.inactive[c]
       /\ h \notin s.active[c] /\ h \notin Range(s.inactive[c])
  /\ t.active[b] \ {h} = s.active[b] \ {h}
  /\ Range(t.inactive[b]) \ {h} = Range(s.inactive[b]) \ {h}
  /\ IsInjective(t.inactive[b])

\* The place of h in t is one that ChainsOK allows.
WellPlaced(s, t, h, b) ==
  /\ h \in t.active[b] =>
       /\ t.obj[h].refs >= 1
       /\ t.obj[h].dbref # EMPTY
       /\ Hash(t.obj[h].dbref) = b
       /\ h \notin Range(t.inactive[b])
  /\ h \in Range(t.inactive[b]) /\ t.obj[h].dbref # EMPTY =>
       Hash(t.obj[h].dbref) = b /\ t.obj[h].dead = 0
  /\ h \in t.active[b] \cup Range(t.inactive[b]) /\ t.obj[h].dbref # EMPTY =>
       \A g \in Chained(s) \ {h} : s.obj[g].dbref # t.obj[h].dbref

\* A holder that moves between the chains of a bucket leaves every other
\* where it is.
LEMMA MovedElsewhere ==
  ASSUME NEW s \in Store, NEW t \in Store, NEW h \in Holder, NEW b \in Bucket,
         Moved(s, t, h, b)
  PROVE  /\ \A c \in Bucket, g \in Holder : g # h =>
              /\ g \in t.active[c] <=> g \in s.active[c]
              /\ g \in Range(t.inactive[c]) <=> g \in Range(s.inactive[c])
         /\ \A c \in Bucket : c # b => h \notin t.active[c] /\ h \notin Range(t.inactive[c])
         /\ h \in Active(t) <=> h \in t.active[b]
         /\ h \in Chained(t) <=> h \in t.active[b] \cup Range(t.inactive[b])
         /\ Active(t) \ {h} = Active(s) \ {h}
         /\ Chained(t) \ {h} = Chained(s) \ {h}
         /\ Chained(t) \subseteq Holder
         /\ \A g \in Holder \ {h} : References(t, g) = References(s, g)
<1>1. \A c \in Bucket, g \in Holder : g # h =>
              /\ g \in t.active[c] <=> g \in s.active[c]
              /\ g \in Range(t.inactive[c]) <=> g \in Range(s.inactive[c])
  BY DEF Moved
<1>2. \A c \in Bucket : c # b => h \notin t.active[c] /\ h \notin Range(t.inactive[c])
  BY DEF Moved
<1>3. \A c \in Bucket : /\ s.active[c] \subseteq Holder /\ Range(s.inactive[c]) \subseteq Holder
                       /\ t.active[c] \subseteq Holder /\ Range(t.inactive[c]) \subseteq Holder
  BY RangeOfSeq DEF Store
<1>4. h \in Active(t) <=> h \in t.active[b]
  BY <1>2 DEF Active
<1>5. h \in Inactive(t) <=> h \in Range(t.inactive[b])
  BY <1>2 DEF Inactive
<1>6. Active(t) \ {h} = Active(s) \ {h}
  BY <1>1, <1>3 DEF Active
<1>7. Inactive(t) \ {h} = Inactive(s) \ {h}
  BY <1>1, <1>3 DEF Inactive
<1>8. Chained(t) \subseteq Holder
  BY <1>3 DEF Chained, Active, Inactive
<1>9. \A g \in Holder \ {h} : References(t, g) = References(s, g)
  BY <1>6 DEF References, Moved
<1> QED
  BY <1>1, <1>2, <1>4, <1>5, <1>6, <1>7, <1>8, <1>9 DEF Chained

\* The chains stay in order when the holder that moves is in its place.
LEMMA MovedChainsOK ==
  ASSUME NEW s \in Store, NEW t \in Store, NEW h \in Holder, NEW b \in Bucket,
         ChainsOK(s), Moved(s, t, h, b), WellPlaced(s, t, h, b)
  PROVE  ChainsOK(t)
<1>1. /\ \A c \in Bucket, g \in Holder : g # h =>
            /\ g \in t.active[c] <=> g \in s.active[c]
            /\ g \in Range(t.inactive[c]) <=> g \in Range(s.inactive[c])
      /\ \A c \in Bucket : c # b => h \notin t.active[c] /\ h \notin Range(t.inactive[c])
      /\ h \in Chained(t) <=> h \in t.active[b] \cup Range(t.inactive[b])
      /\ Chained(t) \ {h} = Chained(s) \ {h}
      /\ Chained(t) \subseteq Holder
  BY MovedElsewhere
<1>2. \A g \in Holder : g # h => t.obj[g] = s.obj[g]
  BY DEF Moved
<1>3. \A c \in Bucket : t.active[c] \subseteq Holder /\ Range(t.inactive[c]) \subseteq Holder
  BY RangeOfSeq DEF Store
<1>4. ActiveOK(t)
  BY <1>1, <1>2, <1>3 DEF ChainsOK, ActiveOK, WellPlaced
<1>5. InactiveOK(t)
  <2>1. \A c \in Bucket : IsInjective(t.inactive[c])
    BY DEF ChainsOK, InactiveOK, Moved
  <2>2. ASSUME NEW c \in Bucket, NEW g \in Range(t.inactive[c]), t.obj[g].dbref # EMPTY
        PROVE  Hash(t.obj[g].dbref) = c /\ t.obj[g].dead = 0
    BY <2>2, <1>1, <1>2, <1>3 DEF ChainsOK, InactiveOK, WellPlaced
  <2> QED
    BY <2>1, <2>2 DEF InactiveOK
<1>6. ChainsDisjoint(t)
  <2>1. ASSUME NEW c \in Bucket, NEW d \in Bucket, NEW g \in t.active[c], g \in Range(t.inactive[d])
        PROVE  FALSE
    BY <2>1, <1>1, <1>3 DEF ChainsOK, ChainsDisjoint, WellPlaced
  <2>2. ASSUME NEW c \in Bucket, NEW d \in Bucket, c # d, NEW g \in Range(t.inactive[c]),
               g \in Range(t.inactive[d])
        PROVE  FALSE
    BY <2>2, <1>1, <1>3 DEF ChainsOK, ChainsDisjoint
  <2> QED
    BY <2>1, <2>2 DEF ChainsDisjoint
<1>7. OneHolder(t)
  BY <1>1, <1>2 DEF ChainsOK, OneHolder, WellPlaced
<1>8. Chained(t) \subseteq t.heap
  BY <1>1 DEF ChainsOK, Moved
<1> QED
  BY <1>4, <1>5, <1>6, <1>7, <1>8 DEF ChainsOK

-----------------------------------------------------------------------------
(***************************************************************************)
(* What the operators have in common.  Sound(s, t): the store t that an    *)
(* operator leaves is well formed when s is; an object that was referenced *)
(* kept its holder; no object came into being or was marked dead; a holder *)
(* outside the chains stayed outside; and nothing but a dead object left   *)
(* the disk.  Effect(s, t, h, n): besides, h has gained n references, and  *)
(* no other holder any.                                                    *)
(***************************************************************************)
Existing(s) ==
  {d \in Dbref : s.disk[d] # NoImage \/ \E h \in Chained(s) : s.obj[h].dbref = d}

DeadDbrefs(s) == {s.obj[h].dbref : h \in {g \in Active(s) : s.obj[g].dead = 1}}

Sound(s, t) ==
  /\ t \in Store
  /\ ChainsOK(t)
  /\ \A g \in Active(s) : t.obj[g].dbref = s.obj[g].dbref
  /\ Existing(t) \subseteq Existing(s)
  /\ \A g \in Active(t) : t.obj[g].dead = 1 => g \in Active(s) /\ s.obj[g].dead = 1
  /\ \A g \in s.heap \ Chained(s) : g \in t.heap \ Chained(t) /\ t.obj[g] = s.obj[g]
  /\ \A d \in Dbref : s.disk[d] # NoImage => t.disk[d] # NoImage \/ d \in DeadDbrefs(s)

Effect(s, t, h, n) ==
  /\ Sound(s, t)
  /\ \A g \in Holder : References(t, g) = References(s, g) + (IF g = h THEN n ELSE 0)

\* Every dbref has a bucket.
LEMMA HashType == \A d \in Int : Hash(d) \in Bucket
BY CacheAssumption DEF Hash, Bucket

\* The types of the parts of a store.
LEMMA StoreTypes ==
  ASSUME NEW s \in Store
  PROVE  /\ Chained(s) \subseteq Holder
         /\ Active(s) \subseteq Chained(s)
         /\ \A h \in Holder : References(s, h) \in Int
         /\ \A h \in Holder : s.obj[h] \in Record
         /\ \A h \in Holder : s.obj[h].dbref \in Int
         /\ \A b \in Bucket : s.active[b] \subseteq Active(s)
         /\ \A b \in Bucket : Range(s.inactive[b]) \subseteq Chained(s)
<1>1. \A b \in Bucket : s.active[b] \subseteq Holder /\ Range(s.inactive[b]) \subseteq Holder
  BY RangeOfSeq DEF Store
<1>2. Chained(s) \subseteq Holder /\ Active(s) \subseteq Chained(s)
  BY <1>1 DEF Chained, Active, Inactive
<1>3. \A h \in Holder : s.obj[h] \in Record
  BY DEF Store
<1>4. \A h \in Holder : s.obj[h].dbref \in Int /\ s.obj[h].refs \in Int
  BY <1>3, CacheAssumption DEF Record, Dbref, EMPTY
<1>5. \A h \in Holder : References(s, h) \in Int
  BY <1>4 DEF References
<1> QED
  BY <1>1, <1>2, <1>3, <1>4, <1>5 DEF Chained, Active, Inactive

\* An active holder has an object, is in its bucket, and has a reference.
LEMMA ActiveHolder ==
  ASSUME NEW s \in Store, ChainsOK(s), NEW h \in Active(s)
  PROVE  /\ h \in Holder
         /\ s.obj[h].dbref \in Dbref
         /\ Hash(s.obj[h].dbref) \in Bucket
         /\ h \in s.active[Hash(s.obj[h].dbref)]
         /\ h \notin Inactive(s)
         /\ \A b \in Bucket : b # Hash(s.obj[h].dbref) => h \notin s.active[b]
         /\ s.obj[h].refs >= 1
         /\ h \in s.heap
<1>1. h \in Holder /\ h \in Chained(s)
  BY StoreTypes
<1>2. PICK b \in Bucket : h \in s.active[b]
  BY DEF Active
<1>3. s.obj[h].dbref # EMPTY /\ Hash(s.obj[h].dbref) = b /\ s.obj[h].refs >= 1
  BY <1>2 DEF ChainsOK, ActiveOK
<1>4. s.obj[h].dbref \in Dbref
  BY <1>1, <1>3, StoreTypes DEF Record
<1>5. h \notin Inactive(s)
  BY <1>2 DEF ChainsOK, ChainsDisjoint, Inactive
<1>6. \A c \in Bucket : c # b => h \notin s.active[c]
  BY <1>3 DEF ChainsOK, ActiveOK
<1> QED
  BY <1>1, <1>2, <1>3, <1>4, <1>5, <1>6 DEF ChainsOK

(***************************************************************************)
(* Writing fields of an active holder moves nothing.                       *)
(***************************************************************************)
LEMMA RewriteEffect ==
  ASSUME NEW s \in Store, ChainsOK(s), NEW h \in Active(s), NEW r \in Record,
         r.dbref = s.obj[h].dbref, r.refs >= 1, r.dead = s.obj[h].dead
  PROVE  LET t == [s EXCEPT !.obj = [s.obj EXCEPT ![h] = r]]
         IN  Effect(s, t, h, r.refs - s.obj[h].refs) /\ Active(t) = Active(s)
<1> DEFINE b == Hash(s.obj[h].dbref)
           t == [s EXCEPT !.obj = [s.obj EXCEPT ![h] = r]]
<1>1. /\ h \in Holder /\ b \in Bucket /\ h \in s.active[b] /\ h \notin Inactive(s)
      /\ \A c \in Bucket : c # b => h \notin s.active[c]
      /\ h \in s.heap /\ s.obj[h].dbref \in Dbref
  BY ActiveHolder
<1>2. t \in Store
  BY <1>1 DEF Store
<1>3. /\ t.active = s.active /\ t.inactive = s.inactive /\ t.heap = s.heap /\ t.disk = s.disk
      /\ \A g \in Holder : t.obj[g] = IF g = h THEN r ELSE s.obj[g]
  BY <1>1 DEF Store
<1> HIDE DEF t
<1>4. Active(t) = Active(s) /\ Chained(t) = Chained(s)
  BY <1>3 DEF Active, Chained, Inactive
<1>5. Moved(s, t, h, b)
  BY <1>1, <1>3 DEF Moved, Inactive, ChainsOK, InactiveOK
<1>6. WellPlaced(s, t, h, b)
  BY <1>1, <1>3, StoreTypes DEF WellPlaced, ChainsOK, ActiveOK, OneHolder, Inactive
<1>7. ChainsOK(t)
  BY <1>1, <1>2, <1>5, <1>6, MovedChainsOK
<1>8. \A g \in Holder : References(t, g) = References(s, g) + (IF g = h THEN r.refs - s.obj[h].refs ELSE 0)
  BY <1>1, <1>3, <1>4, StoreTypes DEF References, Record
<1>9. Existing(t) \subseteq Existing(s)
  BY <1>1, <1>3, <1>4, StoreTypes DEF Existing
<1> QED
  BY <1>1, <1>2, <1>3, <1>4, <1>7, <1>8, <1>9, StoreTypes DEF Effect, Sound, t

(***************************************************************************)
(* cache_get_holder() for an object that no chain holds.                   *)
(***************************************************************************)
LEMMA VictimPlace ==
  ASSUME NEW s \in Store, ChainsOK(s), NEW d \in Dbref, CanGetHolder(s, d)
  PROVE  LET h == Victim(s, d)
             b == Hash(d)
             front == SubSeq(s.inactive[b], 1, Len(s.inactive[b]) - 1)
             rest == IF s.inactive[b] = <<>> THEN <<>> ELSE front
         IN  /\ h \in Holder /\ h \notin Active(s) /\ b \in Bucket
             /\ h \in Chained(s) \/ h \notin s.heap
             /\ \A c \in Bucket : c # b => h \notin Range(s.inactive[c])
             /\ rest \in Seq(Holder) /\ IsInjective(rest)
             /\ Range(rest) = Range(s.inactive[b]) \ {h}
<1> DEFINE h == Victim(s, d)
           b == Hash(d)
           chain == s.inactive[b]
           front == SubSeq(chain, 1, Len(chain) - 1)
<1>1. b \in Bucket /\ chain \in Seq(Holder) /\ IsInjective(chain)
  BY HashType, CacheAssumption DEF Store, ChainsOK, InactiveOK, Dbref
<1>2. CASE chain # <<>>
  <2>1. /\ h = chain[Len(chain)]
        /\ front \in Seq(Holder) /\ IsInjective(front)
        /\ Range(front) = Range(chain) \ {h}
        /\ h \in Range(chain)
    BY <1>1, <1>2, ChainFront DEF Victim
  <2>2. h \in Chained(s) /\ h \in Holder
    BY <1>1, <2>1, StoreTypes
  <2>3. h \notin Active(s) /\ \A c \in Bucket : c # b => h \notin Range(s.inactive[c])
    BY <1>1, <2>1 DEF Active, ChainsOK, ChainsDisjoint
  <2> QED
    BY <1>1, <1>2, <2>1, <2>2, <2>3
<1>3. CASE chain = <<>>
  <2>1. h \in Holder \ s.heap
    BY <1>3 DEF Victim, CanGetHolder, Store
  <2>2. h \notin Chained(s)
    BY <2>1 DEF ChainsOK
  <2>3. h \notin Active(s) /\ \A c \in Bucket : h \notin Range(s.inactive[c])
    BY <2>2, StoreTypes
  <2>4. <<>> \in Seq(Holder) /\ IsInjective(<<>>) /\ Range(<<>>) = {}
    BY EmptySeq DEF IsInjective, Range
  <2> QED
    BY <1>1, <1>3, <2>1, <2>3, <2>4
<1> QED
  BY <1>2, <1>3

\* cache_get_holder() in full: the victim it takes, and what becomes of the
\* victim's object.
LEMMA GetHolderEffect ==
  ASSUME NEW s \in Store, ChainsOK(s), NEW d \in Dbref, NEW contents \in Image,
         CanGetHolder(s, d), \A g \in Chained(s) : s.obj[g].dbref # d
  PROVE  LET h == Victim(s, d)
             t == GetHolder(s, d, contents)
         IN  /\ t \in Store /\ ChainsOK(t)
             /\ h \in Active(t) /\ h \notin Active(s) /\ h \in Holder
             /\ h \in Chained(s) \/ h \notin s.heap
             /\ Active(t) \ {h} = Active(s)
             /\ Chained(t) = Chained(s) \cup {h}
             /\ t.heap = s.heap \cup {h}
             /\ t.obj = [s.obj EXCEPT ![h] = [dbref |-> d, refs |-> 1, dirty |-> 0,
                                              dead |-> 0, data |-> contents]]
             /\ t.disk = WriteBack(s, h)
<1> DEFINE h == Victim(s, d)
           b == Hash(d)
           r == [dbref |-> d, refs |-> 1, dirty |-> 0, dead |-> 0, data |-> contents]
           rest == IF s.inactive[b] = <<>> THEN <<>>
                   ELSE SubSeq(s.inactive[b], 1, Len(s.inactive[b]) - 1)
           t == GetHolder(s, d, contents)
<1>1. /\ h \in Holder /\ h \notin Active(s) /\ b \in Bucket
      /\ h \in Chained(s) \/ h \notin s.heap
      /\ \A c \in Bucket : c # b => h \notin Range(s.inactive[c])
      /\ rest \in Seq(Holder) /\ IsInjective(rest)
      /\ Range(rest) = Range(s.inactive[b]) \ {h}
  BY VictimPlace
<1> HIDE DEF h, rest
<1>2. t = [obj      |-> [s.obj EXCEPT ![h] = r],
           active   |-> [s.active EXCEPT ![b] = s.active[b] \cup {h}],
           inactive |-> [s.inactive EXCEPT ![b] = rest],
           heap     |-> s.heap \cup {h},
           disk     |-> WriteBack(s, h)]
  BY <1>1 DEF GetHolder, h, rest, Store
<1> HIDE DEF t
<1>3. r \in Record /\ r.dbref # EMPTY
  BY CacheAssumption DEF Record, Dbref, EMPTY
<1>4. s.obj[h].data \in Image
  BY <1>1, StoreTypes DEF Record
<1>5. WriteBack(s, h) \in [Dbref -> Image \cup {NoImage}]
  BY <1>1, <1>4 DEF WriteBack, Store
<1>6. t \in Store
  BY <1>1, <1>2, <1>3, <1>5 DEF Store
<1>7. /\ t.active[b] = s.active[b] \cup {h} /\ t.inactive[b] = rest
      /\ \A c \in Bucket : c # b => t.active[c] = s.active[c] /\ t.inactive[c] = s.inactive[c]
      /\ t.heap = s.heap \cup {h}
      /\ t.obj[h] = r
      /\ \A g \in Holder : g # h => t.obj[g] = s.obj[g]
  BY <1>1, <1>2 DEF Store
<1> HIDE DEF r
<1>8. \A c \in Bucket : h \notin s.active[c]
  BY <1>1 DEF Active
<1>9. Moved(s, t, h, b)
  BY <1>1, <1>7, <1>8 DEF Moved
<1>10. WellPlaced(s, t, h, b)
  BY <1>1, <1>3, <1>7 DEF WellPlaced, r
<1>11. ChainsOK(t)
  BY <1>1, <1>6, <1>9, <1>10, MovedChainsOK
<1>12. /\ h \in Active(t) /\ Active(t) \ {h} = Active(s) \ {h}
       /\ h \in Chained(t) /\ Chained(t) \ {h} = Chained(s) \ {h}
  BY <1>1, <1>6, <1>7, <1>9, MovedElsewhere
<1>13. /\ Active(t) \ {h} = Active(s)
       /\ Chained(t) = Chained(s) \cup {h}
       /\ t.heap = s.heap \cup {h}
       /\ t.obj = [s.obj EXCEPT ![h] = [dbref |-> d, refs |-> 1, dirty |-> 0,
                                        dead |-> 0, data |-> contents]]
       /\ t.disk = WriteBack(s, h)
  BY <1>1, <1>2, <1>12 DEF r
<1>14. /\ t \in Store /\ ChainsOK(t)
       /\ h \in Active(t) /\ h \notin Active(s) /\ h \in Holder
       /\ h \in Chained(s) \/ h \notin s.heap
  BY <1>1, <1>6, <1>11, <1>12
<1> QED
  BY <1>13, <1>14 DEF h, t

\* Writing a victim back loses no object, and invents none.
LEMMA WriteBackDisk ==
  ASSUME NEW s \in Store, ChainsOK(s), NEW h \in Holder, h \in Chained(s) \/ h \notin s.heap
  PROVE  /\ \A d \in Dbref : s.disk[d] # NoImage => WriteBack(s, h)[d] # NoImage
         /\ \A d \in Dbref : WriteBack(s, h)[d] # NoImage => d \in Existing(s)
<1>1. s.obj[h].data \in Image /\ s.obj[h].data # NoImage
  BY StoreTypes, CacheAssumption DEF Record
<1>2. s.disk \in [Dbref -> Image \cup {NoImage}]
  BY DEF Store
<1>3. \A d \in Dbref : s.disk[d] # NoImage => d \in Existing(s)
  BY DEF Existing
<1>4. CASE h \in s.heap /\ s.obj[h].dbref # EMPTY /\ s.obj[h].dirty = 1
  <2>1. s.obj[h].dbref \in Dbref /\ h \in Chained(s)
    BY <1>4, StoreTypes DEF Record
  <2>2. s.obj[h].dbref \in Existing(s)
    BY <2>1 DEF Existing
  <2>3. WriteBack(s, h) = [s.disk EXCEPT ![s.obj[h].dbref] = s.obj[h].data]
    BY <1>4 DEF WriteBack
  <2> QED
    BY <1>1, <1>2, <1>3, <2>1, <2>2, <2>3
<1>5. CASE ~(h \in s.heap /\ s.obj[h].dbref # EMPTY /\ s.obj[h].dirty = 1)
  BY <1>3, <1>5 DEF WriteBack
<1> QED
  BY <1>4, <1>5

(***************************************************************************)
(* cache_retrieve(), case by case.                                         *)
(***************************************************************************)
LEMMA NoHits ==
  ASSUME NEW s \in Store, ChainsOK(s), NEW d \in Dbref,
         ActiveHits(s, d) = {}, InactiveHits(s, d) = {}
  PROVE  \A g \in Chained(s) : s.obj[g].dbref # d
<1> SUFFICES ASSUME NEW g \in Chained(s), s.obj[g].dbref = d
             PROVE  FALSE
  OBVIOUS
<1>1. d # EMPTY
  BY CacheAssumption DEF Dbref, EMPTY
<1>2. CASE g \in Active(s)
  BY <1>2, ActiveHolder DEF ActiveHits
<1>3. CASE g \in Inactive(s)
  <2>1. PICK b \in Bucket : g \in Range(s.inactive[b])
    BY <1>3 DEF Inactive
  <2>2. b = Hash(d)
    BY <2>1, <1>1 DEF ChainsOK, InactiveOK
  <2> QED
    BY <2>1, <2>2 DEF InactiveHits
<1> QED
  BY <1>2, <1>3 DEF Chained

\* Loading an object from disk leaves one reference to it.
LEMMA LoadEffect ==
  ASSUME NEW s \in Store, ChainsOK(s), NEW d \in Dbref, CanGetHolder(s, d),
         ActiveHits(s, d) = {}, InactiveHits(s, d) = {}, s.disk[d] # NoImage
  PROVE  LET h == Victim(s, d)
             t == Load(s, d)
         IN  Effect(s, t, h, 1) /\ h \in Active(t) /\ t.obj[h].dbref = d /\ t.obj[h].dead = 0
<1> DEFINE h == Victim(s, d)
           t == Load(s, d)
<1>1. s.disk[d] \in Image
  BY DEF Store
<1>2. \A g \in Chained(s) : s.obj[g].dbref # d
  BY NoHits
<1>3. /\ t \in Store /\ ChainsOK(t)
      /\ h \in Active(t) /\ h \notin Active(s) /\ h \in Holder
      /\ h \in Chained(s) \/ h \notin s.heap
      /\ Active(t) \ {h} = Active(s)
      /\ Chained(t) = Chained(s) \cup {h}
      /\ t.heap = s.heap \cup {h}
      /\ t.obj = [s.obj EXCEPT ![h] = [dbref |-> d, refs |-> 1, dirty |-> 0,
                                       dead |-> 0, data |-> s.disk[d]]]
      /\ t.disk = WriteBack(s, h)
  BY <1>1, <1>2, GetHolderEffect DEF Load
<1> HIDE DEF h, t
<1>4. /\ t.obj[h].dbref = d /\ t.obj[h].refs = 1 /\ t.obj[h].dead = 0
      /\ \A g \in Holder : g # h => t.obj[g] = s.obj[g]
  BY <1>3 DEF Store
<1>5. \A g \in Holder : References(t, g) = References(s, g) + (IF g = h THEN 1 ELSE 0)
  BY <1>3, <1>4, StoreTypes DEF References
<1>6. Existing(t) \subseteq Existing(s)
  BY <1>3, <1>4, WriteBackDisk, StoreTypes DEF Existing
<1>7. \A g \in Active(t) : t.obj[g].dead = 1 => g \in Active(s) /\ s.obj[g].dead = 1
  BY <1>3, <1>4, StoreTypes
<1>8. \A g \in s.heap \ Chained(s) : g \in t.heap \ Chained(t) /\ t.obj[g] = s.obj[g]
  BY <1>3, <1>4 DEF Store
<1>9. \A g \in Active(s) : t.obj[g].dbref = s.obj[g].dbref
  BY <1>3, <1>4, StoreTypes
<1>10. Effect(s, t, h, 1)
  BY <1>3, <1>5, <1>6, <1>7, <1>8, <1>9, WriteBackDisk DEF Effect, Sound
<1> QED
  BY <1>3, <1>4, <1>10 DEF h, t

\* The holders that the cache begins with are well typed.
LEMMA BlankTypes == Blank \in Image /\ EmptyHolder \in Record
BY CacheAssumption, EmptySeq DEF Blank, Image, EmptyHolder, Record

\* Looking for an object that is not there costs a holder, and leaves no
\* reference.
LEMMA MissEffect ==
  ASSUME NEW s \in Store, ChainsOK(s), NEW d \in Dbref, CanGetHolder(s, d),
         ActiveHits(s, d) = {}, InactiveHits(s, d) = {}
  PROVE  Effect(s, Miss(s, d), Victim(s, d), 0)
<1> DEFINE h == Victim(s, d)
           b == Hash(d)
           u == GetHolder(s, d, Blank)
           t == Miss(s, d)
<1>1. \A g \in Chained(s) : s.obj[g].dbref # d
  BY NoHits
<1>2. /\ u \in Store /\ ChainsOK(u)
      /\ h \in Active(u) /\ h \notin Active(s) /\ h \in Holder
      /\ h \in Chained(s) \/ h \notin s.heap
      /\ Active(u) \ {h} = Active(s)
      /\ Chained(u) = Chained(s) \cup {h}
      /\ u.heap = s.heap \cup {h}
      /\ u.obj = [s.obj EXCEPT ![h] = [dbref |-> d, refs |-> 1, dirty |-> 0,
                                       dead |-> 0, data |-> Blank]]
      /\ u.disk = WriteBack(s, h)
  BY <1>1, BlankTypes, GetHolderEffect
<1> HIDE DEF h, u
<1>3. u.obj[h].dbref = d /\ \A g \in Holder : g # h => u.obj[g] = s.obj[g]
  BY <1>2 DEF Store
<1>4. /\ b \in Bucket /\ h \notin Inactive(u) /\ h \in u.heap
      /\ \A c \in Bucket : c # b => h \notin u.active[c]
  BY <1>2, <1>3, ActiveHolder
<1>5. \A c \in Bucket : h \notin Range(u.inactive[c])
  BY <1>4 DEF Inactive
<1>6. u.inactive[b] \in Seq(Holder) /\ IsInjective(u.inactive[b])
  BY <1>2, <1>4 DEF Store, ChainsOK, InactiveOK
<1>7. /\ Append(u.inactive[b], h) \in Seq(Holder)
      /\ IsInjective(Append(u.inactive[b], h))
      /\ Range(Append(u.inactive[b], h)) = Range(u.inactive[b]) \cup {h}
  BY <1>2, <1>5, <1>4, <1>6, ChainAppend
<1>8. t = [u EXCEPT !.obj = [u.obj EXCEPT ![h] = EmptyHolder],
                    !.active = [u.active EXCEPT ![b] = u.active[b] \ {h}],
                    !.inactive = [u.inactive EXCEPT ![b] = Append(u.inactive[b], h)]]
  BY <1>2, <1>4 DEF Miss, h, u, Store
<1> HIDE DEF t
<1>9. t \in Store
  BY <1>2, <1>4, <1>7, <1>8, BlankTypes DEF Store
<1>10. /\ t.obj[h] = EmptyHolder
       /\ \A g \in Holder : g # h => t.obj[g] = u.obj[g]
       /\ t.active[b] = u.active[b] \ {h} /\ t.inactive[b] = Append(u.inactive[b], h)
       /\ \A c \in Bucket : c # b => t.active[c] = u.active[c] /\ t.inactive[c] = u.inactive[c]
       /\ t.heap = u.heap /\ t.disk = u.disk
  BY <1>2, <1>4, <1>8 DEF Store
<1>11. Moved(u, t, h, b)
  BY <1>4, <1>5, <1>7, <1>10 DEF Moved
<1>12. WellPlaced(u, t, h, b)
  BY <1>10 DEF WellPlaced, EmptyHolder
<1>13. ChainsOK(t)
  BY <1>2, <1>4, <1>9, <1>11, <1>12, MovedChainsOK
<1>14. /\ h \notin Active(t) /\ Active(t) \ {h} = Active(u) \ {h}
       /\ h \in Chained(t) /\ Chained(t) \ {h} = Chained(u) \ {h}
  <2>1. /\ h \in Active(t) <=> h \in t.active[b]
        /\ h \in Chained(t) <=> h \in t.active[b] \cup Range(t.inactive[b])
        /\ Active(t) \ {h} = Active(u) \ {h}
        /\ Chained(t) \ {h} = Chained(u) \ {h}
    BY <1>2, <1>4, <1>9, <1>11, MovedElsewhere
  <2> QED
    BY <2>1, <1>7, <1>10
<1>15. Active(t) = Active(s) /\ Chained(t) = Chained(s) \cup {h}
  BY <1>2, <1>14
<1>16. /\ t.obj[h].dbref = EMPTY /\ t.obj[h].dead = 0
       /\ \A g \in Holder : g # h => t.obj[g] = s.obj[g]
  BY <1>3, <1>10 DEF EmptyHolder
<1>17. \A g \in Holder : References(t, g) = References(s, g) + (IF g = h THEN 0 ELSE 0)
  BY <1>2, <1>15, <1>16, StoreTypes DEF References
<1>18. Existing(t) \subseteq Existing(s)
  <2>1. EMPTY \notin Dbref
    BY CacheAssumption DEF EMPTY, Dbref
  <2> QED
    BY <2>1, <1>2, <1>10, <1>15, <1>16, WriteBackDisk, StoreTypes DEF Existing
<1>19. \A g \in s.heap \ Chained(s) : g \in t.heap \ Chained(t) /\ t.obj[g] = s.obj[g]
  BY <1>2, <1>10, <1>15, <1>16 DEF Store
<1>20. Effect(s, t, h, 0)
  BY <1>2, <1>9, <1>10, <1>13, <1>15, <1>16, <1>17, <1>18, <1>19, WriteBackDisk, StoreTypes DEF Effect, Sound
<1> QED
  BY <1>20 DEF h, t

\* What a retrieval that finds object d leaves: an extra reference to it.
FoundBy(s, t, h, d) ==
  /\ Effect(s, t, h, 1)
  /\ h \in Active(t)
  /\ t.obj[h].dbref = d
  /\ \/ h \in Active(s) /\ t.obj[h].refs = s.obj[h].refs + 1
     \/ h \notin Active(s) /\ t.obj[h].dead = 0

\* Finding an object in an inactive chain.
LEMMA ActivateEffect ==
  ASSUME NEW s \in Store, ChainsOK(s), NEW d \in Dbref, NEW h \in InactiveHits(s, d),
         ActiveHits(s, d) = {}
  PROVE  FoundBy(s, Activate(s, h, Hash(d)), h, d)
<1> DEFINE b == Hash(d)
           t == Activate(s, h, b)
           r == [s.obj[h] EXCEPT !.refs = 1]
<1>1. b \in Bucket /\ h \in Range(s.inactive[b]) /\ s.obj[h].dbref = d /\ d # EMPTY
  BY HashType, CacheAssumption DEF InactiveHits, Dbref, EMPTY
<1>2. h \in Holder /\ h \in Chained(s) /\ s.obj[h] \in Record /\ h \in s.heap
  BY <1>1, StoreTypes DEF ChainsOK
<1>3. \A c \in Bucket : h \notin s.active[c] /\ (c # b => h \notin Range(s.inactive[c]))
  BY <1>1 DEF ChainsOK, ChainsDisjoint
<1>4. s.inactive[b] \in Seq(Holder) /\ IsInjective(s.inactive[b])
  BY <1>1 DEF Store, ChainsOK, InactiveOK
<1>5. /\ Unlink(s.inactive[b], h) \in Seq(Holder)
      /\ IsInjective(Unlink(s.inactive[b], h))
      /\ Range(Unlink(s.inactive[b], h)) = Range(s.inactive[b]) \ {h}
  BY <1>1, <1>4, ChainUnlink
<1>6. r \in Record /\ r.refs = 1 /\ r.dbref = d /\ r.dead = 0
  BY <1>1, <1>2 DEF Record, ChainsOK, InactiveOK
<1>7. t = [s EXCEPT !.obj = [s.obj EXCEPT ![h] = r],
                    !.active = [s.active EXCEPT ![b] = s.active[b] \cup {h}],
                    !.inactive = [s.inactive EXCEPT ![b] = Unlink(s.inactive[b], h)]]
  BY <1>1, <1>2 DEF Activate, Store
<1> HIDE DEF t, r, b
<1>8. t \in Store
  BY <1>1, <1>2, <1>5, <1>6, <1>7 DEF Store
<1>9. /\ t.obj[h] = r
      /\ \A g \in Holder : g # h => t.obj[g] = s.obj[g]
      /\ t.active[b] = s.active[b] \cup {h} /\ t.inactive[b] = Unlink(s.inactive[b], h)
      /\ \A c \in Bucket : c # b => t.active[c] = s.active[c] /\ t.inactive[c] = s.inactive[c]
      /\ t.heap = s.heap /\ t.disk = s.disk
  BY <1>1, <1>2, <1>7 DEF Store
<1>10. Moved(s, t, h, b)
  BY <1>2, <1>3, <1>5, <1>9 DEF Moved
<1>11. WellPlaced(s, t, h, b)
  <2>1. \A g \in Chained(s) \ {h} : s.obj[g].dbref # d
    BY <1>1, <1>2 DEF ChainsOK, OneHolder
  <2> QED
    BY <2>1, <1>1, <1>5, <1>6, <1>9 DEF WellPlaced, b
<1>12. ChainsOK(t)
  BY <1>1, <1>2, <1>8, <1>10, <1>11, MovedChainsOK
<1>13. /\ h \in Active(t) /\ Active(t) \ {h} = Active(s) \ {h}
       /\ h \in Chained(t) /\ Chained(t) \ {h} = Chained(s) \ {h}
  <2>1. /\ h \in Active(t) <=> h \in t.active[b]
        /\ h \in Chained(t) <=> h \in t.active[b] \cup Range(t.inactive[b])
        /\ Active(t) \ {h} = Active(s) \ {h}
        /\ Chained(t) \ {h} = Chained(s) \ {h}
    BY <1>1, <1>2, <1>8, <1>10, MovedElsewhere
  <2> QED
    BY <2>1, <1>9
<1>14. h \notin Active(s) /\ Active(t) = Active(s) \cup {h} /\ Chained(t) = Chained(s)
  <2>1. h \notin Active(s)
    BY <1>3 DEF Active
  <2> QED
    BY <2>1, <1>2, <1>13
<1>15. \A g \in Holder : References(t, g) = References(s, g) + (IF g = h THEN 1 ELSE 0)
  BY <1>6, <1>9, <1>14, StoreTypes DEF References
<1>16. Existing(t) \subseteq Existing(s)
  BY <1>1, <1>2, <1>6, <1>9, <1>14, StoreTypes DEF Existing
<1>17. \A g \in Active(t) : t.obj[g].dead = 1 => g \in Active(s) /\ s.obj[g].dead = 1
  BY <1>6, <1>9, <1>14, StoreTypes
<1>18. \A g \in s.heap \ Chained(s) : g \in t.heap \ Chained(t) /\ t.obj[g] = s.obj[g]
  BY <1>2, <1>9, <1>14 DEF Store
<1>19. Effect(s, t, h, 1)
  BY <1>8, <1>9, <1>12, <1>14, <1>15, <1>16, <1>17, <1>18, StoreTypes DEF Effect, Sound
<1> QED
  BY <1>6, <1>9, <1>13, <1>14, <1>19 DEF FoundBy, t, b

\* Finding an object in an active chain.
LEMMA GrabEffect ==
  ASSUME NEW s \in Store, ChainsOK(s), NEW h \in Active(s)
  PROVE  FoundBy(s, Grab(s, h), h, s.obj[h].dbref) /\ Active(Grab(s, h)) = Active(s)
<1> DEFINE r == [s.obj[h] EXCEPT !.refs = @ + 1]
           t == [s EXCEPT !.obj = [s.obj EXCEPT ![h] = r]]
<1>1. h \in Holder /\ s.obj[h] \in Record /\ s.obj[h].refs >= 1 /\ s.obj[h].refs \in Int
  BY ActiveHolder, StoreTypes DEF Record
<1>2. /\ r \in Record /\ r.refs = s.obj[h].refs + 1 /\ r.dbref = s.obj[h].dbref
      /\ r.dead = s.obj[h].dead
  BY <1>1 DEF Record
<1>3. r.refs >= 1 /\ r.refs - s.obj[h].refs = 1
  <2> HIDE DEF r
  <2> QED
    BY <1>1, <1>2
<1>4. t = Grab(s, h) /\ t.obj[h] = r
  BY <1>1 DEF Grab, Store
<1> HIDE DEF r
<1>5. Effect(s, t, h, 1) /\ Active(t) = Active(s)
  <2>1. Effect(s, t, h, r.refs - s.obj[h].refs) /\ Active(t) = Active(s)
    BY <1>2, <1>3, RewriteEffect
  <2> HIDE DEF t
  <2> QED
    BY <2>1, <1>3
<1> HIDE DEF t
<1> QED
  BY <1>2, <1>3, <1>4, <1>5 DEF FoundBy

\* cache_retrieve() of an existing object, wherever it is: exactly that object
\* gains a reference, and no other active object is touched.
THEOREM RetrieveFound ==
  ASSUME NEW s \in Store, ChainsOK(s), NEW d \in Dbref, CanRetrieve(s, d), Check(s, d)
  PROVE  FoundBy(s, Retrieve(s, d), Retrieved(s, d), d)
<1>1. CASE ActiveHits(s, d) # {}
  <2>1. Retrieved(s, d) \in ActiveHits(s, d) /\ Retrieve(s, d) = Grab(s, Retrieved(s, d))
    BY <1>1 DEF Retrieve, Retrieved
  <2>2. Retrieved(s, d) \in Active(s) /\ s.obj[Retrieved(s, d)].dbref = d
    BY <2>1, HashType, StoreTypes DEF ActiveHits, Dbref
  <2> QED
    BY <2>1, <2>2, GrabEffect
<1>2. CASE ActiveHits(s, d) = {} /\ InactiveHits(s, d) # {}
  <2>1. /\ Retrieved(s, d) \in InactiveHits(s, d)
        /\ Retrieve(s, d) = Activate(s, Retrieved(s, d), Hash(d))
    BY <1>2 DEF Retrieve, Retrieved
  <2> QED
    BY <2>1, <1>2, ActivateEffect
<1>3. CASE ActiveHits(s, d) = {} /\ InactiveHits(s, d) = {}
  <2>1. s.disk[d] # NoImage /\ CanGetHolder(s, d)
    BY <1>3 DEF Check, CanRetrieve
  <2>2. Retrieved(s, d) = Victim(s, d) /\ Retrieve(s, d) = Load(s, d)
    BY <1>3, <2>1 DEF Retrieve, Retrieved
  <2>3. /\ Effect(s, Load(s, d), Victim(s, d), 1)
        /\ Victim(s, d) \in Active(Load(s, d))
        /\ Load(s, d).obj[Victim(s, d)].dbref = d /\ Load(s, d).obj[Victim(s, d)].dead = 0
    BY <1>3, <2>1, LoadEffect
  <2>4. Victim(s, d) \notin Active(s)
    BY <2>1, VictimPlace
  <2> QED
    BY <2>2, <2>3, <2>4 DEF FoundBy
<1> QED
  BY <1>1, <1>2, <1>3

\* cache_retrieve() of a missing object evicts another one, and changes no
\* reference, no active object and no chain's consistency by that.
THEOREM RetrieveMissing ==
  ASSUME NEW s \in Store, ChainsOK(s), NEW d \in Dbref, CanRetrieve(s, d), ~Check(s, d)
  PROVE  Effect(s, Retrieve(s, d), Retrieved(s, d), 0)
<1>1. ActiveHits(s, d) = {} /\ InactiveHits(s, d) = {} /\ s.disk[d] = NoImage /\ CanGetHolder(s, d)
  BY DEF Check, CanRetrieve
<1>2. Retrieved(s, d) = Victim(s, d) /\ Retrieve(s, d) = Miss(s, d)
  BY <1>1 DEF Retrieve, Retrieved
<1> QED
  BY <1>1, <1>2, MissEffect

-----------------------------------------------------------------------------
(***************************************************************************)
(* cache_discard(): it gives back one reference, and whatever it does with *)
(* the holder is an Effect, also for a dead object's last reference.       *)
(***************************************************************************)
LEMMA ReleaseEffect ==
  ASSUME NEW s \in Store, ChainsOK(s), NEW h \in Active(s), s.obj[h].refs # 1
  PROVE  Effect(s, Discard(s, h), h, -1)
<1> DEFINE r == [s.obj[h] EXCEPT !.refs = @ - 1]
           t == [s EXCEPT !.obj = [s.obj EXCEPT ![h] = r]]
<1>1. h \in Holder /\ s.obj[h] \in Record /\ s.obj[h].refs >= 1 /\ s.obj[h].refs \in Int
  BY ActiveHolder, StoreTypes DEF Record
<1>2. /\ r \in Record /\ r.refs = s.obj[h].refs - 1 /\ r.dbref = s.obj[h].dbref
      /\ r.dead = s.obj[h].dead
  BY <1>1 DEF Record
<1>3. r.refs >= 1 /\ r.refs - s.obj[h].refs = -1
  <2> HIDE DEF r
  <2> QED
    BY <1>1, <1>2
<1>4. t = Discard(s, h)
  BY <1>1 DEF Discard, Store
<1> HIDE DEF r
<1>5. Effect(s, t, h, r.refs - s.obj[h].refs)
  BY <1>2, <1>3, RewriteEffect
<1> HIDE DEF t
<1> QED
  BY <1>3, <1>4, <1>5

\* The last reference of a live object: its holder becomes the most recent
\* one of the inactive chain.
LEMMA RetireEffect ==
  ASSUME NEW s \in Store, ChainsOK(s), NEW h \in Active(s), s.obj[h].refs = 1, s.obj[h].dead = 0
  PROVE  Effect(s, Discard(s, h), h, -1)
<1> DEFINE b == Hash(s.obj[h].dbref)
           r == [s.obj[h] EXCEPT !.refs = @ - 1]
           t == Discard(s, h)
<1>1. /\ h \in Holder /\ b \in Bucket /\ h \in s.active[b] /\ h \notin Inactive(s)
      /\ \A c \in Bucket : c # b => h \notin s.active[c]
      /\ h \in s.heap /\ s.obj[h].dbref \in Dbref /\ s.obj[h] \in Record
      /\ h \in Chained(s)
  BY ActiveHolder, StoreTypes
<1>2. r \in Record /\ r.refs = 0 /\ r.dbref = s.obj[h].dbref /\ r.dead = 0
  BY <1>1 DEF Record
<1>3. s.inactive[b] \in Seq(Holder) /\ IsInjective(s.inactive[b])
  BY <1>1 DEF Store, ChainsOK, InactiveOK
<1>4. \A c \in Bucket : h \notin Range(s.inactive[c])
  BY <1>1 DEF Inactive
<1>5. /\ <<h>> \o s.inactive[b] \in Seq(Holder)
      /\ IsInjective(<<h>> \o s.inactive[b])
      /\ Range(<<h>> \o s.inactive[b]) = Range(s.inactive[b]) \cup {h}
  BY <1>1, <1>3, <1>4, ChainPrepend
<1>6. t = [s EXCEPT !.obj = [s.obj EXCEPT ![h] = r],
                    !.active = [s.active EXCEPT ![b] = s.active[b] \ {h}],
                    !.inactive = [s.inactive EXCEPT ![b] = <<h>> \o s.inactive[b]]]
  BY <1>1 DEF Discard, Store
<1> HIDE DEF t, r
<1>7. t \in Store
  BY <1>1, <1>2, <1>5, <1>6 DEF Store
<1>8. /\ t.obj[h] = r
      /\ \A g \in Holder : g # h => t.obj[g] = s.obj[g]
      /\ t.active[b] = s.active[b] \ {h} /\ t.inactive[b] = <<h>> \o s.inactive[b]
      /\ \A c \in Bucket : c # b => t.active[c] = s.active[c] /\ t.inactive[c] = s.inactive[c]
      /\ t.heap = s.heap /\ t.disk = s.disk
  BY <1>1, <1>6 DEF Store
<1>9. Moved(s, t, h, b)
  BY <1>1, <1>4, <1>5, <1>8 DEF Moved
<1>10. WellPlaced(s, t, h, b)
  <2>1. \A g \in Chained(s) \ {h} : s.obj[g].dbref # s.obj[h].dbref
    BY <1>1, CacheAssumption DEF ChainsOK, OneHolder, Dbref, EMPTY
  <2> QED
    BY <2>1, <1>2, <1>8 DEF WellPlaced
<1> HIDE DEF b
<1>11. ChainsOK(t)
  BY <1>1, <1>7, <1>9, <1>10, MovedChainsOK
<1>12. /\ h \notin Active(t) /\ Active(t) \ {h} = Active(s) \ {h}
       /\ h \in Chained(t) /\ Chained(t) \ {h} = Chained(s) \ {h}
  <2>1. /\ h \in Active(t) <=> h \in t.active[b]
        /\ h \in Chained(t) <=> h \in t.active[b] \cup Range(t.inactive[b])
        /\ Active(t) \ {h} = Active(s) \ {h}
        /\ Chained(t) \ {h} = Chained(s) \ {h}
    BY <1>1, <1>7, <1>9, MovedElsewhere
  <2> QED
    BY <2>1, <1>5, <1>8
<1>13. Active(t) = Active(s) \ {h} /\ Chained(t) = Chained(s)
  BY <1>1, <1>12
<1>14. \A g \in Holder : References(t, g) = References(s, g) + (IF g = h THEN -1 ELSE 0)
  BY <1>8, <1>13, StoreTypes DEF References
<1>15. /\ Existing(t) \subseteq Existing(s)
       /\ \A g \in Active(t) : t.obj[g].dead = 1 => g \in Active(s) /\ s.obj[g].dead = 1
       /\ \A g \in s.heap \ Chained(s) : g \in t.heap \ Chained(t) /\ t.obj[g] = s.obj[g]
       /\ \A g \in Active(s) : t.obj[g].dbref = s.obj[g].dbref
  BY <1>1, <1>2, <1>8, <1>13, StoreTypes DEF Existing, Store
<1>16. Effect(s, t, h, -1)
  BY <1>7, <1>8, <1>11, <1>14, <1>15 DEF Effect, Sound
<1> QED
  BY <1>16 DEF t

\* The last reference of a dead object: it leaves the cache and the disk.
Gone(t, h) ==
  /\ h \in t.heap \ Chained(t)
  /\ t.obj[h].dbref \in Dbref
  /\ t.obj[h].dbref \notin Existing(t)

\* The cache_discard() that kills an object, up to object_destroy(): the object
\* is in no chain, and its dbref is neither in the cache nor on disk.
THEOREM DeathEffect ==
  ASSUME NEW s \in Store, ChainsOK(s), NEW h \in Active(s), Dies(s, h)
  PROVE  Effect(s, Discard(s, h), h, -1) /\ Gone(Discard(s, h), h)
<1> DEFINE b == Hash(s.obj[h].dbref)
           r == [s.obj[h] EXCEPT !.refs = @ - 1]
           t == Discard(s, h)
<1>1. /\ h \in Holder /\ b \in Bucket /\ h \in s.active[b] /\ h \notin Inactive(s)
      /\ \A c \in Bucket : c # b => h \notin s.active[c]
      /\ h \in s.heap /\ s.obj[h].dbref \in Dbref /\ s.obj[h] \in Record
      /\ h \in Chained(s)
  BY ActiveHolder, StoreTypes
<1>2. r \in Record /\ r.refs = 0 /\ r.dbref = s.obj[h].dbref
  BY <1>1 DEF Record, Dies
<1>3. \A c \in Bucket : h \notin Range(s.inactive[c])
  BY <1>1 DEF Inactive
<1>4. t = [s EXCEPT !.obj = [s.obj EXCEPT ![h] = r],
                    !.active = [s.active EXCEPT ![b] = s.active[b] \ {h}],
                    !.disk = [s.disk EXCEPT ![s.obj[h].dbref] = NoImage]]
  BY <1>1 DEF Discard, Store, Dies
<1> HIDE DEF t, r
<1>5. t \in Store
  BY <1>1, <1>2, <1>4 DEF Store
<1>6. /\ t.obj[h] = r
      /\ \A g \in Holder : g # h => t.obj[g] = s.obj[g]
      /\ t.active[b] = s.active[b] \ {h}
      /\ \A c \in Bucket : c # b => t.active[c] = s.active[c]
      /\ t.inactive = s.inactive
      /\ t.heap = s.heap
      /\ \A d \in Dbref : t.disk[d] = IF d = s.obj[h].dbref THEN NoImage ELSE s.disk[d]
  BY <1>1, <1>4 DEF Store
<1>7. Moved(s, t, h, b)
  BY <1>1, <1>3, <1>6 DEF Moved, ChainsOK, InactiveOK
<1>8. WellPlaced(s, t, h, b)
  BY <1>1, <1>3, <1>6 DEF WellPlaced
<1>9. \A g \in Chained(s) \ {h} : s.obj[g].dbref # s.obj[h].dbref
  BY <1>1, CacheAssumption DEF ChainsOK, OneHolder, Dbref, EMPTY
<1> HIDE DEF b
<1>10. ChainsOK(t)
  BY <1>1, <1>5, <1>7, <1>8, MovedChainsOK
<1>11. /\ h \notin Active(t) /\ Active(t) \ {h} = Active(s) \ {h}
       /\ h \notin Chained(t) /\ Chained(t) \ {h} = Chained(s) \ {h}
  <2>1. /\ h \in Active(t) <=> h \in t.active[b]
        /\ h \in Chained(t) <=> h \in t.active[b] \cup Range(t.inactive[b])
        /\ Active(t) \ {h} = Active(s) \ {h}
        /\ Chained(t) \ {h} = Chained(s) \ {h}
    BY <1>1, <1>5, <1>7, MovedElsewhere
  <2> QED
    BY <2>1, <1>1, <1>3, <1>6
<1>12. Active(t) = Active(s) \ {h} /\ Chained(t) = Chained(s) \ {h}
  BY <1>11
<1>13. \A g \in Holder : References(t, g) = References(s, g) + (IF g = h THEN -1 ELSE 0)
  BY <1>6, <1>12, StoreTypes DEF References, Dies
<1>14. /\ Existing(t) \subseteq Existing(s)
       /\ \A g \in Active(t) : t.obj[g].dead = 1 => g \in Active(s) /\ s.obj[g].dead = 1
       /\ \A g \in s.heap \ Chained(s) : g \in t.heap \ Chained(t) /\ t.obj[g] = s.obj[g]
       /\ \A g \in Active(s) : t.obj[g].dbref = s.obj[g].dbref
  BY <1>1, <1>2, <1>6, <1>12, StoreTypes DEF Existing, Store
<1>15. \A d \in Dbref : s.disk[d] # NoImage => t.disk[d] # NoImage \/ d \in DeadDbrefs(s)
  BY <1>6 DEF DeadDbrefs, Dies
<1>16. Effect(s, t, h, -1)
  BY <1>5, <1>10, <1>13, <1>14, <1>15 DEF Effect, Sound
<1>17. Gone(t, h)
  BY <1>1, <1>2, <1>6, <1>9, <1>12, StoreTypes DEF Gone, Existing
<1> QED
  BY <1>16, <1>17 DEF t

\* cache_discard() takes one reference from its object and from no other,
\* whatever becomes of the object.
THEOREM DiscardEffect ==
  ASSUME NEW s \in Store, ChainsOK(s), NEW h \in Active(s)
  PROVE  Effect(s, Discard(s, h), h, -1)
<1>1. s.obj[h].dead \in {0, 1}
  BY StoreTypes DEF Record
<1> QED
  BY <1>1, ReleaseEffect, RetireEffect, DeathEffect DEF Dies

(***************************************************************************)
(* Writing a live or dead object's data or its dirty flag.                 *)
(***************************************************************************)
LEMMA WriteEffect ==
  ASSUME NEW s \in Store, ChainsOK(s), NEW h \in Active(s), NEW contents \in Image
  PROVE  /\ Effect(s, SetData(s, h, contents), h, 0)
         /\ Active(SetData(s, h, contents)) = Active(s)
         /\ Effect(s, MarkDirty(s, h), h, 0)
         /\ Active(MarkDirty(s, h)) = Active(s)
<1> DEFINE q == [s.obj[h] EXCEPT !.data = contents]
           r == [s.obj[h] EXCEPT !.dirty = 1]
           t == [s EXCEPT !.obj = [s.obj EXCEPT ![h] = q]]
           u == [s EXCEPT !.obj = [s.obj EXCEPT ![h] = r]]
<1>1. h \in Holder /\ s.obj[h] \in Record /\ s.obj[h].refs >= 1 /\ s.obj[h].refs \in Int
  BY ActiveHolder, StoreTypes DEF Record
<1>2. /\ q \in Record /\ q.refs = s.obj[h].refs /\ q.dbref = s.obj[h].dbref
      /\ q.dead = s.obj[h].dead
      /\ r \in Record /\ r.refs = s.obj[h].refs /\ r.dbref = s.obj[h].dbref
      /\ r.dead = s.obj[h].dead
  BY <1>1 DEF Record
<1>3. t = SetData(s, h, contents) /\ u = MarkDirty(s, h)
  BY <1>1 DEF SetData, MarkDirty, Store
<1> HIDE DEF q, r
<1>4. /\ q.refs >= 1 /\ q.refs - s.obj[h].refs = 0
      /\ r.refs >= 1 /\ r.refs - s.obj[h].refs = 0
  BY <1>1, <1>2
<1>5. Effect(s, t, h, q.refs - s.obj[h].refs) /\ Active(t) = Active(s)
  BY <1>2, <1>4, RewriteEffect
<1>6. Effect(s, u, h, r.refs - s.obj[h].refs) /\ Active(u) = Active(s)
  BY <1>2, <1>4, RewriteEffect
<1> HIDE DEF t, u
<1> QED
  BY <1>3, <1>4, <1>5, <1>6

(***************************************************************************)
(* Effects compose.                                                        *)
(***************************************************************************)
LEMMA SoundTrans ==
  ASSUME NEW s \in Store, NEW t, NEW u, Sound(s, t), Sound(t, u),
         \A g \in Active(s) : g \in Active(t) \/ u.obj[g].dbref = t.obj[g].dbref
  PROVE  Sound(s, u)
<1>1. u \in Store /\ ChainsOK(u)
  BY DEF Sound
<1>2. \A g \in Active(s) : u.obj[g].dbref = s.obj[g].dbref
  BY DEF Sound
<1>3. Existing(u) \subseteq Existing(s)
  BY DEF Sound
<1>4. \A g \in Active(u) : u.obj[g].dead = 1 => g \in Active(s) /\ s.obj[g].dead = 1
  BY DEF Sound
<1>5. \A g \in s.heap \ Chained(s) : g \in u.heap \ Chained(u) /\ u.obj[g] = s.obj[g]
  BY DEF Sound
<1>6. DeadDbrefs(t) \subseteq DeadDbrefs(s)
  <2> SUFFICES ASSUME NEW g \in Active(t), t.obj[g].dead = 1
               PROVE  t.obj[g].dbref \in DeadDbrefs(s)
    BY DEF DeadDbrefs
  <2>1. g \in Active(s) /\ s.obj[g].dead = 1 /\ t.obj[g].dbref = s.obj[g].dbref
    BY DEF Sound
  <2> QED
    BY <2>1 DEF DeadDbrefs
<1>7. \A d \in Dbref : s.disk[d] # NoImage => u.disk[d] # NoImage \/ d \in DeadDbrefs(s)
  BY <1>6 DEF Sound
<1> QED
  BY <1>1, <1>2, <1>3, <1>4, <1>5, <1>7 DEF Sound

\* Two changes of references to one holder, one after the other.
LEMMA EffectTrans ==
  ASSUME NEW s \in Store, ChainsOK(s), NEW t, NEW u, NEW h \in Holder, NEW n \in Int,
         NEW m \in Int, Effect(s, t, h, n), Effect(t, u, h, m), n >= 0
  PROVE  Effect(s, u, h, n + m)
<1>1. t \in Store /\ u \in Store
  BY DEF Effect, Sound
<1>2. \A g \in Holder : References(u, g) = References(s, g) + (IF g = h THEN n + m ELSE 0)
  BY <1>1, StoreTypes DEF Effect
<1>3. ASSUME NEW g \in Active(s)
      PROVE  g \in Active(t)
  <2>1. g \in Holder /\ s.obj[g].refs >= 1 /\ s.obj[g].refs \in Int
    BY ActiveHolder, StoreTypes DEF Record
  <2>2. References(t, g) >= 1
    BY <2>1 DEF Effect, References
  <2> QED
    BY <2>2 DEF References
<1> QED
  BY <1>2, <1>3, SoundTrans DEF Effect

\* Nothing but the reuse of a holder changes its dbref.
LEMMA DiscardKeepsDbrefs ==
  ASSUME NEW s \in Store, NEW h \in Holder
  PROVE  \A g \in Holder : Discard(s, h).obj[g].dbref = s.obj[g].dbref
<1> DEFINE r == [s.obj[h] EXCEPT !.refs = @ - 1]
<1>1. s.obj[h] \in Record /\ r.dbref = s.obj[h].dbref
  BY StoreTypes DEF Record
<1>2. Discard(s, h).obj = [s.obj EXCEPT ![h] = r]
  BY DEF Discard, Store
<1> HIDE DEF r
<1> QED
  BY <1>1, <1>2 DEF Store

\* What an effect leaves can be given to the next operator.
LEMMA EffectGains ==
  ASSUME NEW s \in Store, ChainsOK(s), NEW t, NEW h \in Holder, Effect(s, t, h, 1)
  PROVE  t \in Store /\ ChainsOK(t) /\ h \in Active(t)
<1>1. t \in Store /\ ChainsOK(t)
  BY DEF Effect, Sound
<1>2. References(s, h) >= 0 /\ References(s, h) \in Int
  BY StoreTypes, ActiveHolder DEF References, Record
<1>3. References(t, h) >= 1
  BY <1>2 DEF Effect, Sound
<1> QED
  BY <1>1, <1>3 DEF References

\* A reference taken and given back.
LEMMA VisitEffect ==
  ASSUME NEW s \in Store, ChainsOK(s), NEW t, NEW h \in Holder, Effect(s, t, h, 1)
  PROVE  Effect(s, Discard(t, h), h, 0)
<1>1. t \in Store /\ ChainsOK(t) /\ h \in Active(t)
  BY EffectGains
<1>2. Effect(t, Discard(t, h), h, -1)
  BY <1>1, DiscardEffect
<1>3. Effect(s, Discard(t, h), h, 1 + -1)
  BY <1>1, <1>2, EffectTrans
<1> QED
  BY <1>3

\* Writing an object between retrieving and discarding it.
LEMMA EffectWrite ==
  ASSUME NEW s \in Store, ChainsOK(s), NEW t, NEW h \in Holder, NEW contents \in Image,
         Effect(s, t, h, 1)
  PROVE  Effect(s, SetData(t, h, contents), h, 1) /\ Effect(s, MarkDirty(t, h), h, 1)
<1>1. t \in Store /\ ChainsOK(t) /\ h \in Active(t)
  BY EffectGains
<1>2. Effect(t, SetData(t, h, contents), h, 0) /\ Effect(t, MarkDirty(t, h), h, 0)
  BY <1>1, WriteEffect
<1>3. /\ Effect(s, SetData(t, h, contents), h, 1 + 0)
      /\ Effect(s, MarkDirty(t, h), h, 1 + 0)
  BY <1>1, <1>2, EffectTrans
<1> QED
  BY <1>3

(***************************************************************************)
(* The operators that are no Effect.                                       *)
(***************************************************************************)
LEMMA BuryEffect ==
  ASSUME NEW s \in Store, ChainsOK(s), NEW h \in Holder, Gone(s, h)
  PROVE  LET t == Bury(s, h)
         IN  /\ t \in Store /\ ChainsOK(t)
             /\ Active(t) = Active(s)
             /\ \A g \in Active(s) : t.obj[g] = s.obj[g]
             /\ Existing(t) \subseteq Existing(s)
             /\ t.disk = s.disk
<1> DEFINE b == Hash(s.obj[h].dbref)
           t == Bury(s, h)
<1>1. /\ h \in s.heap /\ b \in Bucket
      /\ \A c \in Bucket : h \notin s.active[c] /\ h \notin Range(s.inactive[c])
  BY HashType, StoreTypes DEF Gone
<1>2. s.inactive[b] \in Seq(Holder) /\ IsInjective(s.inactive[b])
  BY <1>1 DEF Store, ChainsOK, InactiveOK
<1>3. /\ Append(s.inactive[b], h) \in Seq(Holder)
      /\ IsInjective(Append(s.inactive[b], h))
      /\ Range(Append(s.inactive[b], h)) = Range(s.inactive[b]) \cup {h}
  BY <1>1, <1>2, ChainAppend
<1>4. t = [s EXCEPT !.obj = [s.obj EXCEPT ![h] = EmptyHolder],
                    !.inactive = [s.inactive EXCEPT ![b] = Append(s.inactive[b], h)]]
  BY <1>1 DEF Bury, Store
<1> HIDE DEF t
<1>5. t \in Store
  BY <1>1, <1>3, <1>4, BlankTypes DEF Store
<1>6. /\ t.obj[h] = EmptyHolder
      /\ \A g \in Holder : g # h => t.obj[g] = s.obj[g]
      /\ t.active = s.active /\ t.inactive[b] = Append(s.inactive[b], h)
      /\ \A c \in Bucket : c # b => t.inactive[c] = s.inactive[c]
      /\ t.heap = s.heap /\ t.disk = s.disk
  BY <1>1, <1>4 DEF Store
<1>7. Moved(s, t, h, b)
  BY <1>1, <1>3, <1>6 DEF Moved
<1>8. WellPlaced(s, t, h, b)
  BY <1>1, <1>6 DEF WellPlaced, EmptyHolder
<1> HIDE DEF b
<1>9. ChainsOK(t)
  BY <1>1, <1>5, <1>7, <1>8, MovedChainsOK
<1>10. Active(t) = Active(s) /\ h \notin Active(s)
  BY <1>1, <1>6 DEF Active
<1>11. Chained(t) \ {h} = Chained(s) \ {h}
  BY <1>1, <1>5, <1>7, MovedElsewhere
<1>12. Existing(t) \subseteq Existing(s)
  <2>1. EMPTY \notin Dbref
    BY CacheAssumption DEF EMPTY, Dbref
  <2> QED
    BY <2>1, <1>5, <1>6, <1>11, StoreTypes DEF Existing, EmptyHolder
<1>13. \A g \in Active(s) : t.obj[g] = s.obj[g]
  BY <1>6, <1>10, StoreTypes
<1> QED
  BY <1>5, <1>6, <1>9, <1>10, <1>12, <1>13 DEF t

\* A change of objects that keeps every dbref, and what ChainsOK needs.
LEMMA SameChains ==
  ASSUME NEW s \in Store, ChainsOK(s), NEW t \in Store,
         t.active = s.active, t.inactive = s.inactive, t.heap = s.heap,
         \A h \in Holder : t.obj[h].dbref = s.obj[h].dbref /\ t.obj[h].refs = s.obj[h].refs,
         \A h \in Inactive(s) : t.obj[h].dead = s.obj[h].dead
  PROVE  /\ ChainsOK(t)
         /\ Active(t) = Active(s) /\ Chained(t) = Chained(s)
         /\ \A h \in Holder : References(t, h) = References(s, h)
<1>1. Active(t) = Active(s) /\ Chained(t) = Chained(s)
  BY DEF Active, Chained, Inactive
<1>2. \A b \in Bucket : s.active[b] \subseteq Holder /\ Range(s.inactive[b]) \subseteq Holder
  BY RangeOfSeq DEF Store
<1>3. ActiveOK(t)
  BY <1>2 DEF ChainsOK, ActiveOK
<1>4. InactiveOK(t)
  BY <1>2 DEF ChainsOK, InactiveOK, Inactive
<1>5. ChainsDisjoint(t)
  BY DEF ChainsOK, ChainsDisjoint
<1>6. OneHolder(t)
  BY <1>1, StoreTypes DEF ChainsOK, OneHolder
<1>7. ChainsOK(t)
  BY <1>1, <1>3, <1>4, <1>5, <1>6 DEF ChainsOK
<1> QED
  BY <1>1, <1>7 DEF References

\* The dead flag changes one field of one holder.
LEMMA MarkDeadEffect ==
  ASSUME NEW s \in Store, ChainsOK(s), NEW h \in Active(s)
  PROVE  LET t == MarkDead(s, h)
         IN  /\ t \in Store /\ ChainsOK(t)
             /\ Active(t) = Active(s) /\ Chained(t) = Chained(s)
             /\ \A g \in Holder : References(t, g) = References(s, g)
             /\ \A g \in Holder : t.obj[g].dbref = s.obj[g].dbref
             /\ \A g \in Holder : g # h => t.obj[g] = s.obj[g]
             /\ t.heap = s.heap /\ t.disk = s.disk
<1> DEFINE t == MarkDead(s, h)
           r == [s.obj[h] EXCEPT !.dead = 1]
<1>1. h \in Holder /\ h \notin Inactive(s) /\ s.obj[h] \in Record
  BY ActiveHolder, StoreTypes
<1>2. r \in Record /\ r.dbref = s.obj[h].dbref /\ r.refs = s.obj[h].refs
  BY <1>1 DEF Record
<1>3. t = [s EXCEPT !.obj = [s.obj EXCEPT ![h] = r]]
  BY <1>1 DEF MarkDead, Store
<1> HIDE DEF t, r
<1>4. t \in Store
  BY <1>1, <1>2, <1>3 DEF Store
<1>5. /\ t.active = s.active /\ t.inactive = s.inactive /\ t.heap = s.heap /\ t.disk = s.disk
      /\ t.obj[h] = r /\ \A g \in Holder : g # h => t.obj[g] = s.obj[g]
  BY <1>1, <1>3 DEF Store
<1>6. \A g \in Inactive(s) : t.obj[g].dead = s.obj[g].dead
  BY <1>1, <1>5, StoreTypes DEF Chained
<1>7. /\ ChainsOK(t) /\ Active(t) = Active(s) /\ Chained(t) = Chained(s)
      /\ \A g \in Holder : References(t, g) = References(s, g)
  BY <1>2, <1>4, <1>5, <1>6, SameChains
<1> QED
  BY <1>2, <1>4, <1>5, <1>7 DEF t

\* cache_sync() changes flags and the disk, no chain and no reference.
LEMMA SyncEffect ==
  ASSUME NEW s \in Store, ChainsOK(s)
  PROVE  LET t == Sync(s)
         IN  /\ t \in Store /\ ChainsOK(t)
             /\ Active(t) = Active(s) /\ Chained(t) = Chained(s)
             /\ \A g \in Holder : References(t, g) = References(s, g)
             /\ \A g \in Holder :
                  t.obj[g].dbref = s.obj[g].dbref /\ t.obj[g].dead = s.obj[g].dead
             /\ t.heap = s.heap
             /\ \A d \in Dbref : s.disk[d] # NoImage => t.disk[d] # NoImage
             /\ Existing(t) \subseteq Existing(s)
<1> DEFINE t == Sync(s)
           clean == [h \in Holder |->
                       IF h \in Unsaved(s) THEN [s.obj[h] EXCEPT !.dirty = 0] ELSE s.obj[h]]
           disk == [d \in Dbref |->
                       IF \E h \in Unsaved(s) : s.obj[h].dbref = d
                       THEN s.obj[CHOOSE h \in Unsaved(s) : s.obj[h].dbref = d].data
                       ELSE s.disk[d]]
<1>1. Unsaved(s) \subseteq Holder /\ Unsaved(s) \subseteq Chained(s)
  BY StoreTypes DEF Unsaved
<1>2. \A h \in Holder : /\ clean[h] \in Record
                       /\ clean[h].dbref = s.obj[h].dbref /\ clean[h].refs = s.obj[h].refs
                       /\ clean[h].dead = s.obj[h].dead
  <2> TAKE h \in Holder
  <2>1. s.obj[h] \in Record
    BY StoreTypes
  <2> QED
    BY <2>1 DEF Record
<1>3. /\ \A d \in Dbref : disk[d] \in Image \cup {NoImage}
      /\ \A d \in Dbref : s.disk[d] # NoImage => disk[d] # NoImage
      /\ \A d \in Dbref : disk[d] # NoImage => d \in Existing(s)
  <2> SUFFICES ASSUME NEW d \in Dbref
               PROVE  /\ disk[d] \in Image \cup {NoImage}
                      /\ s.disk[d] # NoImage => disk[d] # NoImage
                      /\ disk[d] # NoImage => d \in Existing(s)
    OBVIOUS
  <2>1. CASE \E h \in Unsaved(s) : s.obj[h].dbref = d
    <3> DEFINE g == CHOOSE h \in Unsaved(s) : s.obj[h].dbref = d
    <3>1. g \in Unsaved(s) /\ s.obj[g].dbref = d
      BY <2>1
    <3>2. disk[d] = s.obj[g].data
      BY <2>1
    <3> HIDE DEF g, disk
    <3>3. disk[d] \in Image /\ disk[d] # NoImage
      BY <1>1, <3>1, <3>2, StoreTypes, CacheAssumption DEF Record
    <3>4. d \in Existing(s)
      BY <1>1, <3>1 DEF Existing
    <3> QED
      BY <3>3, <3>4
  <2>2. CASE ~ \E h \in Unsaved(s) : s.obj[h].dbref = d
    <3>1. disk[d] = s.disk[d] /\ s.disk[d] \in Image \cup {NoImage}
      BY <2>2 DEF Store
    <3> HIDE DEF disk
    <3> QED
      BY <3>1 DEF Existing
  <2> QED
    BY <2>1, <2>2
<1>4. t = [s EXCEPT !.obj = clean, !.disk = disk]
  BY DEF Sync
<1>5. clean \in [Holder -> Record] /\ disk \in [Dbref -> Image \cup {NoImage}]
  BY <1>2, <1>3
<1> HIDE DEF t, clean, disk
<1>6. /\ t.active = s.active /\ t.inactive = s.inactive /\ t.heap = s.heap
      /\ t.obj = clean /\ t.disk = disk /\ t \in Store
  BY <1>4, <1>5 DEF Store
<1>7. \A h \in Holder : /\ t.obj[h].dbref = s.obj[h].dbref /\ t.obj[h].refs = s.obj[h].refs
                       /\ t.obj[h].dead = s.obj[h].dead
  BY <1>2, <1>6
<1>8. \A h \in Inactive(s) : t.obj[h].dead = s.obj[h].dead
  BY <1>7, StoreTypes DEF Chained
<1>9. /\ ChainsOK(t) /\ Active(t) = Active(s) /\ Chained(t) = Chained(s)
      /\ \A h \in Holder : References(t, h) = References(s, h)
  BY <1>6, <1>7, <1>8, SameChains
<1>10. Existing(t) \subseteq Existing(s)
  BY <1>3, <1>6, <1>7, <1>9, StoreTypes DEF Existing
<1> QED
  BY <1>3, <1>6, <1>7, <1>9, <1>10 DEF t

\* cache_sync() loses no object.
LEMMA SyncSound ==
  ASSUME NEW s \in Store, ChainsOK(s)
  PROVE  Sound(s, Sync(s))
<1> DEFINE t == Sync(s)
<1>1. /\ t \in Store /\ ChainsOK(t)
      /\ Active(t) = Active(s) /\ Chained(t) = Chained(s)
      /\ \A g \in Holder : t.obj[g].dbref = s.obj[g].dbref /\ t.obj[g].dead = s.obj[g].dead
      /\ t.heap = s.heap
      /\ \A d \in Dbref : s.disk[d] # NoImage => t.disk[d] # NoImage
      /\ Existing(t) \subseteq Existing(s)
  BY SyncEffect
<1>2. \A g \in Holder : g \notin Chained(s) => t.obj[g] = s.obj[g]
  BY DEF Sync, Unsaved
<1>3. s.heap \subseteq Holder
  BY DEF Store
<1> HIDE DEF t
<1> QED
  BY <1>1, <1>2, <1>3, StoreTypes DEF Sound, t

\* init_cache() leaves chains in order and no reference.
LEMMA InitCacheChains ==
  ASSUME NEW disk \in [Dbref -> Image \cup {NoImage}]
  PROVE  LET s == InitCache(disk)
         IN  /\ s \in Store /\ ChainsOK(s)
             /\ Active(s) = {}
             /\ Existing(s) = {d \in Dbref : disk[d] # NoImage}
             /\ s.inactive = InitChain
             /\ s.disk = disk
<1> DEFINE s == InitCache(disk)
<1>1. /\ s.obj = [h \in Holder |-> EmptyHolder] /\ s.active = [b \in Bucket |-> {}]
      /\ s.inactive = InitChain /\ s.disk = disk
      /\ s.heap = UNION {Range(InitChain[b]) : b \in Bucket}
  BY DEF InitCache
<1>2. \A b \in Bucket : Range(InitChain[b]) \subseteq Holder
  BY CacheAssumption, RangeOfSeq
<1>3. s \in Store
  BY <1>2, CacheAssumption, BlankTypes DEF InitCache, Store
<1> HIDE DEF s
<1>4. Active(s) = {} /\ Chained(s) \subseteq s.heap
  BY <1>1 DEF Active, Chained, Inactive
<1>5. \A h \in Chained(s) : s.obj[h].dbref = EMPTY
  BY <1>1, <1>3, StoreTypes DEF EmptyHolder
<1>6. ActiveOK(s)
  BY <1>1 DEF ActiveOK
<1>7. InactiveOK(s)
  BY <1>1, <1>3, <1>5, CacheAssumption, StoreTypes DEF InactiveOK
<1>8. ChainsDisjoint(s)
  BY <1>1, CacheAssumption DEF ChainsDisjoint
<1>9. OneHolder(s)
  BY <1>5 DEF OneHolder
<1>10. Existing(s) = {d \in Dbref : disk[d] # NoImage}
  <2>1. EMPTY \notin Dbref
    BY CacheAssumption DEF EMPTY, Dbref
  <2> QED
    BY <2>1, <1>1, <1>5 DEF Existing
<1> QED
  BY <1>1, <1>3, <1>4, <1>6, <1>7, <1>8, <1>9, <1>10 DEF ChainsOK, s

-----------------------------------------------------------------------------
(***************************************************************************)
(* Numbers and lists.                                                      *)
(***************************************************************************)
LEMMA LeastNumber ==
  ASSUME NEW T \in SUBSET Nat, T # {}
  PROVE  \E n \in T : \A m \in T : n <= m
<1> DEFINE R == {ss \in Nat \X Nat : ss[1] < ss[2]}
<1>1. IsWellFoundedOn(R, Nat)
  BY NatLessThanWellFounded DEF OpToRel
<1>2. \A m, n \in Nat : m < n => <<m, n>> \in R
  OBVIOUS
<1> HIDE DEF R
<1>3. PICK n \in T : \A m \in T : ~ (<<m, n>> \in R)
  BY <1>1, WFMin
<1>4. \A m \in T : ~ (m < n)
  BY <1>2, <1>3
<1> QED
  BY <1>4

\* A set of dbrefs that is not empty has a greatest one.
LEMMA GreatestDbref ==
  ASSUME NEW T \in SUBSET Dbref, T # {}
  PROVE  \E n \in T : \A m \in T : m <= n
<1> DEFINE U == {MaxDbref - d : d \in T}
<1>1. MaxDbref \in Nat /\ \A d \in T : d \in Nat /\ d <= MaxDbref
  BY CacheAssumption DEF Dbref
<1>2. U \in SUBSET Nat /\ U # {}
  BY <1>1
<1>3. PICK u \in U : \A v \in U : u <= v
  BY <1>2, LeastNumber
<1>4. PICK n \in T : u = MaxDbref - n
  OBVIOUS
<1>5. \A m \in T : m <= n
  BY <1>1, <1>3, <1>4
<1> QED
  BY <1>5

\* list_delete_element() of an element that is there.
LEMMA ListDeleteType ==
  ASSUME NEW S, NEW list \in Seq(S), NEW e \in Range(list)
  PROVE  ListDelete(list, e) \in Seq(S)
<1> DEFINE n == Len(list)
           hits == {i \in 1 .. n : list[i] = e}
           k == FirstIndex(list, e)
<1>1. n \in Nat /\ DOMAIN list = 1 .. n
  BY LenProperties
<1>2. hits \in SUBSET Nat /\ hits # {}
  BY <1>1 DEF Range
<1>3. PICK i \in hits : \A j \in hits : i <= j
  BY <1>2, LeastNumber
<1>4. i \in 1 .. n /\ list[i] = e /\ \A j \in 1 .. i - 1 : list[j] # e
  BY <1>1, <1>3
<1>5. k \in 1 .. n
  BY <1>4 DEF FirstIndex
<1> HIDE DEF k, n
<1>6. k \in Nat /\ 1 <= k /\ k <= n /\ k - 1 \in Int /\ k + 1 \in Int
  BY <1>1, <1>5
<1>7. \A j \in 1 .. k - 1 : list[j] \in S
  BY <1>1, <1>6, ElementOfSeq DEF n
<1>8. \A j \in k + 1 .. n : list[j] \in S
  BY <1>1, <1>6, ElementOfSeq DEF n
<1>9. SubSeq(list, 1, k - 1) \in Seq(S) /\ SubSeq(list, k + 1, n) \in Seq(S)
  BY <1>1, <1>6, <1>7, <1>8, SubSeqProperties
<1> QED
  BY <1>9, ConcatProperties DEF ListDelete, RemoveAt, k, n

-----------------------------------------------------------------------------
(***************************************************************************)
(* Counting pointers.                                                      *)
(***************************************************************************)
LEMMA CountType ==
  ASSUME NEW S, NEW list \in Seq(S), NEW h
  PROVE  Count(list, h) \in Nat
<1>1. Len(list) \in Nat
  BY LenProperties
<1>2. IsFiniteSet(1 .. Len(list))
  BY <1>1, FS_Interval
<1>3. IsFiniteSet({i \in 1 .. Len(list) : list[i] = h})
  BY <1>2, FS_Subset
<1> QED
  BY <1>3, FS_CardinalityType DEF Count

\* A list with one more element.
LEMMA CountLonger ==
  ASSUME NEW S, NEW short \in Seq(S), NEW long \in Seq(S), NEW h,
         Len(long) = Len(short) + 1, \A i \in 1 .. Len(short) : long[i] = short[i]
  PROVE  Count(long, h) = Count(short, h) + (IF long[Len(long)] = h THEN 1 ELSE 0)
<1> DEFINE n == Len(short)
           A == {i \in 1 .. n : short[i] = h}
           B == {i \in 1 .. n + 1 : long[i] = h}
<1>1. n \in Nat
  BY LenProperties
<1>2. IsFiniteSet(A) /\ n + 1 \notin A
  <2>1. IsFiniteSet(1 .. n)
    BY <1>1, FS_Interval
  <2> QED
    BY <1>1, <2>1, FS_Subset
<1>3. /\ Cardinality(A) \in Nat
      /\ Cardinality(A \cup {n + 1}) = Cardinality(A) + 1
  BY <1>2, FS_CardinalityType, FS_AddElement
<1>4. Count(long, h) = Cardinality(B) /\ Count(short, h) = Cardinality(A)
  BY DEF Count
<1>5. CASE long[n + 1] = h
  <2>1. B = A \cup {n + 1}
    BY <1>1, <1>5
  <2> HIDE DEF A, B
  <2> QED
    BY <2>1, <1>3, <1>4, <1>5
<1>6. CASE long[n + 1] # h
  <2>1. B = A
    BY <1>1, <1>6
  <2> HIDE DEF A, B
  <2> QED
    BY <2>1, <1>3, <1>4, <1>6
<1> QED
  BY <1>5, <1>6

\* The empty list.
LEMMA CountNone ==
  ASSUME NEW h
  PROVE  Count(<<>>, h) = 0
<1>1. {i \in 1 .. Len(<<>>) : <<>>[i] = h} = {}
  OBVIOUS
<1> QED
  BY <1>1, FS_EmptySet DEF Count

\* A list of one element.
LEMMA CountOne ==
  ASSUME NEW x, NEW h
  PROVE  Count(<<x>>, h) = IF x = h THEN 1 ELSE 0
<1>1. /\ <<>> \in Seq({x}) /\ <<x>> \in Seq({x})
      /\ Len(<<x>>) = Len(<<>>) + 1 /\ <<x>>[Len(<<x>>)] = x
      /\ \A i \in 1 .. Len(<<>>) : <<x>>[i] = <<>>[i]
  OBVIOUS
<1>2. Count(<<x>>, h) = Count(<<>>, h) + (IF <<x>>[Len(<<x>>)] = h THEN 1 ELSE 0)
  BY <1>1, CountLonger
<1> QED
  BY <1>1, <1>2, CountNone

\* A list of two elements.
LEMMA CountTwo ==
  ASSUME NEW x, NEW y, NEW h
  PROVE  Count(<<x, y>>, h) = (IF x = h THEN 1 ELSE 0) + (IF y = h THEN 1 ELSE 0)
<1>1. /\ <<x>> \in Seq({x, y}) /\ <<x, y>> \in Seq({x, y})
      /\ Len(<<x, y>>) = Len(<<x>>) + 1 /\ <<x, y>>[Len(<<x, y>>)] = y
      /\ \A i \in 1 .. Len(<<x>>) : <<x, y>>[i] = <<x>>[i]
  OBVIOUS
<1>2. Count(<<x, y>>, h) = Count(<<x>>, h) + (IF <<x, y>>[Len(<<x, y>>)] = h THEN 1 ELSE 0)
  BY <1>1, CountLonger
<1> QED
  BY <1>1, <1>2, CountOne

\* The last element of a list, and the list without it.
LEMMA CountFront ==
  ASSUME NEW S, NEW list \in Seq(S), list # <<>>, NEW h
  PROVE  LET front == SubSeq(list, 1, Len(list) - 1)
         IN  /\ front \in Seq(S)
             /\ list[Len(list)] \in S
             /\ Len(front) = Len(list) - 1
             /\ \A i \in 1 .. Len(front) : front[i] = list[i]
             /\ Count(list, h) = Count(front, h) + (IF list[Len(list)] = h THEN 1 ELSE 0)
<1> DEFINE n == Len(list)
           front == SubSeq(list, 1, n - 1)
<1>1. n \in Nat \ {0} /\ DOMAIN list = 1 .. n
  BY EmptySeq, LenProperties
<1>2. /\ front \in Seq(S)
      /\ Len(front) = n - 1
      /\ \A i \in 1 .. n - 1 : front[i] = list[i]
  BY <1>1, SubSeqProperties, LenProperties
<1>3. list[n] \in S
  BY <1>1, ElementOfSeq
<1> HIDE DEF front
<1>4. Count(list, h) = Count(front, h) + (IF list[n] = h THEN 1 ELSE 0)
  <2>1. Len(list) = Len(front) + 1 /\ \A i \in 1 .. Len(front) : list[i] = front[i]
    BY <1>1, <1>2
  <2> QED
    BY <1>2, <2>1, CountLonger
<1> QED
  BY <1>2, <1>3, <1>4 DEF front

\* An element of a list counts.
LEMMA CountElement ==
  ASSUME NEW S, NEW list \in Seq(S), NEW i \in 1 .. Len(list)
  PROVE  Count(list, list[i]) >= 1
<1> DEFINE A == {j \in 1 .. Len(list) : list[j] = list[i]}
<1>1. Len(list) \in Nat /\ i \in A
  BY LenProperties
<1>2. IsFiniteSet(1 .. Len(list))
  BY <1>1, FS_Interval
<1>3. IsFiniteSet(A) /\ A # {}
  BY <1>1, <1>2, FS_Subset
<1>4. Cardinality(A) \in Nat /\ Cardinality(A) # 0
  BY <1>3, FS_EmptySet, FS_CardinalityType
<1> HIDE DEF A
<1>5. Count(list, list[i]) = Cardinality(A)
  BY DEF Count, A
<1> QED
  BY <1>4, <1>5

-----------------------------------------------------------------------------
(***************************************************************************)
(* Pointers(h), as a function of the variables it depends on.              *)
(***************************************************************************)
FramePointers(fr, h) ==
  Count([i \in 1 .. Len(fr) |-> fr[i].object], h)
    + Count([i \in 1 .. Len(fr) |-> fr[i].definer], h)

Holds(ca, h) == Count(<<ca.who, ca.found>>, h)

PointersOf(fr, pe, ca, h) == FramePointers(fr, h) + Count(pe, h) + Holds(ca, h)

\* Pointers, by its parameters: so that it can be primed.
LEMMA PointersUnprimed == \A h : Pointers(h) = PointersOf(frames, pending, call, h)
  <1> SUFFICES ASSUME NEW h
               PROVE  Pointers(h) = PointersOf(frames, pending, call, h)
    OBVIOUS
  <1>1. Pointers(h) = (Count(Objects, h) + Count(Definers, h)) + Count(pending, h) + Holds(call, h)
    BY DEF Pointers, Holds
  <1> QED
    BY <1>1 DEF Objects, Definers, PointersOf, FramePointers

\* A call in progress holds its object and the one it has found.
LEMMA HoldsBy ==
  ASSUME NEW ca, NEW h
  PROVE  Holds(ca, h) = (IF ca.who = h THEN 1 ELSE 0) + (IF ca.found = h THEN 1 ELSE 0)
BY CountTwo DEF Holds

\* The objects and the definers of the frames are lists of holders.
LEMMA FrameLists ==
  ASSUME NEW fr \in Seq(Frame)
  PROVE  LET objs == [i \in 1 .. Len(fr) |-> fr[i].object]
             defs == [i \in 1 .. Len(fr) |-> fr[i].definer]
         IN  /\ objs \in Seq(Holder) /\ Len(objs) = Len(fr)
             /\ defs \in Seq(Holder) /\ Len(defs) = Len(fr)
<1>1. Len(fr) \in Nat /\ \A i \in 1 .. Len(fr) : fr[i] \in Frame
  BY LenProperties, ElementOfSeq
<1>2. \A i \in 1 .. Len(fr) : fr[i].object \in Holder /\ fr[i].definer \in Holder
  BY <1>1 DEF Frame
<1> QED
  BY <1>1, <1>2, IsASeq, LenProperties

\* The frames' pointers to a holder are a number.
LEMMA FramePointersType ==
  ASSUME NEW fr \in Seq(Frame), NEW h
  PROVE  FramePointers(fr, h) \in Nat
<1> DEFINE objs == [i \in 1 .. Len(fr) |-> fr[i].object]
           defs == [i \in 1 .. Len(fr) |-> fr[i].definer]
<1>1. objs \in Seq(Holder) /\ defs \in Seq(Holder)
  BY FrameLists
<1>2. FramePointers(fr, h) = Count(objs, h) + Count(defs, h)
  BY DEF FramePointers
<1> HIDE DEF objs, defs
<1>3. Count(objs, h) \in Nat /\ Count(defs, h) \in Nat
  BY <1>1, CountType
<1> QED
  BY <1>2, <1>3

\* So are all pointers to it.
LEMMA PointersOfType ==
  ASSUME NEW fr \in Seq(Frame), NEW pe \in Seq(Holder), NEW ca, NEW h
  PROVE  PointersOf(fr, pe, ca, h) \in Nat /\ Holds(ca, h) \in Nat
BY FramePointersType, CountType, HoldsBy DEF PointersOf

\* A frame has two holders, and points to both.
LEMMA FrameTypes ==
  ASSUME NEW fr \in Seq(Frame), NEW i \in 1 .. Len(fr)
  PROVE  /\ fr[i].object \in Holder /\ fr[i].definer \in Holder
         /\ FramePointers(fr, fr[i].object) >= 1
         /\ FramePointers(fr, fr[i].definer) >= 1
<1> DEFINE objs == [j \in 1 .. Len(fr) |-> fr[j].object]
           defs == [j \in 1 .. Len(fr) |-> fr[j].definer]
<1>1. fr[i].object \in Holder /\ fr[i].definer \in Holder
  <2>1. fr[i] \in Frame
    BY ElementOfSeq
  <2> QED
    BY <2>1 DEF Frame
<1>2. /\ objs \in Seq(Holder) /\ Len(objs) = Len(fr)
      /\ defs \in Seq(Holder) /\ Len(defs) = Len(fr)
      /\ objs[i] = fr[i].object /\ defs[i] = fr[i].definer
  BY FrameLists
<1>3. \A h : FramePointers(fr, h) = Count(objs, h) + Count(defs, h)
  BY DEF FramePointers
<1> HIDE DEF objs, defs
<1>4. Count(objs, objs[i]) >= 1 /\ Count(defs, defs[i]) >= 1
  BY <1>2, CountElement
<1>5. \A h : Count(objs, h) \in Nat /\ Count(defs, h) \in Nat
  BY <1>2, CountType
<1> QED
  BY <1>1, <1>2, <1>3, <1>4, <1>5

\* CountLonger for a list of holders.
LEMMA HoldersLonger ==
  ASSUME NEW short \in Seq(Holder), NEW long \in Seq(Holder), NEW h,
         Len(long) = Len(short) + 1, \A i \in 1 .. Len(short) : long[i] = short[i]
  PROVE  Count(long, h) = Count(short, h) + (IF long[Len(long)] = h THEN 1 ELSE 0)
BY CountLonger

\* One frame more.
LEMMA FramePushed ==
  ASSUME NEW fr \in Seq(Frame), NEW gr \in Seq(Frame), NEW h,
         Len(gr) = Len(fr) + 1, \A i \in 1 .. Len(fr) : gr[i] = fr[i]
  PROVE  LET f == gr[Len(gr)]
         IN  FramePointers(gr, h) = FramePointers(fr, h)
               + (IF f.object = h THEN 1 ELSE 0) + (IF f.definer = h THEN 1 ELSE 0)
<1> DEFINE n == Len(fr)
           f == gr[n + 1]
           objs == [i \in 1 .. Len(fr) |-> fr[i].object]
           defs == [i \in 1 .. Len(fr) |-> fr[i].definer]
           objs2 == [i \in 1 .. Len(gr) |-> gr[i].object]
           defs2 == [i \in 1 .. Len(gr) |-> gr[i].definer]
<1>1. n \in Nat /\ Len(gr) = n + 1
  BY LenProperties
<1>2. /\ objs \in Seq(Holder) /\ Len(objs) = n
      /\ defs \in Seq(Holder) /\ Len(defs) = n
      /\ objs2 \in Seq(Holder) /\ Len(objs2) = n + 1
      /\ defs2 \in Seq(Holder) /\ Len(defs2) = n + 1
  BY <1>1, FrameLists
<1>3. /\ \A i \in 1 .. n : objs2[i] = objs[i] /\ defs2[i] = defs[i]
      /\ objs2[n + 1] = f.object /\ defs2[n + 1] = f.definer
  BY <1>1
<1>4. /\ FramePointers(fr, h) = Count(objs, h) + Count(defs, h)
      /\ FramePointers(gr, h) = Count(objs2, h) + Count(defs2, h)
  BY DEF FramePointers
<1> HIDE DEF objs, defs, objs2, defs2, f
<1>5. /\ Count(objs2, h) = Count(objs, h) + (IF f.object = h THEN 1 ELSE 0)
      /\ Count(defs2, h) = Count(defs, h) + (IF f.definer = h THEN 1 ELSE 0)
  <2>1. /\ objs \in Seq(Holder) /\ objs2 \in Seq(Holder)
        /\ Len(objs2) = Len(objs) + 1 /\ \A i \in 1 .. Len(objs) : objs2[i] = objs[i]
    BY <1>2, <1>3
  <2>2. Count(objs2, h) = Count(objs, h) + (IF objs2[Len(objs2)] = h THEN 1 ELSE 0)
    BY <2>1, HoldersLonger
  <2>3. /\ defs \in Seq(Holder) /\ defs2 \in Seq(Holder)
        /\ Len(defs2) = Len(defs) + 1 /\ \A i \in 1 .. Len(defs) : defs2[i] = defs[i]
    BY <1>2, <1>3
  <2>4. Count(defs2, h) = Count(defs, h) + (IF defs2[Len(defs2)] = h THEN 1 ELSE 0)
    BY <2>3, HoldersLonger
  <2> QED
    BY <1>2, <1>3, <2>2, <2>4
<1>6. Count(objs, h) \in Nat /\ Count(defs, h) \in Nat
  BY <1>2, CountType
<1>7. FramePointers(gr, h) = FramePointers(fr, h)
               + (IF f.object = h THEN 1 ELSE 0) + (IF f.definer = h THEN 1 ELSE 0)
  BY <1>4, <1>5, <1>6
<1> QED
  BY <1>1, <1>7 DEF f

-----------------------------------------------------------------------------
(***************************************************************************)
(* The inductive invariant.  RefsExact is not part of it, because          *)
(* chparents() with an empty list breaks it; that no holder has fewer      *)
(* references than pointers survives even that.                            *)
(***************************************************************************)

\* Which fields of call are in use in which loop.
CallShape ==
  /\ call.pc = "idle" => call = Idle
  /\ call.pc # "idle" /\ call.victim = NULL => pending = <<>>
  /\ call.pc # "method" => call.found = NULL
  /\ call.pc = "method" =>
       /\ call.victim = NULL
       /\ call.target \in Holder
       /\ call.target = call.who \/ (frames # <<>> /\ call.target = Current.object)
  /\ call.pc \in {"check", "search"} => call.who \in Holder /\ call.victim = NULL
  /\ call.pc = "search" => call.todo # <<>>
  /\ call.pc = "leave" => (call.who = NULL <=> call.victim # NULL)
  /\ call.pc = "adopt" => call.who \in Holder
  /\ call.pc = "kids" => call.who = NULL /\ call.victim \in Holder

\* Every pointer is covered by a reference.
RefsEnough ==
  \A h \in Holder : References(store, h) >= PointersOf(frames, pending, call, h)

VictimGone == call.victim # NULL => Gone(store, call.victim)

\* DestroyNeverNests, in terms of References.
DeadHeld ==
  \A h \in Active(store) : store.obj[h].dead = 1 => References(store, h) > Holds(call, h)

\* db_top is above every dbref in use: object_new() finds its dbref unused.
DbTopUnused == \A d \in Existing(store) : d < dbTop

\* The root and the system object are there for the next start.
RootsSafe ==
  \A d \in {SYSTEM_DBREF, ROOT_DBREF} : store.disk[d] # NoImage /\ d \notin DeadDbrefs(store)

IInv ==
  /\ TypeOK
  /\ CallShape
  /\ ChainsOK(store)
  /\ RefsEnough
  /\ VictimGone
  /\ DeadHeld
  /\ DbTopUnused
  /\ RootsSafe

\* What a step of the system preserves.
KeepObjects ==
  frames' = <<>> \/ \A g \in Active(store) : store'.obj[g].dbref = store.obj[g].dbref

Balanced ==
  \A h \in Holder : References(store, h) = PointersOf(frames, pending, call, h)

\* What is on disk leaves it only with an object that was destroyed.
DiskKept ==
  \A d \in Dbref :
    store.disk[d] # NoImage => store'.disk[d] # NoImage \/ d \in DeadDbrefs(store)

Good ==
  IInv' /\ KeepObjects /\ DiskKept /\ (Balanced /\ <<>> \notin ParentLists => Balanced')

\* A holder somebody points to is active.
LEMMA PointedActive ==
  ASSUME TypeOK, RefsEnough, NEW h \in Holder, PointersOf(frames, pending, call, h) >= 1
  PROVE  h \in Active(store)
<1>1. PointersOf(frames, pending, call, h) \in Nat
  BY PointersOfType DEF TypeOK
<1>2. References(store, h) \in Int
  BY StoreTypes DEF TypeOK
<1>3. References(store, h) >= 1
  BY <1>1, <1>2 DEF RefsEnough
<1> QED
  BY <1>3 DEF References

\* What the interpreter points to is active.
LEMMA HeldActive ==
  ASSUME IInv
  PROVE  /\ call.who \in Holder => call.who \in Active(store)
         /\ call.found \in Holder => call.found \in Active(store)
         /\ \A i \in 1 .. Len(frames) :
              frames[i].object \in Active(store) /\ frames[i].definer \in Active(store)
         /\ \A i \in 1 .. Len(pending) : pending[i] \in Active(store)
<1>1. TypeOK /\ RefsEnough /\ frames \in Seq(Frame) /\ pending \in Seq(Holder)
  BY DEF IInv, TypeOK
<1>2. \A h : /\ FramePointers(frames, h) \in Nat /\ Count(pending, h) \in Nat
             /\ Holds(call, h) \in Nat
  BY <1>1, FramePointersType, CountType, PointersOfType
<1>3. ASSUME NEW h \in Holder,
             FramePointers(frames, h) >= 1 \/ Count(pending, h) >= 1 \/ Holds(call, h) >= 1
      PROVE  h \in Active(store)
  <2>1. PointersOf(frames, pending, call, h) >= 1
    BY <1>2, <1>3 DEF PointersOf
  <2> QED
    BY <1>1, <2>1, PointedActive
<1>4. Holds(call, call.who) >= 1 /\ Holds(call, call.found) >= 1
  BY HoldsBy
<1>5. \A i \in 1 .. Len(frames) :
        /\ frames[i].object \in Holder /\ frames[i].definer \in Holder
        /\ FramePointers(frames, frames[i].object) >= 1
        /\ FramePointers(frames, frames[i].definer) >= 1
  BY <1>1, FrameTypes
<1>6. \A i \in 1 .. Len(pending) : pending[i] \in Holder /\ Count(pending, pending[i]) >= 1
  BY <1>1, CountElement, ElementOfSeq
<1> QED
  BY <1>3, <1>4, <1>5, <1>6

-----------------------------------------------------------------------------
(***************************************************************************)
(* What is common to the steps of Next.                                    *)
(***************************************************************************)
LEMMA DeadDbrefsShrink ==
  ASSUME NEW s \in Store, NEW t, Sound(s, t)
  PROVE  DeadDbrefs(t) \subseteq DeadDbrefs(s)
<1> SUFFICES ASSUME NEW g \in Active(t), t.obj[g].dead = 1
             PROVE  t.obj[g].dbref \in DeadDbrefs(s)
  BY DEF DeadDbrefs
<1>1. g \in Active(s) /\ s.obj[g].dead = 1 /\ t.obj[g].dbref = s.obj[g].dbref
  BY DEF Sound
<1> QED
  BY <1>1 DEF DeadDbrefs

\* The new values of the variables have their types.
TypesStep ==
  /\ frames' \in Seq(Frame)
  /\ pending' \in Seq(Holder)
  /\ call' \in Call
  /\ restarts' = restarts
  /\ crashed' \in BOOLEAN

\* References and pointers change alike, and so do a call's share of them.
RefsStep ==
  /\ \A g \in Holder : References(store', g) - PointersOf(frames', pending', call', g)
                       = References(store, g) - PointersOf(frames, pending, call, g)
  /\ \A g \in Holder :
       \/ Holds(call', g) = 0
       \/ References(store', g) - Holds(call', g) >= References(store, g) - Holds(call, g)

\* Where references and pointers change alike, references still suffice.
LEMMA RefsStepHolds ==
  ASSUME IInv, store' \in Store, TypesStep, RefsStep
  PROVE  RefsEnough' /\ (Balanced => Balanced')
<1> DEFINE old(g) == PointersOf(frames, pending, call, g)
           new(g) == PointersOf(frames', pending', call', g)
<1>1. \A g \in Holder : /\ old(g) \in Int /\ new(g) \in Int
                        /\ References(store, g) \in Int /\ References(store', g) \in Int
  BY PointersOfType, StoreTypes DEF IInv, TypeOK, TypesStep
<1>2. \A g \in Holder : References(store, g) >= old(g)
  BY DEF IInv, RefsEnough
<1>3. \A g \in Holder : References(store', g) - new(g) = References(store, g) - old(g)
  BY DEF RefsStep
<1>4. /\ RefsEnough' <=> \A g \in Holder : References(store', g) >= new(g)
      /\ Balanced' <=> \A g \in Holder : References(store', g) = new(g)
      /\ Balanced <=> \A g \in Holder : References(store, g) = old(g)
  BY DEF RefsEnough, Balanced
<1> HIDE DEF old, new
<1> QED
  BY <1>1, <1>2, <1>3, <1>4

\* The dead objects that a call holds keep their references.
LEMMA DeadHeldStep ==
  ASSUME IInv, store' \in Store, ChainsOK(store'), TypesStep, RefsStep,
         \A g \in Active(store') : store'.obj[g].dead = 1 =>
           (g \in Active(store) /\ store.obj[g].dead = 1) \/ Holds(call', g) = 0
  PROVE  DeadHeld'
<1> SUFFICES ASSUME NEW g \in Active(store'), store'.obj[g].dead = 1
             PROVE  References(store', g) > Holds(call', g)
  BY DEF DeadHeld
<1>1. g \in Holder /\ References(store', g) >= 1 /\ References(store', g) \in Int
  BY ActiveHolder, StoreTypes DEF References
<1>2. /\ Holds(call', g) \in Int /\ Holds(call, g) \in Int /\ References(store, g) \in Int
  BY PointersOfType, StoreTypes, <1>1 DEF IInv, TypeOK
<1>3. CASE Holds(call', g) = 0
  BY <1>1, <1>3
<1>4. CASE Holds(call', g) # 0
  <2>1. References(store, g) > Holds(call, g)
    BY <1>4 DEF IInv, DeadHeld
  <2>2. References(store', g) - Holds(call', g) >= References(store, g) - Holds(call, g)
    BY <1>1, <1>4 DEF RefsStep
  <2> QED
    BY <1>1, <1>2, <2>1, <2>2
<1> QED
  BY <1>3, <1>4

\* A step that loses no object and changes references and pointers alike is
\* good.
LEMMA SoundStep ==
  ASSUME IInv, Sound(store, store'), TypesStep, CallShape', RefsStep, dbTop' = dbTop,
         call'.victim = call.victim \/ VictimGone'
  PROVE  Good
<1>1. store \in Store /\ ChainsOK(store) /\ store' \in Store /\ ChainsOK(store')
  BY DEF IInv, TypeOK, Sound
<1>2. TypeOK'
  BY <1>1 DEF IInv, TypeOK, TypesStep
<1>3. RefsEnough' /\ (Balanced => Balanced')
  BY <1>1, RefsStepHolds
<1>4. VictimGone'
  <2> SUFFICES ASSUME call'.victim = call.victim, call.victim # NULL
               PROVE  Gone(store', call.victim)
    BY DEF VictimGone
  <2>1. Gone(store, call.victim)
    BY DEF IInv, VictimGone
  <2>2. call.victim \in store'.heap \ Chained(store') /\ store'.obj[call.victim] = store.obj[call.victim]
    BY <2>1 DEF Gone, Sound
  <2> QED
    BY <2>1, <2>2 DEF Gone, Sound
<1>5. DeadHeld'
  BY <1>1, DeadHeldStep DEF Sound
<1>6. DbTopUnused'
  BY DEF IInv, DbTopUnused, Sound
<1>7. RootsSafe'
  <2>1. DeadDbrefs(store') \subseteq DeadDbrefs(store)
    BY <1>1, DeadDbrefsShrink
  <2>2. {SYSTEM_DBREF, ROOT_DBREF} \subseteq Dbref
    BY ClientAssumption, CacheAssumption DEF SYSTEM_DBREF, ROOT_DBREF, Dbref
  <2> QED
    BY <2>1, <2>2 DEF IInv, RootsSafe, Sound
<1>8. KeepObjects
  BY DEF KeepObjects, Sound
<1>9. DiskKept
  BY DEF DiskKept, Sound
<1> QED
  BY <1>1, <1>2, <1>3, <1>4, <1>5, <1>6, <1>7, <1>8, <1>9 DEF Good, IInv

\* A step that leaves every pointer alone, and the references as they are.
LEMMA QuietStep ==
  ASSUME IInv, NEW h, store' = store \/ Effect(store, store', h, 0) \/ store' = Sync(store),
         UNCHANGED <<frames, pending, dbTop, restarts, crashed>>,
         call' \in Call, CallShape',
         call'.who = call.who, call'.found = call.found, call'.victim = call.victim
  PROVE  Good
<1>1. store \in Store /\ ChainsOK(store)
  BY DEF IInv, TypeOK
<1>2. /\ Sound(store, store')
      /\ \A g \in Holder : References(store', g) = References(store, g)
  <2>1. CASE store' = store
    <3>1. Sound(store, store)
      BY <1>1 DEF Sound
    <3> QED
      BY <2>1, <3>1
  <2>2. CASE Effect(store, store', h, 0)
    BY <1>1, <2>2, StoreTypes DEF Effect
  <2>3. CASE store' = Sync(store)
    BY <1>1, <2>3, SyncSound, SyncEffect
  <2> QED
    BY <2>1, <2>2, <2>3
<1>3. TypesStep
  BY DEF TypesStep, IInv, TypeOK
<1>4. \A g : Holds(call', g) = Holds(call, g)
  BY HoldsBy
<1>5. \A g : PointersOf(frames', pending', call', g) = PointersOf(frames, pending, call, g)
  BY <1>4 DEF PointersOf
<1>6. RefsStep
  <2>1. \A g \in Holder : References(store, g) \in Int /\ Holds(call, g) \in Int
    BY <1>1, StoreTypes, PointersOfType DEF IInv, TypeOK
  <2> QED
    BY <1>2, <1>4, <1>5, <2>1 DEF RefsStep
<1> QED
  BY <1>2, <1>3, <1>6, SoundStep

\* What the invariant says of a state.
LEMMA Basics ==
  ASSUME IInv
  PROVE  /\ store \in Store /\ ChainsOK(store)
         /\ frames \in Seq(Frame) /\ pending \in Seq(Holder) /\ call \in Call
         /\ crashed \in BOOLEAN
         /\ CallShape
         /\ NULL \notin Holder
         /\ \A g \in Holder : /\ References(store, g) \in Int
                              /\ PointersOf(frames, pending, call, g) \in Int
                              /\ Holds(call, g) \in Int
BY StoreTypes, PointersOfType, ClientAssumption DEF IInv, TypeOK

\* The call in progress keeps its shape where nothing of it changes.
LEMMA ShapeKept ==
  ASSUME IInv, UNCHANGED <<frames, pending, call>>
  PROVE  CallShape'
BY DEF IInv, CallShape, Current

\* A successful cache_retrieve().
LEMMA Found ==
  ASSUME IInv, NEW d \in Dbref, CanRetrieve(store, d), Exists(store, d)
  PROVE  LET h == Retrieved(store, d)
             t == Retrieve(store, d)
         IN  /\ h \in Holder /\ t \in Store /\ ChainsOK(t) /\ h \in Active(t)
             /\ Effect(store, t, h, 1) /\ FoundBy(store, t, h, d)
             /\ t.obj[h].data \in Image /\ t.obj[h].dbref = d
<1> DEFINE h == Retrieved(store, d)
           t == Retrieve(store, d)
<1>1. FoundBy(store, t, h, d)
  BY RetrieveFound, Basics DEF Exists
<1> HIDE DEF h, t
<1>2. t \in Store /\ ChainsOK(t) /\ h \in Active(t) /\ Effect(store, t, h, 1) /\ t.obj[h].dbref = d
  BY <1>1 DEF FoundBy, Effect, Sound
<1>3. h \in Holder
  BY <1>2, StoreTypes
<1>4. t.obj[h].data \in Image
  BY <1>2, <1>3, StoreTypes DEF Record
<1> QED
  BY <1>1, <1>2, <1>3, <1>4 DEF h, t

\* The object a pointer of the call refers to has a dbref and data.
LEMMA HolderData ==
  ASSUME IInv, NEW h \in Holder
  PROVE  /\ store.obj[h].data \in Image
         /\ store.obj[h].data.parents \in Seq(Dbref)
         /\ store.obj[h].data.children \in Seq(Dbref)
         /\ h \in Active(store) => store.obj[h].dbref \in Dbref
<1>1. store.obj[h].data \in Image
  BY Basics, StoreTypes DEF Record
<1>2. h \in Active(store) => store.obj[h].dbref \in Dbref
  BY Basics, ActiveHolder
<1> QED
  BY <1>1, <1>2 DEF Image

-----------------------------------------------------------------------------
(***************************************************************************)
(* The operations.                                                         *)
(***************************************************************************)
LEMMA IdleCall ==
  /\ Idle \in Call
  /\ Idle.pc = "idle" /\ Idle.who = NULL /\ Idle.victim = NULL /\ Idle.found = NULL
BY EmptySeq DEF Idle, Call, PC

\* An operation on an object that does not exist.
LEMMA NotFoundGood ==
  ASSUME IInv, NEW d \in Dbref, CanRetrieve(store, d), NotFound(d)
  PROVE  Good
<1>1. Effect(store, store', Retrieved(store, d), 0)
  BY Basics, RetrieveMissing DEF NotFound, Exists
<1>2. UNCHANGED <<frames, pending, call, dbTop, restarts, crashed>>
  BY DEF NotFound
<1>3. CallShape' /\ call' \in Call
  BY <1>2, ShapeKept, Basics
<1> QED
  BY <1>1, <1>2, <1>3, QuietStep

\* An operation that takes a reference to object d and begins a loop.
LEMMA BeginGood ==
  ASSUME IInv, Ready, NEW d \in Dbref, CanRetrieve(store, d), Exists(store, d),
         store' = Retrieve(store, d), call' \in Call, CallShape',
         call'.who = Retrieved(store, d), call'.found = NULL, call'.victim = NULL,
         UNCHANGED <<frames, pending, dbTop, restarts, crashed>>
  PROVE  Good
<1> DEFINE h == Retrieved(store, d)
<1>1. h \in Holder /\ Effect(store, store', h, 1) /\ Sound(store, store')
  BY Found DEF Effect
<1>2. call = Idle /\ pending = <<>>
  BY Basics DEF CallShape, Ready, Running
<1> HIDE DEF h
<1>3. TypesStep
  BY Basics DEF TypesStep
<1>4. \A g \in Holder : Holds(call, g) = 0 /\ Holds(call', g) = IF g = h THEN 1 ELSE 0
  BY <1>2, HoldsBy, ClientAssumption DEF Idle, h
<1>5. \A g \in Holder : References(store', g) = References(store, g) + Holds(call', g)
  BY <1>1, <1>4 DEF Effect
<1>6. RefsStep
  <2>1. \A g : FramePointers(frames, g) + Count(pending, g) \in Int
    BY Basics, FramePointersType, CountType
  <2>2. \A g \in Holder : PointersOf(frames', pending', call', g)
                          = PointersOf(frames, pending, call, g) + Holds(call', g)
    BY <1>4, <2>1 DEF PointersOf
  <2> QED
    BY <1>4, <1>5, <2>2, Basics DEF RefsStep
<1>7. VictimGone'
  BY DEF VictimGone
<1> QED
  BY <1>1, <1>3, <1>6, <1>7, SoundStep

\* Sending a message.
LEMMA SendMessageGood ==
  ASSUME IInv, NEW d \in Dbref, SendMessage(d)
  PROVE  Good
<1>1. CASE NotFound(d)
  BY <1>1, NotFoundGood DEF SendMessage
<1>2. CASE ~NotFound(d)
  <2> DEFINE h == Retrieved(store, d)
  <2>1. /\ Ready /\ CanRetrieve(store, d) /\ Exists(store, d)
        /\ store' = Retrieve(store, d)
        /\ call' = [Idle EXCEPT !.pc = "method", !.who = h, !.target = h]
        /\ UNCHANGED <<frames, pending, dbTop, restarts, crashed>>
    BY <1>2 DEF SendMessage
  <2>2. h \in Holder
    BY <2>1, Found
  <2> HIDE DEF h
  <2>3. /\ call' \in Call
        /\ call'.pc = "method" /\ call'.who = h /\ call'.target = h
        /\ call'.found = NULL /\ call'.victim = NULL
    BY <2>1, <2>2, IdleCall DEF Call, PC
  <2>4. CallShape'
    BY <2>1, <2>2, <2>3 DEF CallShape, Ready
  <2> QED
    BY <2>1, <2>3, <2>4, BeginGood DEF h
<1> QED
  BY <1>1, <1>2

\* The object of the innermost frame.
LEMMA CurrentActive ==
  ASSUME IInv, frames # <<>>
  PROVE  /\ Len(frames) \in 1 .. Len(frames)
         /\ Current \in Frame
         /\ Current.object \in Holder /\ Current.object \in Active(store)
         /\ Current.definer \in Holder /\ Current.definer \in Active(store)
<1>1. frames \in Seq(Frame) /\ Len(frames) \in Nat
  BY Basics, LenProperties
<1>2. Len(frames) # 0
  BY <1>1, EmptySeq
<1>3. Len(frames) \in 1 .. Len(frames)
  BY <1>1, <1>2
<1>4. Current \in Frame
  BY <1>1, <1>3, ElementOfSeq DEF Current
<1> QED
  BY <1>3, <1>4, HeldActive DEF Current, Frame

\* Passing a message.
LEMMA PassMessageGood ==
  ASSUME IInv, PassMessage
  PROVE  Good
<1>1. /\ Ready /\ frames # <<>> /\ Current.object \in Holder
      /\ UNCHANGED <<frames, pending, dbTop, restarts, crashed>>
  BY CurrentActive DEF PassMessage
<1>2. call = Idle /\ pending = <<>>
  BY <1>1, Basics DEF CallShape, Ready, Running
<1>3. CASE call' = [Idle EXCEPT !.pc = "method", !.target = Current.object] /\ UNCHANGED store
  <2>1. /\ call' \in Call /\ call'.pc = "method" /\ call'.target = Current.object
        /\ call'.who = NULL /\ call'.found = NULL /\ call'.victim = NULL
    BY <1>1, <1>3, IdleCall DEF Call, PC
  <2>2. CallShape'
    BY <1>1, <1>2, <2>1 DEF CallShape, Current
  <2> QED
    BY <1>1, <1>2, <1>3, <2>1, <2>2, QuietStep DEF Idle
<1>4. ASSUME NEW b \in Dbref, Exists(store, b), CanRetrieve(store, b),
             store' = Retrieve(store, b),
             call' = [Idle EXCEPT !.pc = "method", !.who = Retrieved(store, b),
                                  !.target = Current.object]
      PROVE  Good
  <2> DEFINE h == Retrieved(store, b)
  <2>1. h \in Holder
    BY <1>4, Found
  <2> HIDE DEF h
  <2>2. /\ call' \in Call /\ call'.pc = "method" /\ call'.who = h
        /\ call'.target = Current.object /\ call'.found = NULL /\ call'.victim = NULL
    BY <1>1, <1>4, <2>1, IdleCall DEF Call, PC, h
  <2>3. CallShape'
    BY <1>1, <1>2, <2>2 DEF CallShape, Current
  <2> QED
    BY <1>1, <1>4, <2>2, <2>3, BeginGood DEF h
<1> QED
  BY <1>3, <1>4 DEF PassMessage

\* Returning from a method.
LEMMA FrameReturnGood ==
  ASSUME IInv, FrameReturn
  PROVE  Good
<1> DEFINE f == Current
           fr == SubSeq(frames, 1, Len(frames) - 1)
<1>1. /\ Ready /\ frames # <<>> /\ pending' = <<f.definer, f.object>> /\ frames' = fr
      /\ UNCHANGED <<store, call, dbTop, restarts, crashed>>
      /\ f.object \in Holder /\ f.definer \in Holder
  BY CurrentActive DEF FrameReturn
<1>2. call = Idle /\ pending = <<>>
  BY <1>1, Basics DEF CallShape, Ready, Running
<1>3. /\ fr \in Seq(Frame) /\ Len(frames) = Len(fr) + 1
      /\ \A i \in 1 .. Len(fr) : frames[i] = fr[i]
  <2>1. /\ fr \in Seq(Frame) /\ Len(fr) = Len(frames) - 1
        /\ \A i \in 1 .. Len(fr) : fr[i] = frames[i]
    BY <1>1, Basics, CountFront
  <2>2. Len(frames) \in Nat
    BY Basics, LenProperties
  <2> HIDE DEF fr
  <2> QED
    BY <2>1, <2>2
<1> HIDE DEF fr
<1>4. \A g : FramePointers(frames, g) = FramePointers(fr, g)
               + (IF f.object = g THEN 1 ELSE 0) + (IF f.definer = g THEN 1 ELSE 0)
  BY <1>3, Basics, FramePushed DEF Current
<1> HIDE DEF f
<1>5. \A g : /\ Count(pending', g) = (IF f.definer = g THEN 1 ELSE 0) + (IF f.object = g THEN 1 ELSE 0)
             /\ Count(pending, g) = 0
             /\ FramePointers(fr, g) \in Int /\ Holds(call, g) \in Int
  <2>1. \A g : /\ Count(pending', g) = (IF f.definer = g THEN 1 ELSE 0) + (IF f.object = g THEN 1 ELSE 0)
               /\ Count(pending, g) = 0
    BY <1>1, <1>2, CountTwo, CountNone
  <2>2. \A g : FramePointers(fr, g) \in Int
    BY <1>3, FramePointersType
  <2>3. \A g : Holds(call, g) \in Int
    BY PointersOfType, Basics
  <2> QED
    BY <2>1, <2>2, <2>3
<1>6. \A g : Holds(call', g) = Holds(call, g)
  BY <1>1
<1>7. \A g : PointersOf(frames', pending', call', g) = PointersOf(frames, pending, call, g)
  BY <1>1, <1>4, <1>5, <1>6 DEF PointersOf
<1>8. RefsStep
  <2>1. \A g \in Holder : References(store', g) = References(store, g)
    BY <1>1
  <2> QED
    BY <2>1, <1>6, <1>7, Basics DEF RefsStep
<1>9. TypesStep
  BY <1>1, <1>3, Basics DEF TypesStep
<1>10. CallShape'
  BY <1>1, <1>2 DEF CallShape, Idle
<1>11. Sound(store, store')
  BY <1>1, Basics DEF Sound
<1> QED
  BY <1>1, <1>8, <1>9, <1>10, <1>11, SoundStep

\* The begin of create.
LEMMA CreateGood ==
  ASSUME IInv, NEW parents \in ParentLists, Create(parents)
  PROVE  Good
<1> DEFINE d == dbTop
           h == Victim(store, d)
           contents == NewObject(parents)
<1>1. /\ Ready /\ d <= MaxDbref /\ CanGetHolder(store, d)
      /\ store' = GetHolder(store, d, contents)
      /\ call' = [Idle EXCEPT !.pc = "adopt", !.who = h, !.todo = parents]
      /\ dbTop' = d + 1
      /\ UNCHANGED <<frames, pending, restarts, crashed>>
      /\ parents \in Seq(Dbref)
  BY ClientAssumption DEF Create
<1>2. call = Idle /\ pending = <<>>
  BY <1>1, Basics DEF CallShape, Ready, Running
<1>3. d \in Dbref /\ d \in Int /\ MaxDbref \in Nat
  BY <1>1, CacheAssumption DEF IInv, TypeOK, Dbref
<1>4. contents \in Image
  BY <1>1, BlankTypes DEF NewObject, Image
<1>5. \A g \in Chained(store) : store.obj[g].dbref # d
  BY <1>3 DEF IInv, DbTopUnused, Existing
<1>6. /\ store' \in Store /\ ChainsOK(store')
      /\ h \in Active(store') /\ h \notin Active(store) /\ h \in Holder
      /\ h \in Chained(store) \/ h \notin store.heap
      /\ Active(store') \ {h} = Active(store)
      /\ Chained(store') = Chained(store) \cup {h}
      /\ store'.obj = [store.obj EXCEPT ![h] = [dbref |-> d, refs |-> 1, dirty |-> 0,
                                                dead |-> 0, data |-> contents]]
      /\ store'.disk = WriteBack(store, h)
  <2> DEFINE t == GetHolder(store, d, contents)
  <2>1. /\ t \in Store /\ ChainsOK(t)
        /\ h \in Active(t) /\ h \notin Active(store) /\ h \in Holder
        /\ h \in Chained(store) \/ h \notin store.heap
        /\ Active(t) \ {h} = Active(store)
        /\ Chained(t) = Chained(store) \cup {h}
        /\ t.obj = [store.obj EXCEPT ![h] = [dbref |-> d, refs |-> 1, dirty |-> 0,
                                             dead |-> 0, data |-> contents]]
        /\ t.disk = WriteBack(store, h)
    <3>1. store \in Store /\ ChainsOK(store) /\ CanGetHolder(store, d)
      BY <1>1, Basics
    <3> HIDE DEF d, contents
    <3> QED
      BY <3>1, <1>3, <1>4, <1>5, GetHolderEffect
  <2>2. store' = t
    BY <1>1
  <2> HIDE DEF t, h, d, contents
  <2> QED
    BY <2>1, <2>2
<1> HIDE DEF h, d, contents
<1>7. /\ store'.obj[h].dbref = d /\ store'.obj[h].refs = 1 /\ store'.obj[h].dead = 0
      /\ \A g \in Holder : g # h => store'.obj[g] = store.obj[g]
  BY <1>6, Basics DEF Store
<1>8. /\ call' \in Call /\ call'.pc = "adopt" /\ call'.who = h
      /\ call'.found = NULL /\ call'.victim = NULL
  BY <1>1, <1>6, IdleCall DEF Call, PC
<1>9. TypesStep
  BY <1>1, <1>8, Basics DEF TypesStep
<1>10. CallShape'
  BY <1>1, <1>2, <1>6, <1>8 DEF CallShape
<1>11. \A g \in Holder : Holds(call, g) = 0 /\ Holds(call', g) = IF g = h THEN 1 ELSE 0
  BY <1>2, <1>8, HoldsBy, ClientAssumption, IdleCall
<1>12. \A g \in Holder : References(store', g) = References(store, g) + Holds(call', g)
  BY <1>6, <1>7, <1>11, Basics DEF References
<1>13. RefsStep
  <2>1. \A g : FramePointers(frames, g) + Count(pending, g) \in Int
    BY Basics, FramePointersType, CountType
  <2>2. \A g \in Holder : PointersOf(frames', pending', call', g)
                          = PointersOf(frames, pending, call, g) + Holds(call', g)
    BY <1>1, <1>11, <2>1 DEF PointersOf
  <2> QED
    BY <1>11, <1>12, <2>2, Basics DEF RefsStep
<1>14. RefsEnough' /\ (Balanced => Balanced')
  BY <1>6, <1>9, <1>13, RefsStepHolds
<1>15. \A g \in Active(store') : store'.obj[g].dead = 1 => g \in Active(store) /\ store.obj[g].dead = 1
  BY <1>6, <1>7, StoreTypes
<1>16. DeadHeld'
  BY <1>6, <1>9, <1>13, <1>15, DeadHeldStep
<1>17. DbTopUnused'
  <2>1. Existing(store') \subseteq Existing(store) \cup {d}
    BY <1>6, <1>7, WriteBackDisk, Basics, StoreTypes DEF Existing
  <2>2. \A e \in Existing(store') : e \in Int
    BY CacheAssumption DEF Existing, Dbref
  <2> QED
    BY <1>1, <1>3, <2>1, <2>2 DEF IInv, DbTopUnused, d
<1>18. RootsSafe'
  <2>1. DeadDbrefs(store') \subseteq DeadDbrefs(store)
    BY <1>6, <1>7, <1>15, StoreTypes DEF DeadDbrefs
  <2>2. {SYSTEM_DBREF, ROOT_DBREF} \subseteq Dbref
    BY ClientAssumption, CacheAssumption DEF SYSTEM_DBREF, ROOT_DBREF, Dbref
  <2>3. \A e \in Dbref : store.disk[e] # NoImage => store'.disk[e] # NoImage
    BY <1>6, Basics, WriteBackDisk
  <2> QED
    BY <2>1, <2>2, <2>3 DEF IInv, RootsSafe
<1>19. KeepObjects
  BY <1>6, <1>7, Basics, StoreTypes DEF KeepObjects
<1>20. TypeOK'
  BY <1>1, <1>3, <1>6, <1>9 DEF IInv, TypeOK, TypesStep, d
<1>21. VictimGone'
  BY <1>8 DEF VictimGone
<1>22. DiskKept
  BY <1>6, Basics, WriteBackDisk DEF DiskKept
<1> QED
  BY <1>6, <1>10, <1>14, <1>16, <1>17, <1>18, <1>19, <1>20, <1>21, <1>22 DEF Good, IInv

\* The begin of destroy.
LEMMA DestroyGood ==
  ASSUME IInv, NEW d \in Dbref, Destroy(d)
  PROVE  Good
<1>1. CASE NotFound(d)
  BY <1>1, NotFoundGood DEF Destroy
<1>2. CASE ~NotFound(d)
  <2> DEFINE h == Retrieved(store, d)
             t == Retrieve(store, d)
  <2>1. /\ Ready /\ d \notin {ROOT_DBREF, SYSTEM_DBREF} /\ CanRetrieve(store, d) /\ Exists(store, d)
        /\ store' = MarkDead(t, h)
        /\ pending' = <<h>>
        /\ UNCHANGED <<frames, call, dbTop, restarts, crashed>>
    BY <1>2 DEF Destroy
  <2>2. call = Idle /\ pending = <<>>
    BY <2>1, Basics DEF CallShape, Ready, Running
  <2>3. /\ h \in Holder /\ t \in Store /\ ChainsOK(t) /\ h \in Active(t)
        /\ Effect(store, t, h, 1) /\ t.obj[h].dbref = d
    BY <2>1, Found
  <2> HIDE DEF h, t
  <2>4. /\ store' \in Store /\ ChainsOK(store')
        /\ Active(store') = Active(t) /\ Chained(store') = Chained(t)
        /\ \A g \in Holder : References(store', g) = References(t, g)
        /\ \A g \in Holder : store'.obj[g].dbref = t.obj[g].dbref
        /\ \A g \in Holder : g # h => store'.obj[g] = t.obj[g]
        /\ store'.heap = t.heap /\ store'.disk = t.disk
    BY <2>1, <2>3, MarkDeadEffect
  <2>5. TypesStep
    BY <2>1, <2>3, Basics DEF TypesStep
  <2>6. CallShape'
    BY <2>1, <2>2, IdleCall DEF CallShape
  <2>7. \A g : Holds(call', g) = Holds(call, g)
    BY <2>1
  <2>8. \A g \in Holder : Holds(call, g) = 0
    BY <2>2, IdleCall, HoldsBy, ClientAssumption
  <2>9. RefsStep
    <3>1. \A g : FramePointers(frames, g) \in Int
      BY Basics, FramePointersType
    <3>2. \A g : Count(pending, g) = 0 /\ Count(pending', g) = IF g = h THEN 1 ELSE 0
      BY <2>1, <2>2, CountNone, CountOne
    <3>3. \A g \in Holder : PointersOf(frames', pending', call', g)
                            = PointersOf(frames, pending, call, g) + (IF g = h THEN 1 ELSE 0)
      BY <2>1, <2>7, <2>8, <3>1, <3>2 DEF PointersOf
    <3>4. \A g \in Holder : References(store', g) = References(store, g) + (IF g = h THEN 1 ELSE 0)
      BY <2>3, <2>4 DEF Effect
    <3> QED
      BY <2>7, <2>8, <3>3, <3>4, Basics DEF RefsStep
  <2>10. RefsEnough' /\ (Balanced => Balanced')
    BY <2>4, <2>5, <2>9, RefsStepHolds
  <2>11. DeadHeld'
    <3>1. \A g \in Active(store') : Holds(call', g) = 0
      BY <2>4, <2>7, <2>8, StoreTypes
    <3> QED
      BY <2>4, <2>5, <2>9, <3>1, DeadHeldStep
  <2>12. DbTopUnused'
    <3>1. Existing(store') \subseteq Existing(t)
      BY <2>3, <2>4, StoreTypes DEF Existing
    <3> QED
      BY <2>1, <2>3, <3>1 DEF IInv, DbTopUnused, Effect, Sound
  <2>13. RootsSafe'
    <3>1. DeadDbrefs(t) \subseteq DeadDbrefs(store)
      BY <2>3, Basics, DeadDbrefsShrink DEF Effect
    <3>2. DeadDbrefs(store') \subseteq DeadDbrefs(t) \cup {d}
      BY <2>3, <2>4, StoreTypes DEF DeadDbrefs
    <3>3. {SYSTEM_DBREF, ROOT_DBREF} \subseteq Dbref
      BY ClientAssumption, CacheAssumption DEF SYSTEM_DBREF, ROOT_DBREF, Dbref
    <3> QED
      BY <2>1, <2>3, <2>4, <3>1, <3>2, <3>3 DEF IInv, RootsSafe, Effect, Sound
  <2>14. KeepObjects
    BY <2>3, <2>4, Basics, StoreTypes DEF KeepObjects, Effect, Sound
  <2>15. TypeOK'
    BY <2>1, <2>4, <2>5 DEF IInv, TypeOK, TypesStep
  <2>16. VictimGone'
    BY <2>1, <2>2, IdleCall DEF VictimGone
  <2>17. DiskKept
    BY <2>3, <2>4 DEF DiskKept, Effect, Sound
  <2> QED
    BY <2>4, <2>6, <2>10, <2>11, <2>12, <2>13, <2>14, <2>15, <2>16, <2>17 DEF Good, IInv
<1> QED
  BY <1>1, <1>2

\* The begin of chparents.
LEMMA ChangeParentsGood ==
  ASSUME IInv, NEW d \in Dbref, NEW parents \in ParentLists, ChangeParents(d, parents)
  PROVE  Good
<1> DEFINE h == Retrieved(store, d)
<1>1. CanRetrieve(store, d) /\ Ready /\ parents \in Seq(Dbref)
  BY ClientAssumption DEF ChangeParents
<1>2. call = Idle /\ pending = <<>>
  BY <1>1, Basics DEF CallShape, Ready, Running
<1>3. CASE NotFound(d)
  BY <1>1, <1>3, NotFoundGood
<1>4. CASE /\ Exists(store, d) /\ parents = <<>> /\ store' = Retrieve(store, d)
           /\ UNCHANGED <<frames, pending, call, dbTop, restarts, crashed>>
  <2>1. h \in Holder /\ Effect(store, store', h, 1) /\ Sound(store, store')
    BY <1>1, <1>4, Found DEF Effect
  <2> HIDE DEF h
  <2>2. TypesStep /\ CallShape' /\ store' \in Store /\ ChainsOK(store')
    BY <1>4, <2>1, Basics, ShapeKept DEF TypesStep, Sound
  <2>3. /\ \A g : Holds(call', g) = Holds(call, g)
        /\ \A g : PointersOf(frames', pending', call', g) = PointersOf(frames, pending, call, g)
    BY <1>4
  <2>4. \A g \in Holder : References(store', g) >= References(store, g) /\ References(store', g) \in Int
    BY <2>1, Basics DEF Effect
  <2>5. RefsEnough'
    BY <2>3, <2>4, Basics DEF IInv, RefsEnough
  <2>6. DeadHeld'
    <3> SUFFICES ASSUME NEW g \in Active(store'), store'.obj[g].dead = 1
                 PROVE  References(store', g) > Holds(call', g)
      BY DEF DeadHeld
    <3>1. g \in Holder
      BY <2>2, StoreTypes
    <3>2. References(store, g) > Holds(call, g)
      BY <2>1 DEF Sound, IInv, DeadHeld
    <3> QED
      BY <3>1, <3>2, <2>3, <2>4, Basics
  <2>7. VictimGone'
    BY <1>2, <1>4, IdleCall DEF VictimGone
  <2>8. DbTopUnused'
    BY <1>4, <2>1 DEF IInv, DbTopUnused, Sound
  <2>9. RootsSafe'
    <3>1. DeadDbrefs(store') \subseteq DeadDbrefs(store)
      BY <2>1, Basics, DeadDbrefsShrink
    <3>2. {SYSTEM_DBREF, ROOT_DBREF} \subseteq Dbref
      BY ClientAssumption, CacheAssumption DEF SYSTEM_DBREF, ROOT_DBREF, Dbref
    <3> QED
      BY <2>1, <3>1, <3>2 DEF IInv, RootsSafe, Sound
  <2>10. KeepObjects
    BY <2>1 DEF KeepObjects, Sound
  <2>11. TypeOK'
    BY <1>4, <2>2 DEF IInv, TypeOK, TypesStep
  <2>12. DiskKept
    BY <2>1 DEF DiskKept, Sound
  <2> QED
    BY <1>4, <2>2, <2>5, <2>6, <2>7, <2>8, <2>9, <2>10, <2>11, <2>12 DEF Good, IInv
<1>5. CASE /\ Exists(store, d) /\ parents # <<>> /\ store' = Retrieve(store, d)
           /\ call' = [Idle EXCEPT !.pc = "check", !.who = Retrieved(store, d),
                                   !.todo = parents, !.wanted = parents]
           /\ UNCHANGED <<frames, pending, dbTop, restarts, crashed>>
  <2>1. h \in Holder
    BY <1>1, <1>5, Found
  <2> HIDE DEF h
  <2>2. /\ call' \in Call /\ call'.pc = "check" /\ call'.who = h
        /\ call'.found = NULL /\ call'.victim = NULL
    BY <1>1, <1>5, <2>1, IdleCall DEF Call, PC, h
  <2>3. CallShape'
    BY <1>2, <1>5, <2>1, <2>2 DEF CallShape
  <2> QED
    BY <1>1, <1>5, <2>2, <2>3, BeginGood DEF h
<1> QED
  BY <1>3, <1>4, <1>5 DEF ChangeParents

\* Rewriting the contents of an object that stays where it is.
LEMMA RewriteGood ==
  ASSUME IInv, NEW h \in Active(store), NEW contents \in Image,
         \/ store' = SetData(store, h, contents)
         \/ store' = MarkDirty(SetData(store, h, contents), h),
         UNCHANGED <<frames, pending, dbTop, restarts, crashed>>,
         call' \in Call, CallShape',
         call'.who = call.who, call'.found = call.found, call'.victim = call.victim
  PROVE  Good
<1> DEFINE s1 == SetData(store, h, contents)
<1>1. Effect(store, s1, h, 0) /\ Active(s1) = Active(store) /\ h \in Holder
  BY Basics, WriteEffect, StoreTypes
<1> HIDE DEF s1
<1>2. s1 \in Store /\ ChainsOK(s1)
  BY <1>1 DEF Effect, Sound
<1>3. Effect(s1, MarkDirty(s1, h), h, 0)
  BY <1>1, <1>2, WriteEffect, BlankTypes
<1>4. Effect(store, MarkDirty(s1, h), h, 0 + 0)
  BY <1>1, <1>3, Basics, EffectTrans
<1>5. Effect(store, store', h, 0)
  BY <1>1, <1>4 DEF s1
<1> QED
  BY <1>5, QuietStep

\* Defining a method.
LEMMA DefineMethodGood ==
  ASSUME IInv, NEW m \in Methods, DefineMethod(m)
  PROVE  Good
<1> DEFINE h == Current.object
           contents == [store.obj[h].data EXCEPT !.methods = m]
<1>1. /\ frames # <<>> /\ store' = MarkDirty(SetData(store, h, contents), h)
      /\ UNCHANGED <<frames, pending, call, dbTop, restarts, crashed>>
  BY DEF DefineMethod
<1>2. h \in Active(store) /\ h \in Holder
  BY <1>1, CurrentActive
<1>3. contents \in Image
  BY <1>2, HolderData DEF Image
<1>4. CallShape' /\ call' \in Call
  BY <1>1, ShapeKept, Basics
<1> QED
  BY <1>1, <1>2, <1>3, <1>4, RewriteGood

\* Assigning a variable.
LEMMA AssignVarGood ==
  ASSUME IInv, NEW v \in Vars, AssignVar(v)
  PROVE  Good
<1> DEFINE h == Current.object
           contents == [store.obj[h].data EXCEPT !.vars = v]
<1>1. /\ frames # <<>>
      /\ \/ store' = SetData(store, h, contents)
         \/ store' = MarkDirty(SetData(store, h, contents), h)
      /\ UNCHANGED <<frames, pending, call, dbTop, restarts, crashed>>
  BY DEF AssignVar
<1>2. h \in Active(store) /\ h \in Holder
  BY <1>1, CurrentActive
<1>3. contents \in Image
  BY <1>2, HolderData DEF Image
<1>4. CallShape' /\ call' \in Call
  BY <1>1, ShapeKept, Basics
<1> QED
  BY <1>1, <1>2, <1>3, <1>4, RewriteGood

\* binary_dump().
LEMMA BinaryDumpGood ==
  ASSUME IInv, BinaryDump
  PROVE  Good
<1>1. store' = Sync(store) /\ UNCHANGED <<frames, pending, call, dbTop, restarts, crashed>>
  BY DEF BinaryDump
<1>2. CallShape' /\ call' \in Call
  BY <1>1, ShapeKept, Basics
<1> QED
  BY <1>1, <1>2, QuietStep

-----------------------------------------------------------------------------
(***************************************************************************)
(* Starting, restarting, and dying.                                        *)
(***************************************************************************)
LEMMA TouchEffect ==
  ASSUME NEW s \in Store, ChainsOK(s), NEW d \in Dbref, CanRetrieve(s, d), Check(s, d)
  PROVE  Effect(s, Touch(s, d), Retrieved(s, d), 0)
<1>1. FoundBy(s, Retrieve(s, d), Retrieved(s, d), d)
  BY RetrieveFound
<1>2. Effect(s, Retrieve(s, d), Retrieved(s, d), 1) /\ Retrieved(s, d) \in Holder
  BY <1>1, StoreTypes DEF FoundBy, Effect, Sound
<1> QED
  BY <1>2, VisitEffect DEF Touch

\* What start-up keeps of the database.
Booted(disk, s) ==
  /\ s \in Store /\ ChainsOK(s)
  /\ \A h \in Holder : References(s, h) = 0
  /\ \A d \in Existing(s) : disk[d] # NoImage
  /\ \A d \in Dbref : disk[d] # NoImage => s.disk[d] # NoImage

\* Start-up looks at an object and gives it back.
LEMMA TouchBooted ==
  ASSUME NEW disk, NEW s \in Store, Booted(disk, s), NEW d \in Dbref, CanRetrieve(s, d),
         disk[d] # NoImage
  PROVE  Booted(disk, Touch(s, d))
<1> DEFINE t == Touch(s, d)
           h == Retrieved(s, d)
<1>1. Check(s, d)
  BY DEF Booted, Check
<1>2. Effect(s, t, h, 0)
  BY <1>1, TouchEffect DEF Booted
<1>3. Active(s) = {}
  <2>1. \A g \in Active(s) : g \in Holder /\ References(s, g) >= 1
    BY ActiveHolder DEF Booted, References
  <2> QED
    BY <2>1 DEF Booted
<1> HIDE DEF t, h
<1>4. DeadDbrefs(s) = {}
  BY <1>3 DEF DeadDbrefs
<1>5. \A g \in Holder : References(t, g) = 0
  BY <1>2 DEF Effect, Booted
<1>6. /\ t \in Store /\ ChainsOK(t)
      /\ \A e \in Existing(t) : disk[e] # NoImage
      /\ \A e \in Dbref : disk[e] # NoImage => t.disk[e] # NoImage
  BY <1>2, <1>4 DEF Effect, Sound, Booted
<1> QED
  BY <1>5, <1>6 DEF Booted, t

\* The first of start-up's two look-ups finds its holder, and leaves one for
\* the second.
LEMMA FirstTouched ==
  ASSUME NEW disk \in [Dbref -> Image \cup {NoImage}],
         disk[ROOT_DBREF] # NoImage, disk[SYSTEM_DBREF] # NoImage
  PROVE  LET s0 == InitCache(disk)
             s1 == Touch(s0, ROOT_DBREF)
         IN  /\ Booted(disk, s0) /\ CanRetrieve(s0, ROOT_DBREF)
             /\ Booted(disk, s1) /\ CanRetrieve(s1, SYSTEM_DBREF)
<1> DEFINE s0 == InitCache(disk)
           d == ROOT_DBREF
           b == Hash(d)
           h == Victim(s0, d)
           t == Load(s0, d)
           s1 == Touch(s0, d)
<1>1. d \in Dbref /\ SYSTEM_DBREF \in Dbref
  BY CacheAssumption, ClientAssumption DEF ROOT_DBREF, SYSTEM_DBREF, Dbref
<1>2. b \in Bucket /\ Hash(SYSTEM_DBREF) \in Bucket
  BY HashType DEF ROOT_DBREF, SYSTEM_DBREF
<1>3. /\ s0 \in Store /\ ChainsOK(s0)
      /\ Active(s0) = {}
      /\ Existing(s0) = {e \in Dbref : disk[e] # NoImage}
      /\ s0.inactive = InitChain
      /\ s0.disk = disk
  BY InitCacheChains
<1>4. \A c \in Bucket : InitChain[c] # <<>> /\ InitChain[c] \in Seq(Holder)
  BY CacheAssumption
<1>5. \A g \in Holder : s0.obj[g].dbref = EMPTY
  BY DEF InitCache, EmptyHolder
<1> HIDE DEF s0, d
<1>6. Booted(disk, s0)
  BY <1>3 DEF Booted, References
<1>7. ActiveHits(s0, d) = {} /\ InactiveHits(s0, d) = {}
  <2>1. \A g \in Chained(s0) : s0.obj[g].dbref # d
    BY <1>1, <1>3, <1>5, StoreTypes, CacheAssumption DEF Dbref, EMPTY
  <2>2. s0.active[b] \subseteq Chained(s0) /\ Range(s0.inactive[b]) \subseteq Chained(s0)
    BY <1>2, <1>3, StoreTypes
  <2> QED
    BY <2>1, <2>2 DEF ActiveHits, InactiveHits
<1>8. CanGetHolder(s0, d) /\ CanRetrieve(s0, d) /\ s0.disk[d] # NoImage
  BY <1>2, <1>3, <1>4 DEF CanGetHolder, CanRetrieve, d
<1>9. s1 = Discard(t, h)
  BY <1>7, <1>8 DEF Touch, Retrieve, Retrieved
<1>10. /\ t.obj[h] = [dbref |-> d, refs |-> 1, dirty |-> 0, dead |-> 0, data |-> s0.disk[d]]
       /\ t.inactive = [s0.inactive EXCEPT ![b] =
                          IF s0.inactive[b] = <<>> THEN <<>>
                          ELSE SubSeq(s0.inactive[b], 1, Len(s0.inactive[b]) - 1)]
       /\ t \in Store
  <2>1. h \in Holder
    BY <1>1, <1>3, <1>8, VictimPlace
  <2>2. t \in Store
    BY <1>1, <1>3, <1>7, <1>8, LoadEffect DEF Effect, Sound
  <2> HIDE DEF h
  <2>3. s0.obj \in [Holder -> Record]
    BY <1>3 DEF Store
  <2> QED
    BY <2>1, <2>2, <2>3 DEF Load, GetHolder, h
<1> HIDE DEF h, t
<1>11. s1.inactive = [t.inactive EXCEPT ![b] = <<h>> \o t.inactive[b]]
  BY <1>2, <1>9, <1>10 DEF Discard, Store
<1>12. \A c \in Bucket : c # b => s1.inactive[c] = InitChain[c]
  BY <1>2, <1>3, <1>10, <1>11, CacheAssumption
<1>13. s1.inactive[b] # <<>>
  <2>1. t.inactive[b] \in Seq(Holder) /\ t.inactive \in [Bucket -> Seq(Holder)]
    BY <1>2, <1>10 DEF Store
  <2>2. s1.inactive[b] = <<h>> \o t.inactive[b]
    BY <1>2, <1>11, <2>1
  <2>3. Len(t.inactive[b]) \in Nat /\ Len(<<h>> \o t.inactive[b]) = 1 + Len(t.inactive[b])
    BY <2>1
  <2>4. Len(s1.inactive[b]) # Len(<<>>)
    BY <2>2, <2>3
  <2> QED
    BY <2>4
<1>14. s1.inactive[Hash(SYSTEM_DBREF)] # <<>>
  BY <1>2, <1>4, <1>12, <1>13
<1>15. Booted(disk, s1)
  BY <1>1, <1>3, <1>6, <1>8, TouchBooted DEF d
<1>16. s1 \in Store /\ CanRetrieve(s1, SYSTEM_DBREF)
  BY <1>14, <1>15 DEF Booted, CanRetrieve, CanGetHolder
<1> QED
  BY <1>6, <1>8, <1>15, <1>16 DEF s0, d

\* Start-up leaves no reference and keeps the database.
LEMMA BootEffect ==
  ASSUME NEW disk \in [Dbref -> Image \cup {NoImage}],
         disk[ROOT_DBREF] # NoImage, disk[SYSTEM_DBREF] # NoImage
  PROVE  Booted(disk, Boot(disk))
<1> DEFINE s1 == Touch(InitCache(disk), ROOT_DBREF)
<1>1. SYSTEM_DBREF \in Dbref
  BY CacheAssumption DEF SYSTEM_DBREF, Dbref
<1>2. Booted(disk, s1) /\ CanRetrieve(s1, SYSTEM_DBREF)
  BY FirstTouched
<1> HIDE DEF s1
<1>3. s1 \in Store
  BY <1>2 DEF Booted
<1>4. Booted(disk, Touch(s1, SYSTEM_DBREF))
  BY <1>1, <1>2, <1>3, TouchBooted
<1> QED
  BY <1>4 DEF Boot, s1

\* The variables of a process that has just started, or is gone.
LEMMA NoPointers == \A h \in Holder : PointersOf(<<>>, <<>>, Idle, h) = 0
<1>1. \A h \in Holder : Holds(Idle, h) = 0
  BY HoldsBy, IdleCall, ClientAssumption
<1>2. \A h : FramePointers(<<>>, h) = 0
  <2> TAKE h
  <2>1. /\ [i \in 1 .. Len(<<>>) |-> <<>>[i].object] = <<>>
        /\ [i \in 1 .. Len(<<>>) |-> <<>>[i].definer] = <<>>
    OBVIOUS
  <2> QED
    BY <2>1, CountNone DEF FramePointers
<1> QED
  BY <1>1, <1>2, CountNone DEF PointersOf

\* A fresh process has no active object and no pointer.
LEMMA FreshStart ==
  ASSUME NEW s, NEW disk, Booted(disk, s)
  PROVE  /\ Active(s) = {} /\ DeadDbrefs(s) = {}
         /\ \A h \in Holder : PointersOf(<<>>, <<>>, Idle, h) = 0 /\ References(s, h) = 0
<1>1. Active(s) = {}
  <2>1. \A g \in Active(s) : g \in Holder /\ References(s, g) >= 1
    BY ActiveHolder DEF Booted, References
  <2> QED
    BY <2>1 DEF Booted
<1> QED
  BY <1>1, NoPointers DEF DeadDbrefs, Booted

\* The first database has the root object and the system object.
LEMMA FirstDiskType ==
  /\ FirstDisk \in [Dbref -> Image \cup {NoImage}]
  /\ FirstDisk[ROOT_DBREF] # NoImage /\ FirstDisk[SYSTEM_DBREF] # NoImage
  /\ \A d \in Dbref : FirstDisk[d] # NoImage => d < 2
<1>1. ROOT_DBREF \in Dbref /\ SYSTEM_DBREF \in Dbref /\ ROOT_DBREF = 1 /\ SYSTEM_DBREF = 0
  BY CacheAssumption, ClientAssumption DEF ROOT_DBREF, SYSTEM_DBREF, Dbref
<1>2. /\ [Blank EXCEPT !.children = <<SYSTEM_DBREF>>] \in Image
      /\ [Blank EXCEPT !.parents = <<ROOT_DBREF>>] \in Image
  <2>1. <<SYSTEM_DBREF>> \in Seq(Dbref) /\ <<ROOT_DBREF>> \in Seq(Dbref)
    BY <1>1
  <2> QED
    BY <2>1, BlankTypes DEF Image
<1> QED
  BY <1>1, <1>2, CacheAssumption DEF FirstDisk

\* The invariant holds at first.
LEMMA InitIInv == Init => IInv
<1> SUFFICES ASSUME Init
             PROVE  IInv
  OBVIOUS
<1>1. Booted(FirstDisk, store)
  BY FirstDiskType, BootEffect DEF Init
<1>2. /\ Active(store) = {} /\ DeadDbrefs(store) = {}
      /\ \A h \in Holder : PointersOf(<<>>, <<>>, Idle, h) = 0 /\ References(store, h) = 0
  BY <1>1, FreshStart
<1>3. frames = <<>> /\ pending = <<>> /\ call = Idle /\ dbTop = 2 /\ restarts = 0 /\ crashed = FALSE
  BY DEF Init
<1>4. TypeOK
  <2>1. frames \in Seq(Frame) /\ pending \in Seq(Holder)
    BY <1>3, EmptySeq
  <2>2. dbTop \in 0 .. MaxDbref + 1 /\ restarts \in 0 .. MaxRestarts
    BY <1>3, CacheAssumption, ClientAssumption
  <2> QED
    BY <1>1, <1>3, <2>1, <2>2, IdleCall DEF TypeOK, Booted
<1>5. CallShape
  BY <1>3, IdleCall DEF CallShape
<1>6. RefsEnough /\ DeadHeld /\ VictimGone
  BY <1>2, <1>3, IdleCall DEF RefsEnough, DeadHeld, VictimGone
<1>7. DbTopUnused
  BY <1>1, <1>3, FirstDiskType DEF DbTopUnused, Booted, Existing
<1>8. RootsSafe
  <2>1. ROOT_DBREF \in Dbref /\ SYSTEM_DBREF \in Dbref
    BY CacheAssumption, ClientAssumption DEF ROOT_DBREF, SYSTEM_DBREF, Dbref
  <2> QED
    BY <2>1, <1>1, <1>2, FirstDiskType DEF RootsSafe, Booted
<1> QED
  BY <1>1, <1>4, <1>5, <1>6, <1>7, <1>8 DEF IInv, Booted

\* A fresh process on a database has the invariant.
LEMMA FreshGood ==
  ASSUME IInv, NEW disk, Booted(disk, store'),
         frames' = <<>>, pending' = <<>>, call' = Idle,
         dbTop' \in 0 .. MaxDbref + 1, restarts' \in 0 .. MaxRestarts, crashed' \in BOOLEAN,
         disk[ROOT_DBREF] # NoImage, disk[SYSTEM_DBREF] # NoImage,
         \A d \in Dbref : disk[d] # NoImage => d < dbTop',
         \A d \in Dbref : store.disk[d] # NoImage => disk[d] # NoImage
  PROVE  Good
<1>1. /\ Active(store') = {} /\ DeadDbrefs(store') = {}
      /\ \A h \in Holder : PointersOf(<<>>, <<>>, Idle, h) = 0 /\ References(store', h) = 0
  BY FreshStart
<1>2. TypeOK'
  BY IdleCall DEF TypeOK, Booted
<1>3. CallShape'
  BY IdleCall DEF CallShape
<1>4. /\ RefsEnough' /\ DeadHeld' /\ VictimGone' /\ Balanced' /\ KeepObjects
  BY <1>1, IdleCall DEF RefsEnough, DeadHeld, VictimGone, Balanced, KeepObjects
<1>5. DbTopUnused'
  BY DEF DbTopUnused, Booted, Existing
<1>6. RootsSafe'
  <2>1. ROOT_DBREF \in Dbref /\ SYSTEM_DBREF \in Dbref
    BY CacheAssumption, ClientAssumption DEF ROOT_DBREF, SYSTEM_DBREF, Dbref
  <2> QED
    BY <2>1, <1>1 DEF RootsSafe, Booted
<1>7. DiskKept
  BY DEF DiskKept, Booted
<1> QED
  BY <1>2, <1>3, <1>4, <1>5, <1>6, <1>7 DEF Good, IInv, Booted

\* A restart from the disk.
LEMMA RestartGood ==
  ASSUME IInv, Restart
  PROVE  Good
<1> DEFINE disk == Sync(store).disk
           stored == {d \in Dbref : disk[d] # NoImage}
<1>1. /\ Ready /\ frames = <<>> /\ restarts < MaxRestarts
      /\ store' = Boot(disk)
      /\ dbTop' = 1 + CHOOSE d \in Dbref : /\ disk[d] # NoImage
                                           /\ \A e \in Dbref : disk[e] # NoImage => e <= d
      /\ restarts' = restarts + 1
      /\ UNCHANGED <<frames, pending, call, crashed>>
  BY DEF Restart, AtMainLoop
<1>2. call = Idle /\ pending = <<>>
  BY <1>1, Basics DEF CallShape, Ready, Running
<1>3. /\ Sync(store) \in Store
      /\ \A d \in Dbref : store.disk[d] # NoImage => disk[d] # NoImage
  BY Basics, SyncEffect
<1>4. ROOT_DBREF \in Dbref /\ SYSTEM_DBREF \in Dbref
  BY CacheAssumption, ClientAssumption DEF ROOT_DBREF, SYSTEM_DBREF, Dbref
<1>5. disk[ROOT_DBREF] # NoImage /\ disk[SYSTEM_DBREF] # NoImage
  BY <1>3, <1>4 DEF IInv, RootsSafe
<1>6. disk \in [Dbref -> Image \cup {NoImage}]
  BY <1>3 DEF Store
<1> HIDE DEF disk
<1>7. Booted(disk, store')
  BY <1>1, <1>5, <1>6, BootEffect
<1>8. \E d \in Dbref : disk[d] # NoImage /\ \A e \in Dbref : disk[e] # NoImage => e <= d
  <2>1. stored \in SUBSET Dbref /\ stored # {}
    BY <1>4, <1>5
  <2>2. PICK d \in stored : \A e \in stored : e <= d
    BY <2>1, GreatestDbref
  <2> QED
    BY <2>2
<1>9. PICK d \in Dbref : dbTop' = 1 + d /\ \A e \in Dbref : disk[e] # NoImage => e <= d
  BY <1>1, <1>8
<1>10. dbTop' \in 0 .. MaxDbref + 1 /\ \A e \in Dbref : disk[e] # NoImage => e < dbTop'
  BY <1>9, CacheAssumption DEF Dbref
<1>11. restarts' \in 0 .. MaxRestarts /\ crashed' \in BOOLEAN
  BY <1>1, Basics, ClientAssumption DEF IInv, TypeOK
<1> QED
  BY <1>1, <1>2, <1>3, <1>5, <1>7, <1>10, <1>11, FreshGood

\* The end of the process in a panic.
LEMMA DieGood ==
  ASSUME IInv, Die
  PROVE  Good
<1> DEFINE disk == store.disk
<1>1. /\ crashed' = TRUE /\ store' = InitCache(disk) /\ frames' = <<>> /\ pending' = <<>>
      /\ call' = Idle /\ UNCHANGED <<dbTop, restarts>>
  BY DEF Die
<1>2. disk \in [Dbref -> Image \cup {NoImage}]
  BY Basics DEF Store
<1>3. disk[ROOT_DBREF] # NoImage /\ disk[SYSTEM_DBREF] # NoImage
  BY DEF IInv, RootsSafe
<1>4. \A d \in Dbref : disk[d] # NoImage => d < dbTop'
  BY <1>1 DEF IInv, DbTopUnused, Existing
<1>7. \A d \in Dbref : store.disk[d] # NoImage => disk[d] # NoImage
  OBVIOUS
<1> HIDE DEF disk
<1>5. Booted(disk, store')
  <2>1. /\ store' \in Store /\ ChainsOK(store') /\ Active(store') = {}
        /\ Existing(store') = {d \in Dbref : disk[d] # NoImage}
        /\ store'.disk = disk
    BY <1>1, <1>2, InitCacheChains
  <2> QED
    BY <2>1 DEF Booted, References
<1>6. dbTop' \in 0 .. MaxDbref + 1 /\ restarts' \in 0 .. MaxRestarts
  BY <1>1 DEF IInv, TypeOK
<1> QED
  BY <1>1, <1>3, <1>4, <1>5, <1>6, <1>7, FreshGood

-----------------------------------------------------------------------------
(***************************************************************************)
(* The steps of C code that has begun.                                     *)
(***************************************************************************)

\* Only the call's own pointers and their references change.
LEMMA CallRefsStep ==
  ASSUME IInv, UNCHANGED <<frames, pending>>,
         \A g \in Holder : Holds(call', g) \in Int,
         \A g \in Holder : References(store', g) =
                           References(store, g) + (Holds(call', g) - Holds(call, g))
  PROVE  RefsStep
<1>1. \A g : FramePointers(frames, g) + Count(pending, g) \in Int
  BY Basics, FramePointersType, CountType
<1>2. \A g \in Holder : /\ PointersOf(frames', pending', call', g)
                             = (FramePointers(frames, g) + Count(pending, g)) + Holds(call', g)
                        /\ PointersOf(frames, pending, call, g)
                             = (FramePointers(frames, g) + Count(pending, g)) + Holds(call, g)
  BY DEF PointersOf
<1> QED
  BY <1>1, <1>2, Basics, SMTT(30) DEF RefsStep

\* Giving back a pending reference.
LEMMA DropReferenceGood ==
  ASSUME IInv, DropReference
  PROVE  Good
<1> DEFINE h == pending[Len(pending)]
           front == SubSeq(pending, 1, Len(pending) - 1)
<1>1. /\ call.pc = "idle" /\ pending # <<>>
      /\ store' = Discard(store, h) /\ pending' = front
      /\ call' = IF Dies(store, h)
                 THEN [Idle EXCEPT !.pc = "leave", !.victim = h, !.todo = store.obj[h].data.parents]
                 ELSE Idle
      /\ UNCHANGED <<frames, dbTop, restarts, crashed>>
  BY DEF DropReference, Running
<1>2. call = Idle
  BY <1>1, Basics DEF CallShape
<1>3. /\ front \in Seq(Holder) /\ h \in Holder
      /\ \A g : Count(pending, g) = Count(front, g) + (IF h = g THEN 1 ELSE 0)
  BY <1>1, Basics, CountFront
<1>4. Len(pending) \in 1 .. Len(pending)
  BY <1>1, Basics, EmptySeq, LenProperties
<1>5. h \in Active(store)
  BY <1>4, HeldActive
<1> HIDE DEF h, front
<1>6. /\ Effect(store, store', h, -1) /\ Sound(store, store')
      /\ Dies(store, h) => Gone(store', h)
  BY <1>1, <1>5, Basics, DiscardEffect, DeathEffect DEF Effect
<1>7. store.obj[h].data.parents \in Seq(Dbref)
  BY <1>3, HolderData
<1>8. /\ call' \in Call /\ call'.who = NULL /\ call'.found = NULL
      /\ Dies(store, h) => call'.pc = "leave" /\ call'.victim = h
      /\ ~Dies(store, h) => call' = Idle
  BY <1>1, <1>3, <1>7, IdleCall DEF Call, PC
<1>9. TypesStep
  BY <1>1, <1>3, <1>8, Basics DEF TypesStep
<1>10. CallShape'
  <2>1. CASE Dies(store, h)
    BY <2>1, <1>3, <1>8, Basics DEF CallShape
  <2>2. CASE ~Dies(store, h)
    BY <2>2, <1>8, IdleCall DEF CallShape
  <2> QED
    BY <2>1, <2>2
<1>11. \A g \in Holder : Holds(call, g) = 0 /\ Holds(call', g) = 0
  BY <1>2, <1>8, IdleCall, HoldsBy, ClientAssumption
<1>12. RefsStep
  <2>1. \A g : FramePointers(frames, g) \in Int /\ Count(front, g) \in Int
    BY <1>3, Basics, FramePointersType, CountType
  <2>2. \A g \in Holder : PointersOf(frames', pending', call', g)
                          = PointersOf(frames, pending, call, g) - (IF h = g THEN 1 ELSE 0)
    BY <1>1, <1>3, <1>11, <2>1 DEF PointersOf
  <2> QED
    BY <1>6, <1>11, <2>2, Basics DEF RefsStep, Effect
<1>13. VictimGone'
  BY <1>6, <1>8, IdleCall DEF VictimGone
<1> QED
  BY <1>1, <1>6, <1>9, <1>10, <1>12, <1>13, SoundStep

\* A search visits an ancestor.
LEMMA VisitAncestorGood ==
  ASSUME IInv, NEW x \in Dbref, NEW mark \in BOOLEAN, NEW hit \in BOOLEAN,
         VisitAncestor(x, mark, hit)
  PROVE  Good
<1> DEFINE h == Retrieved(store, x)
           s1 == IF mark THEN MarkDirty(Retrieve(store, x), h) ELSE Retrieve(store, x)
<1>1. call.pc = "method" /\ CanRetrieve(store, x)
  BY DEF VisitAncestor, Running
<1>2. CASE Die
  BY <1>2, DieGood
<1>3. CASE ~Die
  <2>1. Exists(store, x)
    BY <1>3 DEF VisitAncestor
  <2>2. h \in Holder /\ Effect(store, s1, h, 1)
    BY <1>1, <2>1, Basics, Found, EffectWrite, BlankTypes
  <2>3. \/ /\ store' = Discard(s1, h)
           /\ UNCHANGED <<frames, pending, call, dbTop, restarts, crashed>>
        \/ /\ store' = IF call.found = NULL THEN s1 ELSE Discard(s1, call.found)
           /\ call' = [call EXCEPT !.found = h]
           /\ UNCHANGED <<frames, pending, dbTop, restarts, crashed>>
    BY <1>3 DEF VisitAncestor
  <2> HIDE DEF h, s1
  <2>4. s1 \in Store /\ ChainsOK(s1) /\ Sound(store, s1)
    BY <2>2 DEF Effect, Sound
  <2>5. CASE /\ store' = Discard(s1, h)
             /\ UNCHANGED <<frames, pending, call, dbTop, restarts, crashed>>
    <3>1. Effect(store, store', h, 0)
      BY <2>2, <2>5, Basics, VisitEffect
    <3>2. CallShape' /\ call' \in Call
      BY <2>5, ShapeKept, Basics
    <3> QED
      BY <2>5, <3>1, <3>2, QuietStep
  <2>6. CASE /\ store' = IF call.found = NULL THEN s1 ELSE Discard(s1, call.found)
             /\ call' = [call EXCEPT !.found = h]
             /\ UNCHANGED <<frames, pending, dbTop, restarts, crashed>>
    <3>1. /\ call' \in Call /\ call'.found = h /\ call'.who = call.who /\ call'.pc = "method"
          /\ call'.victim = call.victim /\ call'.target = call.target
      BY <1>1, <2>2, <2>6, Basics DEF Call
    <3>2. CallShape'
      BY <1>1, <2>6, <3>1, Basics DEF CallShape, Current
    <3>3. TypesStep
      BY <2>6, <3>1, Basics DEF TypesStep
    <3>4. \A g \in Active(store) : g \in Active(s1)
      <4> TAKE g \in Active(store)
      <4>1. g \in Holder /\ References(store, g) >= 1 /\ References(store, g) \in Int
        BY Basics, ActiveHolder DEF References
      <4>2. References(s1, g) >= 1
        BY <2>2, <4>1 DEF Effect
      <4> QED
        BY <4>2 DEF References
    <3>5. \A g \in Holder : /\ Holds(call, g) = (IF call.who = g THEN 1 ELSE 0)
                                                + (IF call.found = g THEN 1 ELSE 0)
                            /\ Holds(call', g) = (IF call.who = g THEN 1 ELSE 0)
                                                + (IF h = g THEN 1 ELSE 0)
      BY <3>1, HoldsBy
    <3>6. CASE call.found = NULL
      <4>1. \A g \in Holder : References(store', g) =
                              References(store, g) + (Holds(call', g) - Holds(call, g))
        <5> TAKE g \in Holder
        <5>1. store' = s1 /\ call.found # g /\ References(store, g) \in Int
          BY <2>6, <3>6, Basics
        <5>2. References(s1, g) = References(store, g) + (IF g = h THEN 1 ELSE 0)
          BY <2>2 DEF Effect
        <5> QED
          BY <5>1, <5>2, <3>5
      <4>2. RefsStep
        BY <2>6, <3>5, <4>1, CallRefsStep
      <4> QED
        BY <2>4, <2>6, <3>1, <3>2, <3>3, <3>6, <4>2, SoundStep
    <3>7. CASE call.found # NULL
      <4>1. call.found \in Holder /\ call.found \in Active(s1)
        BY <3>4, <3>7, HeldActive, Basics DEF Call
      <4>2. Effect(s1, store', call.found, -1)
        BY <2>4, <2>6, <3>7, <4>1, DiscardEffect
      <4>3. Sound(store, store')
        BY <2>4, <3>4, <4>2, Basics, SoundTrans DEF Effect
      <4>4. \A g \in Holder : References(store', g) =
                              References(store, g) + (Holds(call', g) - Holds(call, g))
        <5> TAKE g \in Holder
        <5>1. References(store, g) \in Int
          BY Basics
        <5>2. References(s1, g) = References(store, g) + (IF g = h THEN 1 ELSE 0)
          BY <2>2 DEF Effect
        <5>3. References(store', g) = References(s1, g) + (IF g = call.found THEN -1 ELSE 0)
          BY <4>2 DEF Effect
        <5> QED
          BY <5>1, <5>2, <5>3, <3>5
      <4>5. RefsStep
        BY <2>6, <3>5, <4>4, CallRefsStep
      <4> QED
        BY <2>6, <3>1, <3>2, <3>3, <4>3, <4>5, SoundStep
    <3> QED
      BY <3>6, <3>7
  <2> QED
    BY <2>3, <2>5, <2>6
<1> QED
  BY <1>2, <1>3

\* A method search ends with a method, and its frame begins.
LEMMA MethodFoundGood ==
  ASSUME IInv, MethodFound
  PROVE  Good
<1> DEFINE u1 == Grab(store, call.target)
           u2 == Grab(u1, call.found)
           u3 == IF call.who = NULL THEN u2 ELSE Discard(u2, call.who)
           u4 == Discard(u3, call.found)
           f == [object |-> call.target, definer |-> call.found]
<1>1. /\ call.pc = "method" /\ call.found # NULL
      /\ store' = u4 /\ frames' = Append(frames, f) /\ call' = Idle
      /\ UNCHANGED <<pending, dbTop, restarts, crashed>>
  BY DEF MethodFound, Running
<1>2. /\ call.target \in Holder /\ call.found \in Holder
      /\ call.who \in Holder \/ call.who = NULL
      /\ call.victim = NULL
      /\ call.target = call.who \/ (frames # <<>> /\ call.target = Current.object)
  BY <1>1, Basics DEF CallShape, Call
<1>3. call.target \in Active(store) /\ call.found \in Active(store)
  BY <1>2, HeldActive, CurrentActive
<1>4. /\ Effect(store, u1, call.target, 1) /\ Active(u1) = Active(store)
      /\ u1 \in Store /\ ChainsOK(u1)
  BY <1>3, Basics, GrabEffect DEF FoundBy, Effect, Sound
<1> HIDE DEF u1
<1>5. /\ Effect(u1, u2, call.found, 1) /\ Active(u2) = Active(store)
      /\ u2 \in Store /\ ChainsOK(u2)
  BY <1>3, <1>4, GrabEffect, SMTT(30) DEF FoundBy, Effect, Sound
<1> HIDE DEF u2
<1>6. Sound(store, u2)
  BY <1>4, <1>5, Basics, SoundTrans DEF Effect
<1>7. \A g \in Holder : Holds(call, g) = (IF call.who = g THEN 1 ELSE 0)
                                         + (IF call.found = g THEN 1 ELSE 0)
  BY HoldsBy
<1>8. \A g \in Holder :
        References(u2, g) = References(store, g) + (IF call.target = g THEN 1 ELSE 0)
                                                 + (IF call.found = g THEN 1 ELSE 0)
  BY <1>4, <1>5, Basics DEF Effect
<1>9. /\ Sound(store, u3) /\ u3 \in Store /\ ChainsOK(u3)
      /\ \A g \in Holder : References(u3, g) = References(u2, g) - (IF call.who = g THEN 1 ELSE 0)
  <2>1. CASE call.who = NULL
    <3>1. \A g \in Holder : References(u2, g) \in Int
      BY <1>5, StoreTypes
    <3> QED
      BY <2>1, <3>1, <1>5, <1>6, Basics
  <2>2. CASE call.who # NULL
    <3>1. call.who \in Active(u2) /\ call.who \in Holder
      BY <1>2, <1>5, <2>2, HeldActive
    <3>2. Effect(u2, u3, call.who, -1)
      BY <1>5, <2>2, <3>1, DiscardEffect
    <3> HIDE DEF u3
    <3>3. Sound(store, u3) /\ u3 \in Store /\ ChainsOK(u3)
      <4>1. Sound(u2, u3) /\ \A g \in Active(store) : g \in Active(u2)
        BY <1>5, <3>2 DEF Effect
      <4>2. Sound(store, u3)
        BY <4>1, <1>6, Basics, SoundTrans
      <4> QED
        BY <4>2 DEF Sound
    <3>4. \A g \in Holder : References(u2, g) \in Int
      BY <1>5, StoreTypes
    <3> QED
      BY <3>2, <3>3, <3>4 DEF Effect
  <2> QED
    BY <2>1, <2>2
<1> HIDE DEF u3
<1>10. call.found \in Active(u3)
  <2>1. References(store, call.found) >= Holds(call, call.found)
    <3>1. \A g : /\ FramePointers(frames, g) \in Nat /\ Count(pending, g) \in Nat
                 /\ Holds(call, g) \in Nat
      BY Basics, FramePointersType, CountType, PointersOfType
    <3>2. PointersOf(frames, pending, call, call.found) >= Holds(call, call.found)
      BY <3>1 DEF PointersOf
    <3> QED
      BY <3>2, <1>2, Basics DEF IInv, RefsEnough
  <2>2. References(u3, call.found) >= 1
    <3> DEFINE g == call.found
    <3>1. g \in Holder /\ References(store, g) \in Int
      BY <1>2, Basics
    <3>2. Holds(call, g) = (IF call.who = g THEN 1 ELSE 0) + 1
      BY <3>1, <1>7
    <3>3. References(u2, g) = References(store, g) + (IF call.target = g THEN 1 ELSE 0) + 1
      BY <3>1, <1>8
    <3>4. References(u3, g) = References(u2, g) - (IF call.who = g THEN 1 ELSE 0)
      BY <3>1, <1>9
    <3> QED
      BY <2>1, <3>1, <3>2, <3>3, <3>4
  <2> QED
    BY <2>2 DEF References
<1>11. Effect(u3, u4, call.found, -1)
  BY <1>9, <1>10, DiscardEffect
<1>12. Sound(store, u4)
  <2>1. \A g \in Holder : u4.obj[g].dbref = u3.obj[g].dbref
    BY <1>2, <1>9, DiscardKeepsDbrefs
  <2>2. \A g \in Active(store) : g \in Holder
    BY Basics, StoreTypes
  <2> HIDE DEF u4
  <2> QED
    BY <2>1, <2>2, <1>9, <1>11, Basics, SoundTrans DEF Effect
<1> HIDE DEF u4
<1>13. \A g \in Holder : References(u4, g) = References(store, g)
         + (IF call.target = g THEN 1 ELSE 0) - (IF call.who = g THEN 1 ELSE 0)
  BY <1>8, <1>9, <1>11, Basics DEF Effect
<1>14. /\ frames' \in Seq(Frame) /\ Len(frames') = Len(frames) + 1
       /\ \A i \in 1 .. Len(frames) : frames'[i] = frames[i]
       /\ frames'[Len(frames')] = f
  <2>1. f \in Frame
    BY <1>2 DEF Frame
  <2> HIDE DEF f
  <2> QED
    BY <2>1, <1>1, Basics, AppendProperties, LenProperties
<1>15. \A g : FramePointers(frames', g) = FramePointers(frames, g)
                + (IF call.target = g THEN 1 ELSE 0) + (IF call.found = g THEN 1 ELSE 0)
  <2>1. \A g : FramePointers(frames', g) = FramePointers(frames, g)
                + (IF f.object = g THEN 1 ELSE 0) + (IF f.definer = g THEN 1 ELSE 0)
    <3> TAKE g
    <3>1. frames \in Seq(Frame)
      BY Basics
    <3>2. FramePointers(frames', g) = FramePointers(frames, g)
             + (IF frames'[Len(frames')].object = g THEN 1 ELSE 0)
             + (IF frames'[Len(frames')].definer = g THEN 1 ELSE 0)
      BY <3>1, <1>14, FramePushed
    <3> QED
      BY <3>2, <1>14
  <2> QED
    BY <2>1
<1>16. \A g \in Holder : Holds(call', g) = 0
  BY <1>1, HoldsBy, IdleCall, ClientAssumption
<1>17. RefsStep
  <2>1. \A g : FramePointers(frames, g) \in Int /\ Count(pending, g) \in Int
    BY Basics, FramePointersType, CountType
  <2>2. \A g \in Holder : PointersOf(frames', pending', call', g) =
          PointersOf(frames, pending, call, g) + (IF call.target = g THEN 1 ELSE 0)
                                               - (IF call.who = g THEN 1 ELSE 0)
    <3> TAKE g \in Holder
    <3>1. /\ PointersOf(frames', pending', call', g)
               = (FramePointers(frames', g) + Count(pending', g)) + Holds(call', g)
          /\ PointersOf(frames, pending, call, g)
               = (FramePointers(frames, g) + Count(pending, g)) + Holds(call, g)
      BY DEF PointersOf
    <3>2. Count(pending', g) = Count(pending, g)
      BY <1>1
    <3> QED
      BY <1>7, <1>15, <1>16, <2>1, <3>1, <3>2
  <2> QED
    BY <1>1, <1>13, <1>16, <2>2, Basics DEF RefsStep
<1>18. TypesStep
  BY <1>1, <1>14, IdleCall, Basics DEF TypesStep
<1>19. CallShape' /\ VictimGone'
  BY <1>1, IdleCall DEF CallShape, VictimGone
<1> QED
  BY <1>1, <1>12, <1>17, <1>18, <1>19, SoundStep

\* The references that a call gives back at its end.
LEMMA CountHeld ==
  ASSUME NEW a \in Holder \cup {NULL}, NEW b \in Holder \cup {NULL}
  PROVE  /\ Held(a) \o Held(b) \in Seq(Holder)
         /\ \A g \in Holder : Count(Held(a) \o Held(b), g)
                              = (IF a = g THEN 1 ELSE 0) + (IF b = g THEN 1 ELSE 0)
<1>1. NULL \notin Holder
  BY ClientAssumption
<1>2. CASE a = NULL /\ b = NULL
  <2>1. Held(a) \o Held(b) = <<>>
    BY <1>2 DEF Held
  <2> QED
    BY <2>1, <1>1, <1>2, CountNone
<1>3. CASE a = NULL /\ b # NULL
  <2>1. Held(a) \o Held(b) = <<b>>
    BY <1>3 DEF Held
  <2> QED
    BY <2>1, <1>1, <1>3, CountOne
<1>4. CASE a # NULL /\ b = NULL
  <2>1. Held(a) \o Held(b) = <<a>>
    BY <1>4 DEF Held
  <2> QED
    BY <2>1, <1>1, <1>4, CountOne
<1>5. CASE a # NULL /\ b # NULL
  <2>1. <<a>> \o <<b>> = <<a, b>>
    <3> DEFINE both == <<a>> \o <<b>>
               pair == <<a, b>>
    <3>1. <<a>> \in Seq({a, b}) /\ <<b>> \in Seq({a, b}) /\ pair \in Seq({a, b}) /\ Len(pair) = 2
          /\ pair[1] = a /\ pair[2] = b
      OBVIOUS
    <3>2. both \in Seq({a, b}) /\ Len(both) = 2 /\ both[1] = a /\ both[2] = b
      BY <3>1, ConcatProperties
    <3> HIDE DEF both, pair
    <3>3. both = pair
      <4>1. \A i \in 1 .. Len(both) : both[i] = pair[i]
        BY <3>1, <3>2
      <4> QED
        BY <3>1, <3>2, <4>1, SeqEqual
    <3> QED
      BY <3>3 DEF both, pair
  <2>2. Held(a) = <<a>> /\ Held(b) = <<b>>
    BY <1>5 DEF Held
  <2>3. Held(a) \o Held(b) = <<a, b>>
    BY <2>1, <2>2
  <2> QED
    BY <2>3, <1>1, <1>5, CountTwo
<1> QED
  BY <1>2, <1>3, <1>4, <1>5

\* The end of a call: what it holds becomes pending.
LEMMA EndGood ==
  ASSUME IInv, call.pc # "idle", call.victim = NULL,
         store' = store \/ \E h : Effect(store, store', h, 0),
         call' = Idle, pending' = Held(call.found) \o Held(call.who),
         UNCHANGED <<frames, dbTop, restarts, crashed>>
  PROVE  Good
<1>1. pending = <<>> /\ call.found \in Holder \cup {NULL} /\ call.who \in Holder \cup {NULL}
  BY Basics DEF CallShape, Call
<1>2. /\ Sound(store, store')
      /\ \A g \in Holder : References(store', g) = References(store, g)
  <2>1. CASE store' = store
    BY <2>1, Basics DEF Sound
  <2>2. CASE store' # store
    BY <2>2, Basics DEF Effect
  <2> QED
    BY <2>1, <2>2
<1>3. /\ pending' \in Seq(Holder)
      /\ \A g \in Holder : Count(pending', g) = (IF call.found = g THEN 1 ELSE 0)
                                                + (IF call.who = g THEN 1 ELSE 0)
  BY <1>1, CountHeld
<1>4. TypesStep
  BY <1>3, IdleCall, Basics DEF TypesStep
<1>5. \A g \in Holder : Holds(call', g) = 0
  BY HoldsBy, IdleCall, ClientAssumption
<1>6. \A g \in Holder : PointersOf(frames', pending', call', g) = PointersOf(frames, pending, call, g)
  <2> TAKE g \in Holder
  <2>1. /\ PointersOf(frames', pending', call', g)
             = (FramePointers(frames', g) + Count(pending', g)) + Holds(call', g)
        /\ PointersOf(frames, pending, call, g)
             = (FramePointers(frames, g) + Count(pending, g)) + Holds(call, g)
    BY DEF PointersOf
  <2>2. FramePointers(frames', g) = FramePointers(frames, g) /\ FramePointers(frames, g) \in Int
    BY Basics, FramePointersType
  <2>3. Holds(call, g) = (IF call.who = g THEN 1 ELSE 0) + (IF call.found = g THEN 1 ELSE 0)
    BY HoldsBy
  <2>4. Count(pending, g) = 0
    BY <1>1, CountNone
  <2> QED
    BY <1>3, <1>5, <2>1, <2>2, <2>3, <2>4
<1>7. RefsStep
  BY <1>2, <1>5, <1>6, Basics DEF RefsStep
<1>8. CallShape' /\ VictimGone'
  BY IdleCall DEF CallShape, VictimGone
<1> QED
  BY <1>2, <1>4, <1>7, <1>8, SoundStep

\* A method search ends without a frame.
LEMMA SearchEndsGood ==
  ASSUME IInv, SearchEnds
  PROVE  Good
<1>1. call.pc = "method" /\ call.victim = NULL
  BY Basics DEF SearchEnds, Running, CallShape
<1> QED
  BY <1>1, EndGood DEF SearchEnds

\* chparents() refused.
LEMMA RejectGood ==
  ASSUME IInv, call.pc \in {"check", "search"}, Reject,
         store' = store \/ \E h : Effect(store, store', h, 0),
         UNCHANGED <<frames, dbTop, restarts, crashed>>
  PROVE  Good
<1>1. call.victim = NULL /\ call.who \in Holder /\ call.found = NULL
  BY Basics DEF CallShape
<1>2. <<>> \o <<call.who>> = <<call.who>>
  OBVIOUS
<1>3. pending' = Held(call.found) \o Held(call.who)
  BY <1>1, <1>2, ClientAssumption DEF Reject, Held
<1> QED
  BY <1>1, <1>3, EndGood DEF Reject

\* The head and the tail of a list of dbrefs.
LEMMA HeadTail ==
  ASSUME NEW list \in Seq(Dbref), list # <<>>
  PROVE  Head(list) \in Dbref /\ Tail(list) \in Seq(Dbref)
BY HeadTailProperties

\* The lists of a call in progress are well typed.
LEMMA CallLists ==
  ASSUME IInv
  PROVE  /\ call.todo \in Seq(Dbref) /\ call.kids \in Seq(Dbref)
         /\ call.wanted \in Seq(Dbref) /\ call.stack \in Seq(Dbref)
         /\ call.seen \in SUBSET Dbref
BY Basics DEF Call

\* A check of one parent.
LEMMA CheckParentGood ==
  ASSUME IInv, CheckParent
  PROVE  Good
<1>1. /\ call.pc = "check" /\ call.todo # <<>> /\ UNCHANGED <<store, frames, dbTop, restarts, crashed>>
  BY DEF CheckParent, Running
<1>2. CASE Reject
  BY <1>1, <1>2, RejectGood
<1>3. CASE ~Reject
  <2> DEFINE p == Head(call.todo)
  <2>1. /\ call' = [call EXCEPT !.pc = "search", !.stack = <<p>>, !.seen = {}]
        /\ UNCHANGED pending
    BY <1>3 DEF CheckParent
  <2>2. p \in Dbref
    BY <1>1, CallLists, HeadTail
  <2> HIDE DEF p
  <2>3. /\ call' \in Call /\ call'.pc = "search" /\ call'.who = call.who
        /\ call'.found = call.found /\ call'.victim = call.victim /\ call'.todo = call.todo
    <3>1. <<p>> \in Seq(Dbref)
      BY <2>2
    <3> QED
      BY <2>1, <3>1, Basics DEF Call, PC
  <2>4. CallShape'
    BY <1>1, <2>1, <2>3, Basics DEF CallShape
  <2> QED
    BY <1>1, <2>1, <2>3, <2>4, QuietStep
<1> QED
  BY <1>2, <1>3

\* The end of the check of the parents.
LEMMA ParentsCheckedGood ==
  ASSUME IInv, ParentsChecked
  PROVE  Good
<1>1. /\ call.pc = "check"
      /\ call' = [call EXCEPT !.pc = "leave", !.todo = store.obj[call.who].data.parents]
      /\ UNCHANGED <<store, frames, pending, dbTop, restarts, crashed>>
  BY DEF ParentsChecked, Running
<1>2. call.who \in Holder /\ call.victim = NULL /\ call.found = NULL
  BY <1>1, Basics DEF CallShape
<1>3. store.obj[call.who].data.parents \in Seq(Dbref)
  BY <1>2, HolderData
<1>4. /\ call' \in Call /\ call'.pc = "leave" /\ call'.who = call.who
      /\ call'.found = call.found /\ call'.victim = call.victim
  BY <1>1, <1>3, Basics DEF Call, PC
<1>5. CallShape'
  BY <1>1, <1>2, <1>4, Basics DEF CallShape
<1> QED
  BY <1>1, <1>4, <1>5, QuietStep

\* A step of an ancestor search.
LEMMA SearchAncestorGood ==
  ASSUME IInv, SearchAncestor
  PROVE  Good
<1> DEFINE x == Head(call.stack)
           h == Retrieved(store, x)
           s1 == Retrieve(store, x)
           parents == s1.obj[h].data.parents
           rest == Tail(call.stack)
<1>1. call.pc = "search" /\ call.stack # <<>> /\ CanRetrieve(store, x)
  BY DEF SearchAncestor, Running
<1>2. CASE Die
  BY <1>2, DieGood
<1>3. CASE ~Die
  <2>1. x \in Dbref /\ rest \in Seq(Dbref)
    BY <1>1, CallLists, HeadTail
  <2>2. /\ Exists(store, x)
        /\ UNCHANGED <<frames, dbTop, restarts, crashed>>
        /\ store' = Discard(s1, h) \/ store' = Discard(MarkDirty(s1, h), h)
        /\ \/ Reject
           \/ call' = [call EXCEPT !.stack = rest] /\ UNCHANGED pending
           \/ /\ call' = [call EXCEPT !.stack = parents \o rest, !.seen = @ \cup {x}]
              /\ UNCHANGED pending
    BY <1>3 DEF SearchAncestor
  <2> HIDE DEF x, rest
  <2>3. /\ h \in Holder /\ Effect(store, s1, h, 1) /\ s1.obj[h].data \in Image
    BY <1>1, <2>1, <2>2, Found
  <2> HIDE DEF h, s1
  <2>4. Effect(store, MarkDirty(s1, h), h, 1)
    BY <2>3, Basics, EffectWrite
  <2>5. Effect(store, store', h, 0)
    BY <2>2, <2>3, <2>4, Basics, VisitEffect
  <2>6. parents \in Seq(Dbref)
    BY <2>3 DEF Image
  <2>7. CASE Reject
    BY <1>1, <2>2, <2>5, <2>7, RejectGood
  <2>8. CASE ~Reject
    <3> HIDE DEF parents
    <3>1. parents \o rest \in Seq(Dbref)
      BY <2>1, <2>6, ConcatProperties
    <3>5. call \in Call /\ call.seen \cup {x} \in SUBSET Dbref
      BY <2>1, Basics DEF Call
    <3>6. \A list \in Seq(Dbref), visited \in SUBSET Dbref :
            [call EXCEPT !.stack = list, !.seen = visited] \in Call
      BY <3>5 DEF Call
    <3>7. [call EXCEPT !.stack = rest] \in Call
      BY <2>1, <3>5 DEF Call
    <3>8. [call EXCEPT !.stack = parents \o rest, !.seen = @ \cup {x}] \in Call
      <4>1. [call EXCEPT !.stack = parents \o rest, !.seen = @ \cup {x}]
              = [call EXCEPT !.stack = parents \o rest, !.seen = call.seen \cup {x}]
        OBVIOUS
      <4> QED
        BY <3>1, <3>5, <3>6, <4>1
    <3>9. /\ UNCHANGED pending
          /\ \/ call' = [call EXCEPT !.stack = rest]
             \/ call' = [call EXCEPT !.stack = parents \o rest, !.seen = @ \cup {x}]
      BY <2>2, <2>8
    <3>2. /\ UNCHANGED pending
          /\ call' \in Call /\ call'.pc = "search" /\ call'.who = call.who
          /\ call'.found = call.found /\ call'.victim = call.victim /\ call'.todo = call.todo
      <4>1. call' \in Call
        BY <3>7, <3>8, <3>9
      <4>2. \A list, visited :
               LET c == [call EXCEPT !.stack = list, !.seen = visited]
               IN  c.pc = call.pc /\ c.who = call.who /\ c.found = call.found
                   /\ c.victim = call.victim /\ c.todo = call.todo
        BY <3>5 DEF Call
      <4>3. \A list :
               LET c == [call EXCEPT !.stack = list]
               IN  c.pc = call.pc /\ c.who = call.who /\ c.found = call.found
                   /\ c.victim = call.victim /\ c.todo = call.todo
        BY <3>5 DEF Call
      <4>4. CASE call' = [call EXCEPT !.stack = rest]
        BY <1>1, <3>9, <4>1, <4>3, <4>4
      <4>5. CASE call' = [call EXCEPT !.stack = parents \o rest, !.seen = @ \cup {x}]
        BY <1>1, <3>9, <4>1, <4>2, <4>5
      <4> QED
        BY <3>9, <4>4, <4>5
    <3>3. CallShape'
      BY <1>1, <2>2, <3>2, Basics DEF CallShape
    <3> QED
      BY <2>2, <2>5, <3>2, <3>3, QuietStep
  <2> QED
    BY <2>7, <2>8
<1> QED
  BY <1>2, <1>3

\* The end of an ancestor search that finds nothing.
LEMMA AncestorAbsentGood ==
  ASSUME IInv, AncestorAbsent
  PROVE  Good
<1>1. /\ call.pc = "search" /\ call' = [call EXCEPT !.pc = "check", !.todo = Tail(@)]
      /\ UNCHANGED <<store, frames, pending, dbTop, restarts, crashed>>
  BY DEF AncestorAbsent, Running
<1>2. Tail(call.todo) \in Seq(Dbref)
  BY <1>1, Basics, CallLists, HeadTail DEF CallShape
<1>3. /\ call' \in Call /\ call'.pc = "check" /\ call'.who = call.who
      /\ call'.found = call.found /\ call'.victim = call.victim
  BY <1>1, <1>2, Basics DEF Call, PC
<1>4. CallShape'
  BY <1>1, <1>3, Basics DEF CallShape
<1> QED
  BY <1>1, <1>3, <1>4, QuietStep

\* The dbref of the object a loop works on.
LEMMA SubjectDbref ==
  ASSUME IInv, call.pc \in {"leave", "adopt", "kids"}
  PROVE  Subject \in Holder /\ store.obj[Subject].dbref \in Dbref
<1>1. CASE call.who # NULL
  <2>1. call.who \in Holder
    BY <1>1, Basics DEF Call
  <2> QED
    BY <1>1, <2>1, HeldActive, HolderData DEF Subject
<1>2. CASE call.who = NULL
  <2>1. call.victim \in Holder
    BY <1>2, Basics DEF CallShape, Call
  <2>2. Gone(store, call.victim)
    BY <2>1, ClientAssumption DEF IInv, VictimGone
  <2> QED
    BY <1>2, <2>1, <2>2 DEF Subject, Gone
<1> QED
  BY <1>1, <1>2

\* The change of one parent's children.
LEMMA TellParentGood ==
  ASSUME IInv, TellParent
  PROVE  Good
<1> DEFINE p  == Head(call.todo)
           me == store.obj[Subject].dbref
           h  == Retrieved(store, p)
           s1 == Retrieve(store, p)
           data == s1.obj[h].data
           contents == [data EXCEPT !.children = ChildrenAfter(@, me)]
           s2 == SetData(s1, h, contents)
<1>1. /\ call.pc \in {"leave", "adopt"} /\ call.todo # <<>> /\ CanRetrieve(store, p)
  BY DEF TellParent, Running
<1>2. CASE Die
  BY <1>2, DieGood
<1>3. CASE ~Die
  <2>1. /\ Exists(store, p)
        /\ call.pc = "adopt" \/ me \in Range(data.children)
        /\ store' = Discard(MarkDirty(s2, h), h)
        /\ call' = [call EXCEPT !.todo = Tail(@)]
        /\ UNCHANGED <<frames, pending, dbTop, restarts, crashed>>
    BY <1>3 DEF TellParent
  <2>2. p \in Dbref /\ Tail(call.todo) \in Seq(Dbref) /\ me \in Dbref
    BY <1>1, CallLists, HeadTail, SubjectDbref
  <2> HIDE DEF p, me
  <2>3. h \in Holder /\ Effect(store, s1, h, 1) /\ data \in Image
    BY <1>1, <2>1, <2>2, Found
  <2> HIDE DEF h, s1, data
  <2>4. contents \in Image
    <3>1. data.children \in Seq(Dbref)
      BY <2>3 DEF Image
    <3>2. Append(data.children, me) \in Seq(Dbref)
      BY <2>2, <3>1
    <3>3. me \in Range(data.children) => ListDelete(data.children, me) \in Seq(Dbref)
      BY <3>1, ListDeleteType
    <3>4. ChildrenAfter(data.children, me) \in Seq(Dbref)
      BY <1>1, <2>1, <3>2, <3>3 DEF ChildrenAfter
    <3> QED
      BY <2>3, <3>4 DEF Image
  <2> HIDE DEF contents
  <2>5. Effect(store, s2, h, 1)
    BY <2>3, <2>4, Basics, EffectWrite
  <2> HIDE DEF s2
  <2>6. Effect(store, MarkDirty(s2, h), h, 1)
    BY <2>3, <2>4, <2>5, Basics, EffectWrite
  <2>7. Effect(store, store', h, 0)
    BY <2>1, <2>3, <2>6, Basics, VisitEffect
  <2>8. /\ call' \in Call /\ call'.pc = call.pc /\ call'.who = call.who
        /\ call'.found = call.found /\ call'.victim = call.victim
    BY <2>1, <2>2, Basics DEF Call
  <2>9. CallShape'
    BY <1>1, <2>1, <2>8, Basics DEF CallShape
  <2> QED
    BY <2>1, <2>7, <2>8, <2>9, QuietStep
<1> QED
  BY <1>2, <1>3

\* The new parents list of a chparents.
LEMMA SetParentsGood ==
  ASSUME IInv, SetParents
  PROVE  Good
<1> DEFINE contents == [store.obj[call.who].data EXCEPT !.parents = call.wanted]
<1>1. /\ call.pc = "leave" /\ call.victim = NULL
      /\ store' = SetData(store, call.who, contents)
      /\ call' = [call EXCEPT !.pc = "adopt", !.todo = call.wanted]
      /\ UNCHANGED <<frames, pending, dbTop, restarts, crashed>>
  BY DEF SetParents, Running
<1>2. call.who \in Holder /\ call.found = NULL
  BY <1>1, Basics DEF CallShape, Call
<1>3. call.who \in Active(store)
  BY <1>2, HeldActive
<1>4. contents \in Image
  BY <1>2, HolderData, CallLists DEF Image
<1> HIDE DEF contents
<1>5. /\ call' \in Call /\ call'.pc = "adopt" /\ call'.who = call.who
      /\ call'.found = call.found /\ call'.victim = call.victim
  BY <1>1, CallLists, Basics DEF Call, PC
<1>6. CallShape'
  BY <1>1, <1>2, <1>5, Basics DEF CallShape
<1> QED
  BY <1>1, <1>3, <1>4, <1>5, <1>6, RewriteGood

\* An object that is destroyed has left its parents.
LEMMA LeftParentsGood ==
  ASSUME IInv, LeftParents
  PROVE  Good
<1>1. /\ call.pc = "leave" /\ call.victim # NULL
      /\ call' = [call EXCEPT !.pc = "kids", !.kids = store.obj[call.victim].data.children]
      /\ UNCHANGED <<store, frames, pending, dbTop, restarts, crashed>>
  BY DEF LeftParents, Running
<1>2. call.victim \in Holder /\ call.who = NULL /\ call.found = NULL
  BY <1>1, Basics DEF CallShape, Call
<1>3. store.obj[call.victim].data.children \in Seq(Dbref)
  BY <1>2, HolderData
<1>4. /\ call' \in Call /\ call'.pc = "kids" /\ call'.who = call.who
      /\ call'.found = call.found /\ call'.victim = call.victim
  BY <1>1, <1>3, Basics DEF Call, PC
<1>5. CallShape'
  BY <1>1, <1>2, <1>4, Basics DEF CallShape
<1> QED
  BY <1>1, <1>4, <1>5, QuietStep

\* The change of one child's parents.
LEMMA TellKidGood ==
  ASSUME IInv, TellKid
  PROVE  Good
<1> DEFINE d  == Head(call.kids)
           me == store.obj[call.victim].dbref
           h  == Retrieved(store, d)
           s1 == Retrieve(store, d)
           data == s1.obj[h].data
           left == ListDelete(data.parents, me)
           inherited == store.obj[call.victim].data.parents
           c1 == [data EXCEPT !.parents = left]
           c2 == [data EXCEPT !.parents = inherited]
<1>1. call.pc = "kids" /\ call.kids # <<>> /\ CanRetrieve(store, d)
  BY DEF TellKid, Running
<1>2. CASE Die
  BY <1>2, DieGood
<1>3. CASE ~Die
  <2>1. /\ Exists(store, d) /\ me \in Range(data.parents)
        /\ \/ /\ store' = Discard(MarkDirty(SetData(s1, h, c1), h), h)
              /\ call' = [call EXCEPT !.kids = Tail(@)]
           \/ /\ store' = SetData(s1, h, c2)
              /\ call' = [call EXCEPT !.pc = "adopt", !.who = h, !.todo = inherited,
                                      !.kids = Tail(@)]
        /\ UNCHANGED <<frames, pending, dbTop, restarts, crashed>>
    BY <1>3 DEF TellKid
  <2>2. d \in Dbref /\ Tail(call.kids) \in Seq(Dbref)
    BY <1>1, CallLists, HeadTail
  <2>3. /\ call.victim \in Holder /\ call.victim # NULL /\ call.who = NULL /\ call.found = NULL
    BY <1>1, Basics DEF CallShape
  <2>4. inherited \in Seq(Dbref)
    BY <2>3, HolderData
  <2> HIDE DEF d, me, inherited
  <2>5. h \in Holder /\ Effect(store, s1, h, 1) /\ data \in Image
    BY <1>1, <2>1, <2>2, Found
  <2> HIDE DEF h, s1, data
  <2>6. left \in Seq(Dbref)
    BY <2>1, <2>5, ListDeleteType DEF Image
  <2> HIDE DEF left
  <2>7. c1 \in Image /\ c2 \in Image
    BY <2>4, <2>5, <2>6 DEF Image
  <2> HIDE DEF c1, c2
  <2>8. Effect(store, SetData(s1, h, c1), h, 1) /\ Effect(store, SetData(s1, h, c2), h, 1)
    BY <2>5, <2>7, Basics, EffectWrite
  <2>9. CASE /\ store' = Discard(MarkDirty(SetData(s1, h, c1), h), h)
             /\ call' = [call EXCEPT !.kids = Tail(@)]
    <3>1. Effect(store, MarkDirty(SetData(s1, h, c1), h), h, 1)
      BY <2>5, <2>7, <2>8, Basics, EffectWrite
    <3>2. Effect(store, store', h, 0)
      BY <2>5, <2>9, <3>1, Basics, VisitEffect
    <3>3. /\ call' \in Call /\ call'.pc = "kids" /\ call'.who = call.who
          /\ call'.found = call.found /\ call'.victim = call.victim
      BY <1>1, <2>2, <2>9, Basics DEF Call
    <3>4. CallShape'
      BY <1>1, <2>1, <2>3, <3>3, Basics DEF CallShape
    <3> QED
      BY <2>1, <3>2, <3>3, <3>4, QuietStep
  <2>10. CASE /\ store' = SetData(s1, h, c2)
              /\ call' = [call EXCEPT !.pc = "adopt", !.who = h, !.todo = inherited,
                                      !.kids = Tail(@)]
    <3>1. Effect(store, store', h, 1) /\ Sound(store, store')
      BY <2>8, <2>10 DEF Effect
    <3>2. /\ call' \in Call /\ call'.pc = "adopt" /\ call'.who = h
          /\ call'.found = NULL /\ call'.victim = call.victim
      BY <2>2, <2>3, <2>4, <2>5, <2>10, Basics DEF Call, PC
    <3>3. CallShape'
      BY <2>1, <2>3, <2>5, <3>2, Basics DEF CallShape
    <3>4. TypesStep
      BY <2>1, <3>2, Basics DEF TypesStep
    <3>5. \A g \in Holder : Holds(call, g) = 0 /\ Holds(call', g) = IF h = g THEN 1 ELSE 0
      BY <2>3, <3>2, HoldsBy, ClientAssumption
    <3>6. \A g \in Holder : References(store', g) =
                            References(store, g) + (Holds(call', g) - Holds(call, g))
      <4> TAKE g \in Holder
      <4>1. References(store, g) \in Int
        BY Basics
      <4>2. References(store', g) = References(store, g) + (IF g = h THEN 1 ELSE 0)
        BY <3>1 DEF Effect
      <4> QED
        BY <4>1, <4>2, <3>5
    <3>7. RefsStep
      BY <2>1, <3>5, <3>6, CallRefsStep
    <3> QED
      BY <2>1, <3>1, <3>2, <3>3, <3>4, <3>7, SoundStep
  <2> QED
    BY <2>1, <2>9, <2>10
<1> QED
  BY <1>2, <1>3

\* A child without a parent gets those of the object destroyed.
LEMMA AdoptedGood ==
  ASSUME IInv, Adopted
  PROVE  Good
<1> DEFINE h == call.who
<1>1. /\ call.pc = "adopt"
      /\ UNCHANGED <<frames, dbTop, restarts, crashed>>
  BY DEF Adopted, Running
<1>2. h \in Holder /\ h \in Active(store) /\ call.found = NULL
  BY <1>1, Basics, HeldActive DEF CallShape
<1>3. CASE call.victim = NULL
  <2>1. pending' = <<h>> /\ call' = Idle /\ UNCHANGED store
    BY <1>3 DEF Adopted
  <2>2. <<>> \o <<h>> = <<h>>
    OBVIOUS
  <2>3. pending' = Held(call.found) \o Held(call.who)
    BY <1>2, <2>1, <2>2, ClientAssumption DEF Held
  <2> QED
    BY <1>1, <1>3, <2>1, <2>3, EndGood
<1>4. CASE call.victim # NULL
  <2>1. /\ store' = Discard(MarkDirty(store, h), h)
        /\ call' = [call EXCEPT !.pc = "kids", !.who = NULL]
        /\ UNCHANGED pending
    BY <1>4 DEF Adopted
  <2>2. Effect(store, MarkDirty(store, h), h, 0) /\ Active(MarkDirty(store, h)) = Active(store)
    BY <1>2, Basics, WriteEffect, BlankTypes
  <2>3. Effect(MarkDirty(store, h), store', h, -1)
    <3>1. MarkDirty(store, h) \in Store /\ ChainsOK(MarkDirty(store, h))
      BY <2>2 DEF Effect, Sound
    <3> QED
      BY <1>2, <2>1, <2>2, <3>1, DiscardEffect
  <2>4. Effect(store, store', h, 0 + -1)
    BY <1>2, <2>2, <2>3, Basics, EffectTrans
  <2> HIDE DEF h
  <2>5. Effect(store, store', h, -1) /\ Sound(store, store')
    BY <2>4 DEF Effect
  <2>6. /\ call' \in Call /\ call'.pc = "kids" /\ call'.who = NULL
        /\ call'.found = NULL /\ call'.victim = call.victim
    BY <1>2, <2>1, Basics DEF Call, PC
  <2>7. CallShape'
    BY <1>4, <2>6, Basics DEF CallShape, Call
  <2>8. TypesStep
    BY <1>1, <2>1, <2>6, Basics DEF TypesStep
  <2>9. \A g \in Holder : Holds(call', g) = 0 /\ Holds(call, g) = IF h = g THEN 1 ELSE 0
    BY <1>2, <2>6, HoldsBy, ClientAssumption DEF h
  <2>10. \A g \in Holder : References(store', g) =
                           References(store, g) + (Holds(call', g) - Holds(call, g))
    <3> TAKE g \in Holder
    <3>1. References(store, g) \in Int
      BY Basics
    <3>2. References(store', g) = References(store, g) + (IF g = h THEN -1 ELSE 0)
      BY <2>5 DEF Effect
    <3> QED
      BY <3>1, <3>2, <2>9
  <2>11. RefsStep
    BY <1>1, <2>1, <2>9, <2>10, CallRefsStep
  <2> QED
    BY <1>1, <2>5, <2>6, <2>7, <2>8, <2>11, SoundStep
<1> QED
  BY <1>3, <1>4

\* The end of object_destroy().
LEMMA BuriedGood ==
  ASSUME IInv, Buried
  PROVE  Good
<1> DEFINE h == call.victim
<1>1. /\ call.pc = "kids" /\ store' = Bury(store, h) /\ call' = Idle
      /\ UNCHANGED <<frames, pending, dbTop, restarts, crashed>>
  BY DEF Buried, Running
<1>2. h \in Holder /\ call.who = NULL /\ call.found = NULL
  BY <1>1, Basics DEF CallShape
<1>3. Gone(store, h)
  BY <1>2, ClientAssumption DEF IInv, VictimGone
<1> HIDE DEF h
<1>4. /\ store' \in Store /\ ChainsOK(store')
      /\ Active(store') = Active(store)
      /\ \A g \in Active(store) : store'.obj[g] = store.obj[g]
      /\ Existing(store') \subseteq Existing(store)
      /\ store'.disk = store.disk
  BY <1>1, <1>2, <1>3, Basics, BuryEffect
<1>5. \A g \in Holder : References(store', g) = References(store, g)
  BY <1>4 DEF References
<1>6. TypesStep
  BY <1>1, IdleCall, Basics DEF TypesStep
<1>7. \A g \in Holder : Holds(call', g) = 0 /\ Holds(call, g) = 0
  BY <1>1, <1>2, IdleCall, HoldsBy, ClientAssumption
<1>8. \A g \in Holder : References(store', g) =
                        References(store, g) + (Holds(call', g) - Holds(call, g))
  BY <1>5, <1>7, Basics
<1>9. RefsStep
  BY <1>1, <1>7, <1>8, CallRefsStep
<1>10. RefsEnough' /\ (Balanced => Balanced')
  BY <1>4, <1>6, <1>9, RefsStepHolds
<1>11. DeadHeld'
  BY <1>4, <1>6, <1>9, DeadHeldStep
<1>12. DbTopUnused'
  BY <1>1, <1>4 DEF IInv, DbTopUnused
<1>13. RootsSafe'
  BY <1>4 DEF IInv, RootsSafe, DeadDbrefs
<1>14. KeepObjects /\ DiskKept
  BY <1>4 DEF KeepObjects, DiskKept
<1>15. TypeOK'
  BY <1>1, <1>4, <1>6 DEF IInv, TypeOK, TypesStep
<1>16. CallShape' /\ VictimGone'
  BY <1>1, IdleCall DEF CallShape, VictimGone
<1> QED
  BY <1>4, <1>10, <1>11, <1>12, <1>13, <1>14, <1>15, <1>16 DEF Good, IInv

-----------------------------------------------------------------------------
(***************************************************************************)
(* Every step.                                                             *)
(***************************************************************************)
LEMMA StutterGood ==
  ASSUME IInv, UNCHANGED vars
  PROVE  Good
<1>1. UNCHANGED <<store, frames, pending, call, dbTop, restarts, crashed>>
  BY DEF vars
<1>2. CallShape'
  BY <1>1, ShapeKept
<1> QED
  BY <1>1, <1>2, Basics, QuietStep

\* The begin of every operation.
LEMMA OperationGood ==
  ASSUME IInv, Operation
  PROVE  Good
<1>1. CASE \E d \in Dbref : SendMessage(d)
  BY <1>1, SendMessageGood
<1>2. CASE PassMessage
  BY <1>2, PassMessageGood
<1>3. CASE FrameReturn
  BY <1>3, FrameReturnGood
<1>4. CASE \E parents \in ParentLists : Create(parents)
  BY <1>4, CreateGood
<1>5. CASE \E d \in Dbref : Destroy(d)
  BY <1>5, DestroyGood
<1>6. CASE \E d \in Dbref, parents \in ParentLists : ChangeParents(d, parents)
  BY <1>6, ChangeParentsGood
<1>7. CASE \E m \in Methods : DefineMethod(m)
  BY <1>7, DefineMethodGood
<1>8. CASE \E v \in Vars : AssignVar(v)
  BY <1>8, AssignVarGood
<1>9. CASE BinaryDump
  BY <1>9, BinaryDumpGood
<1>10. CASE Restart
  BY <1>10, RestartGood
<1> QED
  BY <1>1, <1>2, <1>3, <1>4, <1>5, <1>6, <1>7, <1>8, <1>9, <1>10 DEF Operation

\* Every step of an operation in progress.
LEMMA ContinueGood ==
  ASSUME IInv, Continue
  PROVE  Good
<1>1. CASE DropReference
  BY <1>1, DropReferenceGood
<1>2. CASE \E x \in Dbref, mark, hit \in BOOLEAN : VisitAncestor(x, mark, hit)
  BY <1>2, VisitAncestorGood
<1>3. CASE MethodFound
  BY <1>3, MethodFoundGood
<1>4. CASE SearchEnds
  BY <1>4, SearchEndsGood
<1>5. CASE CheckParent
  BY <1>5, CheckParentGood
<1>6. CASE ParentsChecked
  BY <1>6, ParentsCheckedGood
<1>7. CASE SearchAncestor
  BY <1>7, SearchAncestorGood
<1>8. CASE AncestorAbsent
  BY <1>8, AncestorAbsentGood
<1>9. CASE TellParent
  BY <1>9, TellParentGood
<1>10. CASE SetParents
  BY <1>10, SetParentsGood
<1>11. CASE LeftParents
  BY <1>11, LeftParentsGood
<1>12. CASE TellKid
  BY <1>12, TellKidGood
<1>13. CASE Adopted
  BY <1>13, AdoptedGood
<1>14. CASE Buried
  BY <1>14, BuriedGood
<1> QED
  BY <1>1, <1>2, <1>3, <1>4, <1>5, <1>6, <1>7, <1>8, <1>9, <1>10, <1>11, <1>12, <1>13, <1>14
     DEF Continue

\* Every step.
LEMMA NextGood ==
  ASSUME IInv, [Next]_vars
  PROVE  Good
<1>1. CASE Operation
  BY <1>1, OperationGood
<1>2. CASE Continue
  BY <1>2, ContinueGood
<1>3. CASE Halted \/ UNCHANGED vars
  BY <1>3, StutterGood DEF Halted
<1> QED
  BY <1>1, <1>2, <1>3 DEF Next

-----------------------------------------------------------------------------
(***************************************************************************)
(* Theorems.                                                               *)
(***************************************************************************)

\* The inductive invariant holds: whatever the interpreter does, however often
\* the cache evicts, reuses or destroys an object in the middle of it, chains,
\* references, dead objects and db_top stay in the relation IInv states.
THEOREM Invariance == Spec => []IInv
<1>1. Init => IInv
  BY InitIInv
<1>2. IInv /\ [Next]_vars => IInv'
  BY NextGood DEF Good
<1> QED
  BY <1>1, <1>2, PTL DEF Spec

\* The C variables keep their types: no dbref, list or holder pointer ever
\* leaves its range, for any cache geometry and any number of frames.
THEOREM TypeCorrect == Spec => []TypeOK
<1>1. IInv => TypeOK
  BY DEF IInv
<1> QED
  BY <1>1, Invariance, PTL

\* cache.c's chains are intact in every reachable state: no holder is in two
\* places, no object has two holders, exactly the referenced ones are active.
THEOREM ChainsStayConsistent == Spec => []ChainsConsistent
<1>1. IInv => ChainsConsistent
  BY DEF IInv, ChainsConsistent
<1> QED
  BY <1>1, Invariance, PTL

\* While object_destroy() runs, nothing it calls can reach its object.
THEOREM VictimStaysUnlinked == Spec => []VictimUnlinked
<1>1. IInv => VictimUnlinked
  <2> SUFFICES ASSUME IInv, call.victim # NULL
               PROVE  /\ call.victim \notin Chained(store)
                      /\ store.disk[store.obj[call.victim].dbref] = NoImage
                      /\ ~Exists(store, store.obj[call.victim].dbref)
    BY DEF VictimUnlinked
  <2>1. Gone(store, call.victim)
    BY DEF IInv, VictimGone
  <2> DEFINE d == store.obj[call.victim].dbref
  <2>2. call.victim \notin Chained(store) /\ d \in Dbref /\ d \notin Existing(store)
    BY <2>1 DEF Gone
  <2> HIDE DEF d
  <2>3. store.disk[d] = NoImage /\ \A h \in Chained(store) : store.obj[h].dbref # d
    BY <2>2 DEF Existing
  <2>4. Hash(d) \in Bucket
    BY <2>2, HashType, CacheAssumption DEF Dbref
  <2>5. ActiveHits(store, d) = {} /\ InactiveHits(store, d) = {}
    BY <2>3, <2>4 DEF ActiveHits, InactiveHits, Chained, Active, Inactive
  <2> QED
    BY <2>2, <2>3, <2>5 DEF Exists, Check, d
<1> QED
  BY <1>1, Invariance, PTL

\* object_destroy() never begins inside a loop of object.c or inside itself:
\* whoever destroys an object still refers to it when the loop lets go of it.
THEOREM DestroyNeverNested == Spec => []DestroyNeverNests
<1>1. IInv => DestroyNeverNests
  <2> SUFFICES ASSUME IInv, NEW h \in Active(store), store.obj[h].dead = 1
               PROVE  store.obj[h].refs > Count(<<call.who, call.found>>, h)
    BY DEF DestroyNeverNests
  <2> QED
    BY DEF IInv, DeadHeld, References, Holds
<1> QED
  BY <1>1, Invariance, PTL

\* A frame's method and object pointers never come to denote another object:
\* no retrieval, eviction or destruction reuses a holder a method runs in.
THEOREM FramesKeepTheirObjects == Spec => FramesKeepObjects
<1> DEFINE Kept ==
      \A i \in 1 .. Len(frames) :
        i <= Len(frames') /\ frames'[i] = frames[i] =>
          \A h \in {frames[i].object, frames[i].definer} :
            store'.obj[h].dbref = store.obj[h].dbref
<1>1. ASSUME IInv, [Next]_vars
      PROVE  Kept
  <2> SUFFICES ASSUME NEW i \in 1 .. Len(frames), i <= Len(frames'),
                      NEW h \in {frames[i].object, frames[i].definer}
               PROVE  store'.obj[h].dbref = store.obj[h].dbref
    OBVIOUS
  <2>1. KeepObjects
    BY <1>1, NextGood DEF Good
  <2>2. h \in Active(store)
    BY <1>1, HeldActive
  <2>3. frames' # <<>>
    <3>1. frames \in Seq(Frame) /\ Len(frames) \in Nat
      BY <1>1, LenProperties DEF IInv, TypeOK
    <3> QED
      BY <3>1
  <2> QED
    BY <2>1, <2>2, <2>3 DEF KeepObjects
<1>2. IInv /\ [Next]_vars => [Kept]_vars
  BY <1>1
<1>3. [][Kept]_vars => FramesKeepObjects
  BY DEF FramesKeepObjects
<1> HIDE DEF Kept
<1> QED
  BY <1>2, <1>3, Invariance, PTL DEF Spec

\* As many references as pointers, in both ways to count the pointers.
LEMMA BalancedIsExact == Balanced <=> RefsExact
BY PointersUnprimed DEF Balanced, RefsExact

\* At first there are no references and no pointers.
LEMMA InitBalanced == Init => Balanced
<1> SUFFICES ASSUME Init
             PROVE  Balanced
  OBVIOUS
<1>1. Booted(FirstDisk, store)
  BY FirstDiskType, BootEffect DEF Init
<1> QED
  BY <1>1, FreshStart DEF Init, Balanced

\* If chparents() is never called with an empty list (the call that leaks),
\* cached objects have exactly as many references as the frames, the loops
\* and the pending discards hold: nothing leaks and nothing is freed early.
THEOREM ReferencesExact ==
  ASSUME <<>> \notin ParentLists
  PROVE  Spec => []RefsExact
<1>1. Init => IInv /\ Balanced
  BY InitIInv, InitBalanced
<1>2. IInv /\ Balanced /\ [Next]_vars => (IInv /\ Balanced)'
  BY NextGood DEF Good
<1>3. Balanced => RefsExact
  BY BalancedIsExact
<1> QED
  BY <1>1, <1>2, <1>3, PTL DEF Spec

\* Under the same assumption cache_sanity_check() never panics: whenever
\* main_loop() calls it, every object has been given back.
THEOREM SanityChecked ==
  ASSUME <<>> \notin ParentLists
  PROVE  Spec => []SanityCheckPasses
<1>1. IInv /\ RefsExact => SanityCheckPasses
  <2> SUFFICES ASSUME IInv, Balanced, AtMainLoop, NEW h \in Active(store)
               PROVE  FALSE
    BY BalancedIsExact DEF SanityCheckPasses
  <2>1. frames = <<>> /\ pending = <<>> /\ call = Idle
    BY Basics DEF AtMainLoop, Ready, Running, CallShape
  <2>2. h \in Holder /\ References(store, h) >= 1
    BY Basics, ActiveHolder DEF References
  <2>3. PointersOf(<<>>, <<>>, Idle, h) = 0
    BY <2>2, NoPointers
  <2> QED
    BY <2>1, <2>2, <2>3 DEF Balanced
<1> QED
  BY <1>1, Invariance, ReferencesExact, PTL

-----------------------------------------------------------------------------
(***************************************************************************)
(* Two more invariants, and what an orderly restart keeps: destroy() takes *)
(* effect, and a clean object has its children and methods on disk.  The   *)
(* second is inductive together with IInv; what it needs of the store is   *)
(* that no operator of cache.c or object.c changes those two fields, or    *)
(* the image of another object, without marking the holder dirty.          *)
(***************************************************************************)

-----------------------------------------------------------------------------
(***************************************************************************)
(* Destroyed objects.                                                      *)
(***************************************************************************)

\* destroy() takes effect: an object marked dead is still in the cache only
\* while something points to it, if chparents() is never called with an empty
\* list (the call that leaks).
THEOREM DestroyTakesEffect ==
  ASSUME <<>> \notin ParentLists
  PROVE  Spec => []DestroyedAreGone
<1>1. IInv /\ RefsExact => DestroyedAreGone
  <2> SUFFICES ASSUME IInv, RefsExact, NEW h \in Chained(store),
                      store.obj[h].dbref # EMPTY, store.obj[h].dead = 1
               PROVE  Pointers(h) > 0
    BY DEF DestroyedAreGone
  <2>1. h \in Holder /\ ChainsOK(store) /\ store \in Store
    BY Basics, StoreTypes
  <2>2. h \notin Inactive(store)
    BY <2>1 DEF Inactive, ChainsOK, InactiveOK
  <2>3. h \in Active(store)
    BY <2>2 DEF Chained
  <2>4. References(store, h) >= 1
    BY <2>1, <2>3, ActiveHolder DEF References
  <2> QED
    BY <2>1, <2>4, Basics DEF RefsExact
<1> QED
  BY <1>1, Invariance, ReferencesExact, PTL

-----------------------------------------------------------------------------
(***************************************************************************)
(* A holder is saved if what it has of an object's children and methods is *)
(* on disk, is about to be written, or will not be missed.                 *)
(***************************************************************************)
SameSaved(p, q) == p.children = q.children /\ p.methods = q.methods

HolderSaved(s, h) ==
  s.obj[h].dbref # EMPTY /\ s.obj[h].dirty = 0 /\ s.disk[s.obj[h].dbref] # NoImage =>
    SameSaved(s.disk[s.obj[h].dbref], s.obj[h].data)

AllSaved(s) == \A h \in Chained(s) : HolderSaved(s, h)

\* The invariant of the runs, in the form of the proofs.
LEMMA CleanIsAllSaved == CleanIsSaved <=> AllSaved(store)
BY DEF CleanIsSaved, AllSaved, HolderSaved, SameSaved

(***************************************************************************)
(* The operators of ObjectStore.                                           *)
(***************************************************************************)

\* Eviction writes the victim's image and nobody else's; what takes the
\* victim's place is saved if it is what is on disk, or if nothing is.
LEMMA GetHolderSaved ==
  ASSUME NEW s \in Store, ChainsOK(s), AllSaved(s), NEW d \in Dbref, NEW contents \in Image,
         CanGetHolder(s, d), \A g \in Chained(s) : s.obj[g].dbref # d,
         s.disk[d] = NoImage \/ s.disk[d] = contents
  PROVE  AllSaved(GetHolder(s, d, contents))
<1> DEFINE h == Victim(s, d)
           t == GetHolder(s, d, contents)
           r == [dbref |-> d, refs |-> 1, dirty |-> 0, dead |-> 0, data |-> contents]
<1>1. /\ h \in Holder
      /\ h \in Chained(s) \/ h \notin s.heap
      /\ Chained(t) = Chained(s) \cup {h}
      /\ t.obj = [s.obj EXCEPT ![h] = r]
      /\ t.disk = WriteBack(s, h)
  BY GetHolderEffect
<1> HIDE DEF h, t
<1>2. /\ t.obj[h] = r /\ \A g \in Holder : g # h => t.obj[g] = s.obj[g]
      /\ s.disk \in [Dbref -> Image \cup {NoImage}]
      /\ Chained(s) \subseteq Holder
  BY <1>1, StoreTypes DEF Store
<1>3. ASSUME NEW e \in Dbref, h \in Chained(s) => s.obj[h].dbref # e
      PROVE  t.disk[e] = s.disk[e]
  BY <1>1, <1>2, <1>3 DEF WriteBack
<1>4. HolderSaved(t, h)
  <2>1. t.disk[d] = s.disk[d]
    BY <1>3
  <2> QED
    BY <1>2, <2>1 DEF HolderSaved, SameSaved
<1>5. ASSUME NEW g \in Chained(s), g # h
      PROVE  HolderSaved(t, g)
  <2>1. HolderSaved(s, g) /\ t.obj[g] = s.obj[g]
    BY <1>2, <1>5 DEF AllSaved
  <2>2. CASE s.obj[g].dbref # EMPTY
    <3>1. s.obj[g].dbref \in Dbref
      BY <1>2, <2>2, StoreTypes DEF Record
    <3>2. h \in Chained(s) => s.obj[h].dbref # s.obj[g].dbref
      BY <1>5, <2>2 DEF ChainsOK, OneHolder
    <3>3. t.disk[s.obj[g].dbref] = s.disk[s.obj[g].dbref]
      BY <1>3, <3>1, <3>2
    <3> QED
      BY <2>1, <3>3 DEF HolderSaved
  <2> QED
    BY <2>1, <2>2 DEF HolderSaved
<1>6. AllSaved(t)
  BY <1>1, <1>4, <1>5 DEF AllSaved
<1> QED
  BY <1>6 DEF t

\* Looking for an object that is not there keeps the others saved.
LEMMA MissSaved ==
  ASSUME NEW s \in Store, ChainsOK(s), AllSaved(s), NEW d \in Dbref, CanGetHolder(s, d),
         \A g \in Chained(s) : s.obj[g].dbref # d, s.disk[d] = NoImage
  PROVE  AllSaved(Miss(s, d))
<1> DEFINE h == Victim(s, d)
           b == Hash(d)
           u == GetHolder(s, d, Blank)
           t == Miss(s, d)
<1>1. AllSaved(u)
  BY BlankTypes, GetHolderSaved
<1>2. u \in Store /\ h \in Holder /\ Chained(u) = Chained(s) \cup {h}
  BY BlankTypes, GetHolderEffect
<1>3. b \in Bucket
  BY HashType DEF Dbref
<1> HIDE DEF h, u, b
<1>4. t = [u EXCEPT !.obj = [u.obj EXCEPT ![h] = EmptyHolder],
                    !.active = [u.active EXCEPT ![b] = u.active[b] \ {h}],
                    !.inactive = [u.inactive EXCEPT ![b] = Append(u.inactive[b], h)]]
  BY <1>2, <1>3 DEF Miss, h, u, b, Store
<1> HIDE DEF t
<1>5. /\ t.obj[h] = EmptyHolder
      /\ \A g \in Holder : g # h => t.obj[g] = u.obj[g]
      /\ \A c \in Bucket : t.active[c] \subseteq u.active[c]
      /\ t.inactive[b] = Append(u.inactive[b], h)
      /\ \A c \in Bucket : c # b => t.inactive[c] = u.inactive[c]
      /\ t.disk = u.disk
  BY <1>2, <1>3, <1>4 DEF Store
<1>6. Range(t.inactive[b]) \subseteq Range(u.inactive[b]) \cup {h}
  <2>1. u.inactive[b] \in Seq(Holder)
    BY <1>2, <1>3 DEF Store
  <2> QED
    BY <1>5, <2>1, LenProperties, AppendProperties DEF Range
<1>7. Chained(t) \subseteq Chained(u) /\ Chained(u) \subseteq Holder
  <2>1. \A c \in Bucket : /\ u.active[c] \subseteq Chained(u)
                         /\ Range(u.inactive[c]) \subseteq Chained(u)
    BY <1>2, StoreTypes
  <2>2. h \in Chained(u) /\ Chained(u) \subseteq Holder
    BY <1>2, StoreTypes
  <2>3. \A c \in Bucket : /\ t.active[c] \subseteq Chained(u)
                         /\ Range(t.inactive[c]) \subseteq Chained(u)
    BY <1>5, <1>6, <2>1, <2>2
  <2> QED
    BY <2>2, <2>3 DEF Chained, Active, Inactive
<1>8. \A g \in Chained(t) : HolderSaved(t, g)
  BY <1>1, <1>5, <1>7 DEF HolderSaved, AllSaved, EmptyHolder
<1> QED
  BY <1>8 DEF AllSaved, t

\* Neither of cache.c's two places for a holder matters to what is on disk.
LEMMA CounterSaved ==
  ASSUME NEW s \in Store, NEW h \in Holder, NEW r \in Record, NEW t, t.disk = s.disk,
         t.obj = [s.obj EXCEPT ![h] = r],
         r.dbref = s.obj[h].dbref, r.dirty = s.obj[h].dirty, SameSaved(r.data, s.obj[h].data)
  PROVE  \A g \in Holder : HolderSaved(s, g) => HolderSaved(t, g)
<1>1. t.obj[h] = r /\ \A g \in Holder : g # h => t.obj[g] = s.obj[g]
  BY DEF Store
<1> QED
  BY <1>1 DEF HolderSaved, SameSaved

\* Another reference changes nothing that is saved.
LEMMA GrabSaved ==
  ASSUME NEW s \in Store, NEW h \in Holder
  PROVE  /\ \A g \in Holder : HolderSaved(s, g) => HolderSaved(Grab(s, h), g)
         /\ Chained(Grab(s, h)) = Chained(s)
<1> DEFINE r == [s.obj[h] EXCEPT !.refs = @ + 1]
           t == Grab(s, h)
<1>1. s.obj[h] \in Record
  BY StoreTypes
<1>2. /\ r \in Record /\ r.dbref = s.obj[h].dbref /\ r.dirty = s.obj[h].dirty
      /\ r.data = s.obj[h].data
  BY <1>1 DEF Record
<1>3. /\ t.obj = [s.obj EXCEPT ![h] = r] /\ t.disk = s.disk
      /\ t.active = s.active /\ t.inactive = s.inactive
  BY DEF Grab, Store
<1> HIDE DEF r, t
<1>4. \A g \in Holder : HolderSaved(s, g) => HolderSaved(t, g)
  BY <1>2, <1>3, CounterSaved DEF SameSaved
<1>5. Chained(t) = Chained(s)
  BY <1>3 DEF Chained, Active, Inactive
<1> QED
  BY <1>4, <1>5 DEF t

\* Moving a holder to its active chain changes nothing that is saved.
LEMMA ActivateSaved ==
  ASSUME NEW s \in Store, ChainsOK(s), AllSaved(s), NEW d \in Dbref, NEW h \in InactiveHits(s, d)
  PROVE  AllSaved(Activate(s, h, Hash(d)))
<1> DEFINE r == [s.obj[h] EXCEPT !.refs = 1]
           b == Hash(d)
           t == Activate(s, h, b)
<1>1. b \in Bucket /\ h \in Range(s.inactive[b])
  BY HashType DEF InactiveHits, Dbref
<1>2. h \in Holder /\ h \in Chained(s) /\ s.obj[h] \in Record
  BY <1>1, StoreTypes
<1>3. /\ r \in Record /\ r.dbref = s.obj[h].dbref /\ r.dirty = s.obj[h].dirty
      /\ r.data = s.obj[h].data
  BY <1>2 DEF Record
<1>4. /\ t.obj = [s.obj EXCEPT ![h] = r] /\ t.disk = s.disk
      /\ t.active[b] = s.active[b] \cup {h} /\ t.inactive[b] = Unlink(s.inactive[b], h)
      /\ \A c \in Bucket : c # b => t.active[c] = s.active[c] /\ t.inactive[c] = s.inactive[c]
  BY <1>1, <1>2 DEF Activate, Store
<1>5. Range(Unlink(s.inactive[b], h)) = Range(s.inactive[b]) \ {h}
  BY <1>1, ChainUnlink DEF Store, ChainsOK, InactiveOK
<1> HIDE DEF r, t, b
<1>6. \A g \in Holder : HolderSaved(s, g) => HolderSaved(t, g)
  BY <1>2, <1>3, <1>4, CounterSaved DEF SameSaved
<1>7. Chained(t) \subseteq Chained(s)
  BY <1>1, <1>2, <1>4, <1>5 DEF Chained, Active, Inactive
<1> QED
  BY <1>6, <1>7, StoreTypes DEF AllSaved, t, b

\* cache_retrieve(), hit or miss.
LEMMA RetrieveSaved ==
  ASSUME NEW s \in Store, ChainsOK(s), AllSaved(s), NEW d \in Dbref, CanRetrieve(s, d)
  PROVE  AllSaved(Retrieve(s, d))
<1>1. CASE ActiveHits(s, d) # {}
  <2> DEFINE h == Retrieved(s, d)
  <2>1. h \in ActiveHits(s, d) /\ Retrieve(s, d) = Grab(s, h)
    BY <1>1 DEF Retrieve, Retrieved
  <2>2. h \in Holder
    BY <2>1, HashType, StoreTypes DEF ActiveHits, Dbref
  <2> QED
    BY <2>1, <2>2, GrabSaved, StoreTypes DEF AllSaved
<1>2. CASE ActiveHits(s, d) = {} /\ InactiveHits(s, d) # {}
  <2>1. /\ Retrieved(s, d) \in InactiveHits(s, d)
        /\ Retrieve(s, d) = Activate(s, Retrieved(s, d), Hash(d))
    BY <1>2 DEF Retrieve, Retrieved
  <2> QED
    BY <2>1, ActivateSaved
<1>3. CASE ActiveHits(s, d) = {} /\ InactiveHits(s, d) = {}
  <2>1. CanGetHolder(s, d) /\ \A g \in Chained(s) : s.obj[g].dbref # d
    BY <1>3, NoHits DEF CanRetrieve
  <2>2. CASE s.disk[d] # NoImage
    <3>1. s.disk[d] \in Image
      BY <2>2 DEF Store
    <3>2. Retrieve(s, d) = GetHolder(s, d, s.disk[d])
      BY <1>3, <2>2 DEF Retrieve, Load
    <3> QED
      BY <2>1, <3>1, <3>2, GetHolderSaved
  <2>3. CASE s.disk[d] = NoImage
    <3>1. Retrieve(s, d) = Miss(s, d)
      BY <1>3, <2>3 DEF Retrieve
    <3> QED
      BY <2>1, <2>3, <3>1, MissSaved
  <2> QED
    BY <2>2, <2>3
<1> QED
  BY <1>1, <1>2, <1>3

\* cache_discard() changes a count, moves a holder, or deletes an image.
LEMMA DiscardSaved ==
  ASSUME NEW s \in Store, NEW h \in Holder
  PROVE  /\ \A g \in Holder : HolderSaved(s, g) => HolderSaved(Discard(s, h), g)
         /\ Chained(Discard(s, h)) \subseteq Chained(s) \cup {h}
<1> DEFINE b == Hash(s.obj[h].dbref)
           e == s.obj[h].dbref
           r == [s.obj[h] EXCEPT !.refs = @ - 1]
           t == Discard(s, h)
<1>1. b \in Bucket /\ s.obj[h] \in Record
  BY HashType, StoreTypes
<1>2. /\ r.dbref = s.obj[h].dbref /\ r.dirty = s.obj[h].dirty
      /\ r.data = s.obj[h].data
  BY <1>1 DEF Record
<1>3. /\ t.obj = [s.obj EXCEPT ![h] = r]
      /\ t.disk = s.disk \/ t.disk = [s.disk EXCEPT ![e] = NoImage]
      /\ t.active = s.active \/ t.active = [s.active EXCEPT ![b] = s.active[b] \ {h}]
      /\ t.inactive = s.inactive \/ t.inactive = [s.inactive EXCEPT ![b] = <<h>> \o s.inactive[b]]
  <2>1. CASE s.obj[h].refs # 1
    BY <2>1 DEF Discard, Store
  <2>2. CASE s.obj[h].refs = 1 /\ s.obj[h].dead = 1
    BY <1>1, <2>2 DEF Discard, Store
  <2>3. CASE s.obj[h].refs = 1 /\ s.obj[h].dead # 1
    BY <1>1, <2>3 DEF Discard, Store
  <2> QED
    BY <2>1, <2>2, <2>3
<1> HIDE DEF r, t, b
<1>4. /\ t.obj[h] = r /\ \A g \in Holder : g # h => t.obj[g] = s.obj[g]
      /\ \A x \in Dbref : t.disk[x] = s.disk[x] \/ t.disk[x] = NoImage
  BY <1>3 DEF Store
<1>5. \A g \in Holder : HolderSaved(s, g) => HolderSaved(t, g)
  <2> SUFFICES ASSUME NEW g \in Holder, HolderSaved(s, g), t.obj[g].dbref # EMPTY,
                      t.obj[g].dirty = 0, t.disk[t.obj[g].dbref] # NoImage
               PROVE  SameSaved(t.disk[t.obj[g].dbref], t.obj[g].data)
    BY DEF HolderSaved
  <2>1. /\ t.obj[g].dbref = s.obj[g].dbref /\ t.obj[g].dirty = s.obj[g].dirty
        /\ t.obj[g].data = s.obj[g].data
    BY <1>2, <1>4
  <2>2. t.obj[g].dbref \in Dbref
    BY <2>1, StoreTypes DEF Record
  <2> QED
    BY <1>4, <2>1, <2>2 DEF HolderSaved
<1>6. Range(<<h>> \o s.inactive[b]) \subseteq Range(s.inactive[b]) \cup {h}
  <2>1. s.inactive[b] \in Seq(Holder)
    BY <1>1 DEF Store
  <2> QED
    BY <2>1, ConcatProperties, LenProperties DEF Range
<1>7. /\ \A c \in Bucket : t.active[c] \subseteq s.active[c]
      /\ \A c \in Bucket : Range(t.inactive[c]) \subseteq Range(s.inactive[c]) \cup {h}
  <2> DEFINE active == [s.active EXCEPT ![b] = s.active[b] \ {h}]
             inactive == [s.inactive EXCEPT ![b] = <<h>> \o s.inactive[b]]
  <2>1. /\ \A c \in Bucket : active[c] \subseteq s.active[c]
        /\ \A c \in Bucket : inactive[c] = IF c = b THEN <<h>> \o s.inactive[b] ELSE s.inactive[c]
    BY <1>1 DEF Store
  <2>2. (t.active = s.active \/ t.active = active) /\ (t.inactive = s.inactive \/ t.inactive = inactive)
    BY <1>3
  <2> HIDE DEF active, inactive
  <2> QED
    BY <1>6, <2>1, <2>2
<1>8. Chained(t) \subseteq Chained(s) \cup {h}
  BY <1>7 DEF Chained, Active, Inactive
<1> QED
  BY <1>5, <1>8 DEF t

\* Giving back a reference to a saved object keeps everything saved.
LEMMA DiscardAllSaved ==
  ASSUME NEW s \in Store, AllSaved(s), NEW h \in Holder, HolderSaved(s, h)
  PROVE  AllSaved(Discard(s, h))
BY DiscardSaved, StoreTypes DEF AllSaved

\* A write to a holder that marks it dirty, or does not touch what is saved.
LEMMA MarkDirtySaved ==
  ASSUME NEW s \in Store, NEW h \in Holder, \A g \in Chained(s) \ {h} : HolderSaved(s, g)
  PROVE  LET t == MarkDirty(s, h)
         IN  t \in Store /\ AllSaved(t) /\ HolderSaved(t, h)
<1> DEFINE t == MarkDirty(s, h)
           r == [s.obj[h] EXCEPT !.dirty = 1]
<1>1. t \in Store
  <2>1. r \in Record
    BY StoreTypes DEF Record
  <2>2. t = [s EXCEPT !.obj = [s.obj EXCEPT ![h] = r]]
    BY DEF MarkDirty, Store
  <2>3. s \in Store /\ [s.obj EXCEPT ![h] = r] \in [Holder -> Record]
    BY <2>1 DEF Store
  <2> HIDE DEF r, t
  <2> QED
    BY <2>2, <2>3 DEF Store
<1>2. /\ t.obj[h].dirty = 1 /\ \A g \in Holder : g # h => t.obj[g] = s.obj[g]
      /\ t.disk = s.disk /\ t.active = s.active /\ t.inactive = s.inactive
  BY StoreTypes DEF MarkDirty, Store, Record
<1> HIDE DEF t
<1>3. Chained(t) = Chained(s) /\ Chained(s) \subseteq Holder
  BY <1>2, StoreTypes DEF Chained, Active, Inactive
<1>4. HolderSaved(t, h) /\ \A g \in Chained(s) \ {h} : HolderSaved(t, g)
  BY <1>2, <1>3 DEF HolderSaved
<1> QED
  BY <1>1, <1>3, <1>4 DEF AllSaved, t

\* New contents put the saving of one object at stake, and of no other.
LEMMA SetDataSaved ==
  ASSUME NEW s \in Store, AllSaved(s), NEW h \in Holder, NEW contents \in Image
  PROVE  LET t == SetData(s, h, contents)
         IN  /\ t \in Store /\ Chained(t) = Chained(s)
             /\ \A g \in Chained(t) \ {h} : HolderSaved(t, g)
             /\ SameSaved(contents, s.obj[h].data) => AllSaved(t)
<1> DEFINE t == SetData(s, h, contents)
           r == [s.obj[h] EXCEPT !.data = contents]
<1>1. s.obj[h] \in Record
  BY StoreTypes
<1>2. /\ r \in Record /\ r.dbref = s.obj[h].dbref /\ r.dirty = s.obj[h].dirty
      /\ r.data = contents
  BY <1>1 DEF Record
<1>3. /\ t = [s EXCEPT !.obj = [s.obj EXCEPT ![h] = r]]
      /\ t.obj = [s.obj EXCEPT ![h] = r]
      /\ t.disk = s.disk /\ t.active = s.active /\ t.inactive = s.inactive
  BY DEF SetData, Store
<1> HIDE DEF r, t
<1>4. t \in Store
  BY <1>2, <1>3 DEF Store
<1>5. Chained(t) = Chained(s) /\ Chained(s) \subseteq Holder
  BY <1>3, StoreTypes DEF Chained, Active, Inactive
<1>6. \A g \in Holder : g # h => t.obj[g] = s.obj[g]
  BY <1>3 DEF Store
<1>7. \A g \in Chained(t) \ {h} : HolderSaved(t, g)
  BY <1>3, <1>5, <1>6 DEF HolderSaved, AllSaved
<1>8. SameSaved(contents, s.obj[h].data) => AllSaved(t)
  <2> SUFFICES ASSUME SameSaved(r.data, s.obj[h].data)
               PROVE  AllSaved(t)
    BY <1>2
  <2>1. t.disk = s.disk /\ t.obj = [s.obj EXCEPT ![h] = r]
    BY <1>3
  <2>2. \A g \in Holder : HolderSaved(s, g) => HolderSaved(t, g)
    BY <1>2, <2>1, CounterSaved DEF SameSaved
  <2> QED
    BY <1>5, <2>2 DEF AllSaved
<1> QED
  BY <1>4, <1>5, <1>7, <1>8 DEF t

\* The dead flag keeps everything saved.
LEMMA MarkDeadSaved ==
  ASSUME NEW s \in Store, AllSaved(s), NEW h \in Holder
  PROVE  AllSaved(MarkDead(s, h))
<1> DEFINE t == MarkDead(s, h)
           r == [s.obj[h] EXCEPT !.dead = 1]
<1>1. s.obj[h] \in Record
  BY StoreTypes
<1>2. /\ r \in Record /\ r.dbref = s.obj[h].dbref /\ r.dirty = s.obj[h].dirty
      /\ r.data = s.obj[h].data
  BY <1>1 DEF Record
<1>3. /\ t.obj = [s.obj EXCEPT ![h] = r]
      /\ t.disk = s.disk /\ t.active = s.active /\ t.inactive = s.inactive
  BY DEF MarkDead, Store
<1> HIDE DEF r, t
<1>4. Chained(t) = Chained(s) /\ Chained(s) \subseteq Holder
  BY <1>3, StoreTypes DEF Chained, Active, Inactive
<1>5. AllSaved(t)
  BY <1>2, <1>3, <1>4, CounterSaved DEF AllSaved, SameSaved
<1> QED
  BY <1>5 DEF t

\* The holder of a destroyed object comes back empty.
LEMMA BurySaved ==
  ASSUME NEW s \in Store, ChainsOK(s), AllSaved(s), NEW h \in Holder, Gone(s, h)
  PROVE  AllSaved(Bury(s, h))
<1> DEFINE b == Hash(s.obj[h].dbref)
           t == Bury(s, h)
<1>1. b \in Bucket /\ s.inactive[b] \in Seq(Holder)
  BY HashType, StoreTypes DEF Store
<1>2. /\ t.obj[h] = EmptyHolder /\ \A g \in Holder : g # h => t.obj[g] = s.obj[g]
      /\ t.disk = s.disk /\ t.active = s.active
      /\ t.inactive[b] = Append(s.inactive[b], h)
      /\ \A c \in Bucket : c # b => t.inactive[c] = s.inactive[c]
  BY <1>1 DEF Bury, Store
<1> HIDE DEF t, b
<1>3. Range(t.inactive[b]) \subseteq Range(s.inactive[b]) \cup {h}
  BY <1>1, <1>2, LenProperties, AppendProperties DEF Range
<1>4. Chained(t) \subseteq Chained(s) \cup {h} /\ Chained(s) \subseteq Holder
  <2>1. \A c \in Bucket : /\ t.active[c] \subseteq Chained(s) \cup {h}
                         /\ Range(t.inactive[c]) \subseteq Chained(s) \cup {h}
    BY <1>2, <1>3, StoreTypes
  <2>2. Chained(t) \subseteq Chained(s) \cup {h}
    BY <2>1 DEF Chained, Active, Inactive
  <2> QED
    BY <2>2, StoreTypes
<1>5. HolderSaved(t, h)
  BY <1>2 DEF HolderSaved, EmptyHolder
<1>6. \A g \in Chained(s) \ {h} : HolderSaved(t, g)
  BY <1>2, <1>4 DEF HolderSaved, AllSaved
<1> QED
  BY <1>4, <1>5, <1>6 DEF AllSaved, t

\* What cache_sync() puts on disk.
LEMMA SyncDisk ==
  ASSUME NEW s \in Store, ChainsOK(s)
  PROVE  /\ \A h \in Chained(s) : s.obj[h].dbref # EMPTY =>
              Sync(s).disk[s.obj[h].dbref] =
                IF s.obj[h].dirty = 1 THEN s.obj[h].data ELSE s.disk[s.obj[h].dbref]
         /\ \A d \in Dbref : (\A h \in Chained(s) : s.obj[h].dbref # d) => Sync(s).disk[d] = s.disk[d]
         /\ \A h \in Chained(s) : /\ Sync(s).obj[h].data = s.obj[h].data
                                  /\ Sync(s).obj[h].dbref = s.obj[h].dbref
                                  /\ Sync(s).obj[h].dirty = 0 \/ s.obj[h].dbref = EMPTY
<1> DEFINE disk == [d \in Dbref |->
                       IF \E h \in Unsaved(s) : s.obj[h].dbref = d
                       THEN s.obj[CHOOSE h \in Unsaved(s) : s.obj[h].dbref = d].data
                       ELSE s.disk[d]]
           clean == [h \in Holder |->
                       IF h \in Unsaved(s) THEN [s.obj[h] EXCEPT !.dirty = 0] ELSE s.obj[h]]
<1>1. Sync(s).disk = disk /\ Sync(s).obj = clean
  BY DEF Sync, Store
<1>2. ASSUME NEW h \in Chained(s), s.obj[h].dbref # EMPTY
      PROVE  disk[s.obj[h].dbref] =
               IF s.obj[h].dirty = 1 THEN s.obj[h].data ELSE s.disk[s.obj[h].dbref]
  <2>1. s.obj[h].dbref \in Dbref
    BY <1>2, StoreTypes DEF Record
  <2>2. \A g \in Unsaved(s) : s.obj[g].dbref = s.obj[h].dbref => g = h
    BY <1>2 DEF Unsaved, ChainsOK, OneHolder
  <2>3. h \in Unsaved(s) <=> s.obj[h].dirty = 1
    BY <1>2 DEF Unsaved
  <2> QED
    BY <2>1, <2>2, <2>3
<1>3. ASSUME NEW d \in Dbref, \A h \in Chained(s) : s.obj[h].dbref # d
      PROVE  disk[d] = s.disk[d]
  BY <1>3 DEF Unsaved
<1>4. ASSUME NEW h \in Chained(s)
      PROVE  /\ clean[h].data = s.obj[h].data /\ clean[h].dbref = s.obj[h].dbref
             /\ clean[h].dirty = 0 \/ s.obj[h].dbref = EMPTY
  <2>1. h \in Holder /\ s.obj[h] \in Record
    BY StoreTypes
  <2> QED
    BY <2>1 DEF Unsaved, Record
<1> HIDE DEF disk, clean
<1> QED
  BY <1>1, <1>2, <1>3, <1>4

\* cache_sync() keeps everything saved.
LEMMA SyncSaved ==
  ASSUME NEW s \in Store, ChainsOK(s), AllSaved(s)
  PROVE  AllSaved(Sync(s))
<1> DEFINE t == Sync(s)
<1>1. Chained(t) = Chained(s) /\ Chained(s) \subseteq Holder
  BY SyncEffect, StoreTypes
<1>2. ASSUME NEW h \in Chained(s)
      PROVE  HolderSaved(t, h)
  <2>1. /\ t.obj[h].data = s.obj[h].data /\ t.obj[h].dbref = s.obj[h].dbref
        /\ s.obj[h].dbref # EMPTY =>
             t.disk[s.obj[h].dbref] =
               IF s.obj[h].dirty = 1 THEN s.obj[h].data ELSE s.disk[s.obj[h].dbref]
    BY <1>2, SyncDisk
  <2>2. s.obj[h].dirty \in {0, 1} /\ HolderSaved(s, h)
    BY <1>1, <1>2, StoreTypes DEF Record, AllSaved
  <2> HIDE DEF t
  <2> QED
    BY <2>1, <2>2 DEF HolderSaved, SameSaved
<1> QED
  BY <1>1, <1>2 DEF AllSaved

-----------------------------------------------------------------------------
(***************************************************************************)
(* A fresh process: nothing is dirty, so that start-up's evictions write   *)
(* nothing and the disk is still the one it found.                         *)
(***************************************************************************)
Pristine(s, disk) ==
  /\ s.disk = disk
  /\ \A h \in Holder : s.obj[h].dirty = 0 /\ s.obj[h].dead = 0
  /\ AllSaved(s)

\* init_cache() begins with clean holders.
LEMMA InitCachePristine ==
  ASSUME NEW disk \in [Dbref -> Image \cup {NoImage}]
  PROVE  Pristine(InitCache(disk), disk)
<1> DEFINE s == InitCache(disk)
<1>1. s \in Store /\ s.disk = disk /\ \A h \in Holder : s.obj[h] = EmptyHolder
  BY InitCacheChains DEF InitCache
<1> HIDE DEF s
<1>2. AllSaved(s)
  BY <1>1, StoreTypes DEF AllSaved, HolderSaved, EmptyHolder
<1>3. Pristine(s, disk)
  BY <1>1, <1>2 DEF Pristine, EmptyHolder
<1> QED
  BY <1>3 DEF s

\* So it stays when start-up looks at an object,
LEMMA TouchPristine ==
  ASSUME NEW disk, NEW s \in Store, ChainsOK(s), Pristine(s, disk), NEW d \in Dbref,
         CanRetrieve(s, d), Check(s, d)
  PROVE  Pristine(Touch(s, d), disk)
<1> DEFINE h == Retrieved(s, d)
           t == Retrieve(s, d)
<1>1. /\ t \in Store /\ ChainsOK(t) /\ h \in Active(t) /\ h \in Holder /\ h \in Chained(t)
  <2>1. FoundBy(s, t, h, d)
    BY RetrieveFound
  <2> QED
    BY <2>1, StoreTypes DEF FoundBy, Effect, Sound
<1>2. t.disk = disk /\ \A g \in Holder : t.obj[g].dirty = 0 /\ t.obj[g].dead = 0
  <2>1. CASE ActiveHits(s, d) # {}
    <3> DEFINE r == [s.obj[h] EXCEPT !.refs = @ + 1]
    <3>1. t = Grab(s, h)
      BY <2>1 DEF Retrieve
    <3>2. t.obj = [s.obj EXCEPT ![h] = r] /\ t.disk = s.disk
      BY <1>1, <3>1 DEF Grab, Store
    <3>3. r.dirty = s.obj[h].dirty /\ r.dead = s.obj[h].dead
      BY <1>1, StoreTypes DEF Record
    <3> HIDE DEF t, h, r
    <3> QED
      BY <1>1, <3>2, <3>3 DEF Pristine, Store
  <2>2. CASE ActiveHits(s, d) = {} /\ InactiveHits(s, d) # {}
    <3> DEFINE r == [s.obj[h] EXCEPT !.refs = 1]
    <3>1. t = Activate(s, h, Hash(d))
      BY <2>2 DEF Retrieve
    <3>2. t.obj = [s.obj EXCEPT ![h] = r] /\ t.disk = s.disk
      BY <1>1, <3>1 DEF Activate, Store
    <3>3. r.dirty = s.obj[h].dirty /\ r.dead = s.obj[h].dead
      BY <1>1, StoreTypes DEF Record
    <3> HIDE DEF t, h, r
    <3> QED
      BY <1>1, <3>2, <3>3 DEF Pristine, Store
  <2>3. CASE ActiveHits(s, d) = {} /\ InactiveHits(s, d) = {}
    <3>1. /\ s.disk[d] # NoImage /\ CanGetHolder(s, d)
          /\ \A g \in Chained(s) : s.obj[g].dbref # d
      BY <2>3, NoHits DEF Check, CanRetrieve
    <3>2. s.disk[d] \in Image /\ t = GetHolder(s, d, s.disk[d]) /\ h = Victim(s, d)
      BY <2>3, <3>1 DEF Store, Retrieve, Retrieved, Load
    <3>3. /\ t.obj = [s.obj EXCEPT ![h] = [dbref |-> d, refs |-> 1, dirty |-> 0,
                                           dead |-> 0, data |-> s.disk[d]]]
          /\ t.disk = WriteBack(s, h)
      BY <3>1, <3>2, GetHolderEffect
    <3> HIDE DEF t, h
    <3>4. WriteBack(s, h) = s.disk
      BY <1>1 DEF WriteBack, Pristine
    <3> QED
      BY <1>1, <3>3, <3>4 DEF Pristine, Store
  <2> QED
    BY <2>1, <2>2, <2>3
<1>3. AllSaved(t)
  BY RetrieveSaved DEF Pristine
<1> HIDE DEF t, h
<1>4. AllSaved(Discard(t, h))
  BY <1>1, <1>3, DiscardAllSaved DEF AllSaved
<1>5. Discard(t, h).disk = t.disk
  BY <1>1, <1>2 DEF Discard
<1>6. \A g \in Holder : /\ Discard(t, h).obj[g].dirty = t.obj[g].dirty
                       /\ Discard(t, h).obj[g].dead = t.obj[g].dead
  <2> DEFINE r == [t.obj[h] EXCEPT !.refs = @ - 1]
  <2>1. t.obj[h] \in Record /\ r.dirty = t.obj[h].dirty /\ r.dead = t.obj[h].dead
    BY <1>1, StoreTypes DEF Record
  <2>2. Discard(t, h).obj = [t.obj EXCEPT ![h] = r]
    BY <1>1 DEF Discard, Store
  <2> HIDE DEF r
  <2> QED
    BY <1>1, <2>1, <2>2 DEF Store
<1> QED
  BY <1>2, <1>4, <1>5, <1>6 DEF Pristine, Touch, t, h

\* and to the end of start-up.
LEMMA BootPristine ==
  ASSUME NEW disk \in [Dbref -> Image \cup {NoImage}],
         disk[ROOT_DBREF] # NoImage, disk[SYSTEM_DBREF] # NoImage
  PROVE  Pristine(Boot(disk), disk)
<1> DEFINE s0 == InitCache(disk)
           s1 == Touch(s0, ROOT_DBREF)
<1>1. ROOT_DBREF \in Dbref /\ SYSTEM_DBREF \in Dbref
  BY CacheAssumption, ClientAssumption DEF ROOT_DBREF, SYSTEM_DBREF, Dbref
<1>2. /\ Booted(disk, s0) /\ CanRetrieve(s0, ROOT_DBREF)
      /\ Booted(disk, s1) /\ CanRetrieve(s1, SYSTEM_DBREF)
  BY FirstTouched
<1>3. Pristine(s0, disk)
  BY InitCachePristine
<1> HIDE DEF s0
<1>4. Pristine(s1, disk)
  BY <1>1, <1>2, <1>3, TouchPristine DEF Booted, Check
<1> HIDE DEF s1
<1>5. Pristine(Touch(s1, SYSTEM_DBREF), disk)
  BY <1>1, <1>2, <1>4, TouchPristine DEF Booted, Check
<1> QED
  BY <1>5 DEF Boot, s0, s1

-----------------------------------------------------------------------------
(***************************************************************************)
(* The steps of Next.                                                      *)
(***************************************************************************)

\* A successful cache_retrieve().
LEMMA FoundSaved ==
  ASSUME IInv, AllSaved(store), NEW d \in Dbref, CanRetrieve(store, d), Exists(store, d)
  PROVE  LET h == Retrieved(store, d)
             t == Retrieve(store, d)
         IN  /\ t \in Store /\ h \in Holder /\ AllSaved(t) /\ HolderSaved(t, h)
             /\ \A g \in Active(store) : HolderSaved(t, g)
<1> DEFINE h == Retrieved(store, d)
           t == Retrieve(store, d)
<1>1. h \in Holder /\ t \in Store /\ h \in Active(t) /\ Effect(store, t, h, 1)
  BY Found
<1>2. AllSaved(t)
  BY Basics, RetrieveSaved
<1> HIDE DEF h, t
<1>3. ASSUME NEW g \in Active(store)
      PROVE  g \in Active(t)
  <2>1. g \in Holder /\ References(store, g) >= 1 /\ References(store, g) \in Int
    BY Basics, ActiveHolder DEF References
  <2>2. References(t, g) >= 1
    BY <1>1, <2>1 DEF Effect
  <2> QED
    BY <2>2 DEF References
<1>4. Active(t) \subseteq Chained(t)
  BY <1>1, StoreTypes
<1> QED
  BY <1>1, <1>2, <1>3, <1>4 DEF AllSaved, h, t

\* A visit: retrieved, perhaps stamped or rewritten, and discarded.
LEMMA VisitSaved ==
  ASSUME NEW s \in Store, AllSaved(s), NEW h \in Holder, HolderSaved(s, h)
  PROVE  /\ AllSaved(Discard(s, h))
         /\ AllSaved(Discard(MarkDirty(s, h), h))
         /\ \A contents \in Image : AllSaved(Discard(MarkDirty(SetData(s, h, contents), h), h))
<1>1. AllSaved(Discard(s, h))
  BY DiscardAllSaved
<1>2. ASSUME NEW t \in Store, \A g \in Chained(t) \ {h} : HolderSaved(t, g)
      PROVE  AllSaved(Discard(MarkDirty(t, h), h))
  <2>1. MarkDirty(t, h) \in Store
    BY <1>2, MarkDirtySaved
  <2>2. AllSaved(MarkDirty(t, h)) /\ HolderSaved(MarkDirty(t, h), h)
    BY <1>2, MarkDirtySaved
  <2> QED
    BY <2>1, <2>2, DiscardAllSaved
<1>3. AllSaved(Discard(MarkDirty(s, h), h))
  BY <1>2 DEF AllSaved
<1>4. ASSUME NEW contents \in Image
      PROVE  AllSaved(Discard(MarkDirty(SetData(s, h, contents), h), h))
  <2>1. /\ SetData(s, h, contents) \in Store
        /\ \A g \in Chained(SetData(s, h, contents)) \ {h} : HolderSaved(SetData(s, h, contents), g)
    BY SetDataSaved
  <2> QED
    BY <1>2, <2>1
<1> QED
  BY <1>1, <1>3, <1>4

\* The retrieval that begins an operation keeps everything saved.
LEMMA BeginSaved ==
  ASSUME IInv, AllSaved(store), NEW d \in Dbref, CanRetrieve(store, d),
         store' = Retrieve(store, d)
  PROVE  AllSaved(store')
BY Basics, RetrieveSaved

\* The begin of create keeps everything saved.
LEMMA CreateSaved ==
  ASSUME IInv, AllSaved(store), NEW parents \in ParentLists, Create(parents)
  PROVE  AllSaved(store')
<1>1. /\ dbTop <= MaxDbref /\ CanGetHolder(store, dbTop)
      /\ store' = GetHolder(store, dbTop, NewObject(parents))
      /\ parents \in Seq(Dbref)
  BY ClientAssumption DEF Create
<1>2. dbTop \in Dbref /\ dbTop \in Int
  BY <1>1, CacheAssumption DEF IInv, TypeOK, Dbref
<1>3. NewObject(parents) \in Image
  BY <1>1, BlankTypes DEF NewObject, Image
<1>4. (\A g \in Chained(store) : store.obj[g].dbref # dbTop) /\ store.disk[dbTop] = NoImage
  BY <1>2 DEF IInv, DbTopUnused, Existing
<1> QED
  BY <1>1, <1>2, <1>3, <1>4, Basics, GetHolderSaved

\* The begin of destroy keeps everything saved.
LEMMA DestroySaved ==
  ASSUME IInv, AllSaved(store), NEW d \in Dbref, Destroy(d)
  PROVE  AllSaved(store')
<1>1. CASE NotFound(d)
  BY <1>1, BeginSaved DEF Destroy, NotFound
<1>2. CASE ~NotFound(d)
  <2>1. /\ CanRetrieve(store, d) /\ Exists(store, d)
        /\ store' = MarkDead(Retrieve(store, d), Retrieved(store, d))
    BY <1>2 DEF Destroy
  <2> QED
    BY <2>1, FoundSaved, MarkDeadSaved
<1> QED
  BY <1>1, <1>2

\* Defining a method, which marks the object dirty, keeps everything saved.
LEMMA DefineMethodSaved ==
  ASSUME IInv, AllSaved(store), NEW m \in Methods, DefineMethod(m)
  PROVE  AllSaved(store')
<1> DEFINE h == Current.object
           contents == [store.obj[h].data EXCEPT !.methods = m]
           t == SetData(store, h, contents)
<1>1. frames # <<>> /\ store' = MarkDirty(t, h)
  BY DEF DefineMethod
<1>2. h \in Holder /\ contents \in Image
  BY <1>1, CurrentActive, HolderData DEF Image
<1> HIDE DEF h, contents
<1>3. t \in Store /\ \A g \in Chained(t) \ {h} : HolderSaved(t, g)
  BY <1>2, Basics, SetDataSaved
<1> HIDE DEF t
<1> QED
  BY <1>1, <1>2, <1>3, MarkDirtySaved

\* Assigning a variable changes neither children nor methods.
LEMMA AssignVarSaved ==
  ASSUME IInv, AllSaved(store), NEW v \in Vars, AssignVar(v)
  PROVE  AllSaved(store')
<1> DEFINE h == Current.object
           contents == [store.obj[h].data EXCEPT !.vars = v]
           t == SetData(store, h, contents)
<1>1. frames # <<>> /\ (store' = t \/ store' = MarkDirty(t, h))
  BY DEF AssignVar
<1>2. h \in Holder /\ contents \in Image /\ SameSaved(contents, store.obj[h].data)
  BY <1>1, CurrentActive, HolderData DEF Image, SameSaved
<1> HIDE DEF h, contents
<1>3. t \in Store /\ AllSaved(t)
  BY <1>2, Basics, SetDataSaved
<1> HIDE DEF t
<1> QED
  BY <1>1, <1>2, <1>3, MarkDirtySaved DEF AllSaved

\* What a restart finds on disk.
LEMMA RestartDisk ==
  ASSUME IInv, Restart
  PROVE  LET disk == Sync(store).disk
         IN  /\ disk \in [Dbref -> Image \cup {NoImage}]
             /\ disk[ROOT_DBREF] # NoImage /\ disk[SYSTEM_DBREF] # NoImage
             /\ store' = Boot(disk)
<1>1. ROOT_DBREF \in Dbref /\ SYSTEM_DBREF \in Dbref
  BY CacheAssumption, ClientAssumption DEF ROOT_DBREF, SYSTEM_DBREF, Dbref
<1>2. /\ Sync(store) \in Store
      /\ \A d \in Dbref : store.disk[d] # NoImage => Sync(store).disk[d] # NoImage
  BY Basics, SyncEffect
<1>3. Sync(store).disk \in [Dbref -> Image \cup {NoImage}]
  BY <1>2 DEF Store
<1> QED
  BY <1>1, <1>2, <1>3 DEF IInv, RootsSafe, Restart

\* The begin of every operation keeps everything saved.
LEMMA OperationSaved ==
  ASSUME IInv, AllSaved(store), Operation
  PROVE  AllSaved(store')
<1>1. ASSUME NEW d \in Dbref, SendMessage(d)
      PROVE  AllSaved(store')
  BY <1>1, BeginSaved DEF SendMessage, NotFound
<1>2. CASE PassMessage
  BY <1>2, BeginSaved DEF PassMessage
<1>3. CASE FrameReturn
  BY <1>3 DEF FrameReturn
<1>4. CASE \E parents \in ParentLists : Create(parents)
  BY <1>4, CreateSaved
<1>5. CASE \E d \in Dbref : Destroy(d)
  BY <1>5, DestroySaved
<1>6. ASSUME NEW d \in Dbref, NEW parents \in ParentLists, ChangeParents(d, parents)
      PROVE  AllSaved(store')
  BY <1>6, BeginSaved DEF ChangeParents, NotFound
<1>7. CASE \E m \in Methods : DefineMethod(m)
  BY <1>7, DefineMethodSaved
<1>8. CASE \E v \in Vars : AssignVar(v)
  BY <1>8, AssignVarSaved
<1>9. CASE BinaryDump
  BY <1>9, Basics, SyncSaved DEF BinaryDump
<1>10. CASE Restart
  BY <1>10, RestartDisk, BootPristine DEF Pristine
<1> QED
  BY <1>1, <1>2, <1>3, <1>4, <1>5, <1>6, <1>7, <1>8, <1>9, <1>10 DEF Operation

\* The end of the process in a panic keeps everything saved.
LEMMA DieSaved ==
  ASSUME IInv, Die
  PROVE  AllSaved(store')
<1>1. store.disk \in [Dbref -> Image \cup {NoImage}]
  BY Basics DEF Store
<1> QED
  BY <1>1, InitCachePristine DEF Die, Pristine

\* Giving back a pending reference keeps everything saved.
LEMMA DropReferenceSaved ==
  ASSUME IInv, AllSaved(store), DropReference
  PROVE  AllSaved(store')
<1>1. pending # <<>> /\ pending \in Seq(Holder) /\ store' = Discard(store, pending[Len(pending)])
  BY Basics DEF DropReference
<1>2. Len(pending) \in 1 .. Len(pending)
  BY <1>1, EmptySeq, LenProperties
<1>3. pending[Len(pending)] \in Active(store) /\ pending[Len(pending)] \in Holder
  BY <1>1, <1>2, HeldActive, ElementOfSeq
<1> QED
  BY <1>1, <1>3, Basics, StoreTypes, DiscardAllSaved DEF AllSaved

\* A search that visits an ancestor keeps everything saved.
LEMMA VisitAncestorSaved ==
  ASSUME IInv, AllSaved(store), NEW x \in Dbref, NEW mark \in BOOLEAN, NEW hit \in BOOLEAN,
         VisitAncestor(x, mark, hit)
  PROVE  AllSaved(store')
<1> DEFINE h == Retrieved(store, x)
           t == Retrieve(store, x)
           s1 == IF mark THEN MarkDirty(t, h) ELSE t
<1>1. CASE Die
  BY <1>1, DieSaved
<1>2. CASE ~Die
  <2>1. /\ CanRetrieve(store, x) /\ Exists(store, x)
        /\ \/ store' = Discard(s1, h)
           \/ store' = IF call.found = NULL THEN s1 ELSE Discard(s1, call.found)
    BY <1>2 DEF VisitAncestor
  <2>2. /\ t \in Store /\ h \in Holder /\ AllSaved(t) /\ HolderSaved(t, h)
        /\ \A g \in Active(store) : HolderSaved(t, g)
    BY <2>1, FoundSaved
  <2>3. Active(store) \subseteq Holder
    BY Basics, StoreTypes
  <2>4. call.found # NULL => call.found \in Active(store)
    BY HeldActive, Basics DEF Call
  <2> HIDE DEF h, t
  <2>5. s1 \in Store /\ AllSaved(s1) /\ HolderSaved(s1, h)
        /\ \A g \in Active(store) : HolderSaved(s1, g)
    <3>1. /\ MarkDirty(t, h) \in Store
          /\ AllSaved(MarkDirty(t, h)) /\ HolderSaved(MarkDirty(t, h), h)
      BY <2>2, MarkDirtySaved DEF AllSaved
    <3>2. \A g \in Active(store) \ {h} : HolderSaved(MarkDirty(t, h), g)
      BY <2>2, <2>3 DEF MarkDirty, HolderSaved, Store
    <3> QED
      BY <2>2, <3>1, <3>2
  <2> HIDE DEF s1
  <2> QED
    BY <2>1, <2>2, <2>3, <2>4, <2>5, DiscardAllSaved
<1> QED
  BY <1>1, <1>2

\* The end of a method search keeps everything saved.
LEMMA MethodFoundSaved ==
  ASSUME IInv, AllSaved(store), MethodFound
  PROVE  AllSaved(store')
<1> DEFINE u1 == Grab(store, call.target)
           u2 == Grab(u1, call.found)
           u3 == IF call.who = NULL THEN u2 ELSE Discard(u2, call.who)
<1>1. /\ call.pc = "method" /\ call.found # NULL /\ store' = Discard(u3, call.found)
  BY DEF MethodFound, Running
<1>2. /\ call.target \in Holder /\ call.found \in Holder
      /\ call.who \in Holder \/ call.who = NULL
      /\ call.target = call.who \/ (frames # <<>> /\ call.target = Current.object)
  BY <1>1, Basics DEF CallShape, Call
<1>3. /\ call.target \in Active(store) /\ call.found \in Active(store)
      /\ call.who # NULL => call.who \in Active(store)
  BY <1>2, HeldActive, CurrentActive
<1>4. /\ u1 \in Store /\ ChainsOK(u1) /\ Active(u1) = Active(store)
  BY <1>3, Basics, GrabEffect DEF FoundBy, Effect, Sound
<1>5. /\ \A g \in Holder : HolderSaved(store, g) => HolderSaved(u1, g)
      /\ Chained(u1) = Chained(store)
  BY <1>2, Basics, GrabSaved
<1> HIDE DEF u1
<1>6. u2 \in Store /\ ChainsOK(u2) /\ Active(u2) = Active(store)
  BY <1>3, <1>4, GrabEffect DEF FoundBy, Effect, Sound
<1>7. /\ \A g \in Holder : HolderSaved(u1, g) => HolderSaved(u2, g)
      /\ Chained(u2) = Chained(u1)
  BY <1>2, <1>4, GrabSaved
<1> HIDE DEF u2
<1>8. AllSaved(u2) /\ HolderSaved(u2, call.found) /\ (call.who # NULL => HolderSaved(u2, call.who))
  <2>1. Active(store) \subseteq Chained(store) /\ Chained(store) \subseteq Holder
    BY Basics, StoreTypes
  <2> QED
    BY <2>1, <1>3, <1>5, <1>7 DEF AllSaved
<1>9. u3 \in Store /\ AllSaved(u3) /\ HolderSaved(u3, call.found)
  <2>1. CASE call.who = NULL
    BY <2>1, <1>6, <1>8
  <2>2. CASE call.who # NULL
    <3>1. call.who \in Active(u2) /\ call.who \in Holder
      BY <1>2, <1>3, <1>6, <2>2
    <3>2. u3 = Discard(u2, call.who)
      BY <2>2
    <3>3. Discard(u2, call.who) \in Store
      BY <1>6, <3>1, DiscardEffect DEF Effect, Sound
    <3>4. AllSaved(Discard(u2, call.who)) /\ HolderSaved(Discard(u2, call.who), call.found)
      BY <1>2, <1>6, <1>8, <2>2, <3>1, DiscardAllSaved, DiscardSaved
    <3> QED
      BY <3>2, <3>3, <3>4
  <2> QED
    BY <2>1, <2>2
<1> HIDE DEF u3
<1> QED
  BY <1>1, <1>2, <1>9, DiscardAllSaved

\* A step of an ancestor search keeps everything saved.
LEMMA SearchAncestorSaved ==
  ASSUME IInv, AllSaved(store), SearchAncestor
  PROVE  AllSaved(store')
<1> DEFINE x == Head(call.stack)
           h == Retrieved(store, x)
           t == Retrieve(store, x)
<1>1. call.stack # <<>> /\ CanRetrieve(store, x)
  BY DEF SearchAncestor
<1>2. CASE Die
  BY <1>2, DieSaved
<1>3. CASE ~Die
  <2>1. x \in Dbref
    BY <1>1, CallLists, HeadTail
  <2>2. /\ Exists(store, x)
        /\ store' = Discard(t, h) \/ store' = Discard(MarkDirty(t, h), h)
    BY <1>3 DEF SearchAncestor
  <2> HIDE DEF x
  <2>3. t \in Store /\ h \in Holder /\ AllSaved(t) /\ HolderSaved(t, h)
    BY <1>1, <2>1, <2>2, FoundSaved
  <2> HIDE DEF h, t
  <2> QED
    BY <2>2, <2>3, VisitSaved
<1> QED
  BY <1>2, <1>3

\* The change of one parent's children keeps everything saved.
LEMMA TellParentSaved ==
  ASSUME IInv, AllSaved(store), TellParent
  PROVE  AllSaved(store')
<1> DEFINE p  == Head(call.todo)
           me == store.obj[Subject].dbref
           h  == Retrieved(store, p)
           t == Retrieve(store, p)
           data == t.obj[h].data
           contents == [data EXCEPT !.children = ChildrenAfter(@, me)]
<1>1. /\ call.pc \in {"leave", "adopt"} /\ call.todo # <<>> /\ CanRetrieve(store, p)
  BY DEF TellParent, Running
<1>2. CASE Die
  BY <1>2, DieSaved
<1>3. CASE ~Die
  <2>1. /\ Exists(store, p)
        /\ call.pc = "adopt" \/ me \in Range(data.children)
        /\ store' = Discard(MarkDirty(SetData(t, h, contents), h), h)
    BY <1>3 DEF TellParent
  <2>2. p \in Dbref /\ me \in Dbref
    BY <1>1, CallLists, HeadTail, SubjectDbref
  <2> HIDE DEF p, me
  <2>3. data \in Image /\ t \in Store /\ h \in Holder /\ AllSaved(t) /\ HolderSaved(t, h)
    BY <1>1, <2>1, <2>2, Found, FoundSaved
  <2> HIDE DEF h, t, data
  <2>4. contents \in Image
    <3>1. data.children \in Seq(Dbref)
      BY <2>3 DEF Image
    <3>2. Append(data.children, me) \in Seq(Dbref)
      BY <2>2, <3>1
    <3>3. me \in Range(data.children) => ListDelete(data.children, me) \in Seq(Dbref)
      BY <3>1, ListDeleteType
    <3>4. ChildrenAfter(data.children, me) \in Seq(Dbref)
      BY <1>1, <2>1, <3>2, <3>3 DEF ChildrenAfter
    <3> QED
      BY <2>3, <3>4 DEF Image
  <2> HIDE DEF contents
  <2> QED
    BY <2>1, <2>3, <2>4, VisitSaved
<1> QED
  BY <1>2, <1>3

\* The new parents list of a chparents keeps everything saved.
LEMMA SetParentsSaved ==
  ASSUME IInv, AllSaved(store), SetParents
  PROVE  AllSaved(store')
<1> DEFINE contents == [store.obj[call.who].data EXCEPT !.parents = call.wanted]
<1>1. /\ call.pc = "leave" /\ call.victim = NULL
      /\ store' = SetData(store, call.who, contents)
  BY DEF SetParents, Running
<1>2. call.who \in Holder
  BY <1>1, Basics DEF CallShape, Call
<1>3. contents \in Image /\ SameSaved(contents, store.obj[call.who].data)
  BY <1>2, HolderData, CallLists DEF Image, SameSaved
<1> HIDE DEF contents
<1> QED
  BY <1>1, <1>2, <1>3, Basics, SetDataSaved

\* The change of one child's parents keeps everything saved.
LEMMA TellKidSaved ==
  ASSUME IInv, AllSaved(store), TellKid
  PROVE  AllSaved(store')
<1> DEFINE d  == Head(call.kids)
           me == store.obj[call.victim].dbref
           h  == Retrieved(store, d)
           t == Retrieve(store, d)
           data == t.obj[h].data
           left == ListDelete(data.parents, me)
           inherited == store.obj[call.victim].data.parents
           c1 == [data EXCEPT !.parents = left]
           c2 == [data EXCEPT !.parents = inherited]
<1>1. call.pc = "kids" /\ call.kids # <<>> /\ CanRetrieve(store, d)
  BY DEF TellKid, Running
<1>2. CASE Die
  BY <1>2, DieSaved
<1>3. CASE ~Die
  <2>1. /\ Exists(store, d) /\ me \in Range(data.parents)
        /\ \/ store' = Discard(MarkDirty(SetData(t, h, c1), h), h)
           \/ store' = SetData(t, h, c2)
    BY <1>3 DEF TellKid
  <2>2. d \in Dbref
    BY <1>1, CallLists, HeadTail
  <2>3. call.victim \in Holder
    BY <1>1, Basics DEF CallShape
  <2>4. inherited \in Seq(Dbref)
    BY <2>3, HolderData
  <2> HIDE DEF d, me, inherited
  <2>5. data \in Image /\ t \in Store /\ h \in Holder /\ AllSaved(t) /\ HolderSaved(t, h)
    BY <1>1, <2>1, <2>2, Found, FoundSaved
  <2>6. left \in Seq(Dbref)
    BY <2>1, <2>5, ListDeleteType DEF Image
  <2> HIDE DEF left
  <2>7. c1 \in Image /\ c2 \in Image /\ SameSaved(c2, t.obj[h].data)
    BY <2>4, <2>5, <2>6 DEF Image, SameSaved
  <2> HIDE DEF c1, c2, h, t
  <2> QED
    BY <2>1, <2>5, <2>7, VisitSaved, SetDataSaved
<1> QED
  BY <1>2, <1>3

\* A child that is adopted keeps everything saved.
LEMMA AdoptedSaved ==
  ASSUME IInv, AllSaved(store), Adopted
  PROVE  AllSaved(store')
<1>1. call.pc = "adopt" /\ (store' = store \/ store' = Discard(MarkDirty(store, call.who), call.who))
  BY DEF Adopted, Running
<1>2. call.who \in Holder /\ call.who \in Active(store)
  BY <1>1, Basics, HeldActive DEF CallShape
<1>3. HolderSaved(store, call.who)
  BY <1>2, Basics, StoreTypes DEF AllSaved
<1>4. AllSaved(Discard(MarkDirty(store, call.who), call.who))
  BY <1>2, <1>3, Basics, VisitSaved
<1> QED
  BY <1>1, <1>4

\* The end of object_destroy() keeps everything saved.
LEMMA BuriedSaved ==
  ASSUME IInv, AllSaved(store), Buried
  PROVE  AllSaved(store')
<1>1. call.pc = "kids" /\ store' = Bury(store, call.victim)
  BY DEF Buried, Running
<1>2. call.victim \in Holder
  BY <1>1, Basics DEF CallShape
<1>3. Gone(store, call.victim)
  BY <1>2, ClientAssumption DEF IInv, VictimGone
<1> QED
  BY <1>1, <1>2, <1>3, Basics, BurySaved

\* Every step of an operation in progress keeps everything saved.
LEMMA ContinueSaved ==
  ASSUME IInv, AllSaved(store), Continue
  PROVE  AllSaved(store')
<1>1. CASE DropReference
  BY <1>1, DropReferenceSaved
<1>2. CASE \E x \in Dbref, mark, hit \in BOOLEAN : VisitAncestor(x, mark, hit)
  BY <1>2, VisitAncestorSaved
<1>3. CASE MethodFound
  BY <1>3, MethodFoundSaved
<1>4. CASE SearchEnds \/ CheckParent \/ ParentsChecked \/ AncestorAbsent \/ LeftParents
  BY <1>4 DEF SearchEnds, CheckParent, ParentsChecked, AncestorAbsent, LeftParents
<1>5. CASE SearchAncestor
  BY <1>5, SearchAncestorSaved
<1>6. CASE TellParent
  BY <1>6, TellParentSaved
<1>7. CASE SetParents
  BY <1>7, SetParentsSaved
<1>8. CASE TellKid
  BY <1>8, TellKidSaved
<1>9. CASE Adopted
  BY <1>9, AdoptedSaved
<1>10. CASE Buried
  BY <1>10, BuriedSaved
<1> QED
  BY <1>1, <1>2, <1>3, <1>4, <1>5, <1>6, <1>7, <1>8, <1>9, <1>10 DEF Continue

-----------------------------------------------------------------------------
(***************************************************************************)
(* Theorems.                                                               *)
(***************************************************************************)

\* Of an object that was ever saved, cache.c can reuse a clean holder without a
\* write, wherever an operation or one of its loops stands: the disk has its
\* current children and methods, and goes on having the object until it is
\* destroyed.  A new object that was never saved is clean without being on disk.
THEOREM SavedObjectsCurrent == Spec => []CleanIsSaved /\ [][DiskKept]_vars
<1>1. Init => AllSaved(store)
  BY FirstDiskType, BootPristine DEF Init, Pristine
<1>2. IInv /\ AllSaved(store) /\ [Next]_vars => AllSaved(store')
  <2> SUFFICES ASSUME IInv, AllSaved(store), [Next]_vars
               PROVE  AllSaved(store')
    OBVIOUS
  <2>1. CASE Operation
    BY <2>1, OperationSaved
  <2>2. CASE Continue
    BY <2>2, ContinueSaved
  <2>3. CASE Halted \/ UNCHANGED vars
    BY <2>3 DEF Halted, vars
  <2> QED
    BY <2>1, <2>2, <2>3 DEF Next
<1>3. AllSaved(store)' <=> AllSaved(store')
  BY DEF AllSaved, HolderSaved, Chained, Active, Inactive
<1>4. AllSaved(store) => CleanIsSaved
  BY CleanIsAllSaved
<1>5. IInv /\ [Next]_vars => [DiskKept]_vars
  BY NextGood DEF Good
<1> QED
  BY <1>1, <1>2, <1>3, <1>4, <1>5, Invariance, PTL DEF Spec

\* For every object that is on disk after cache_sync(), the disk has the
\* children and methods that the server used.
LEMMA SyncKeeps ==
  ASSUME NEW s \in Store, ChainsOK(s), AllSaved(s), NEW d \in Dbref, Sync(s).disk[d] # NoImage
  PROVE  SameSaved(Sync(s).disk[d], ObjectData(s, d))
<1>1. CASE CacheHits(s, d) # {}
  <2> DEFINE g == CHOOSE h \in CacheHits(s, d) : TRUE
  <2>1. g \in CacheHits(s, d) /\ ObjectData(s, d) = s.obj[g].data
    BY <1>1 DEF ObjectData
  <2> HIDE DEF g
  <2>2. g \in Chained(s) /\ s.obj[g].dbref = d /\ d # EMPTY /\ s.obj[g].dirty \in {0, 1}
    <3>1. g \in Chained(s) /\ s.obj[g].dbref = d
      BY <2>1, HashType, StoreTypes DEF CacheHits, ActiveHits, InactiveHits, Dbref
    <3> QED
      BY <3>1, StoreTypes, CacheAssumption DEF Record, Dbref, EMPTY
  <2>3. Sync(s).disk[d] = IF s.obj[g].dirty = 1 THEN s.obj[g].data ELSE s.disk[d]
    BY <2>2, SyncDisk
  <2>4. HolderSaved(s, g)
    BY <2>2 DEF AllSaved
  <2> QED
    BY <2>1, <2>2, <2>3, <2>4 DEF HolderSaved, SameSaved
<1>2. CASE CacheHits(s, d) = {}
  <2>1. ObjectData(s, d) = s.disk[d] /\ \A h \in Chained(s) : s.obj[h].dbref # d
    BY <1>2, NoHits DEF ObjectData, CacheHits
  <2>2. Sync(s).disk[d] = s.disk[d]
    BY <2>1, SyncDisk
  <2> QED
    BY <2>1, <2>2 DEF SameSaved
<1> QED
  BY <1>1, <1>2

\* What a fresh process uses is what it found on disk.
LEMMA BootKeeps ==
  ASSUME NEW disk, NEW s \in Store, ChainsOK(s), Pristine(s, disk), NEW d \in Dbref,
         disk[d] # NoImage
  PROVE  SameSaved(disk[d], ObjectData(s, d))
<1>1. CASE CacheHits(s, d) # {}
  <2> DEFINE g == CHOOSE h \in CacheHits(s, d) : TRUE
  <2>1. g \in CacheHits(s, d) /\ ObjectData(s, d) = s.obj[g].data
    BY <1>1 DEF ObjectData
  <2> HIDE DEF g
  <2>2. g \in Chained(s) /\ s.obj[g].dbref = d /\ d # EMPTY /\ g \in Holder
    <3>1. g \in Chained(s) /\ s.obj[g].dbref = d
      BY <2>1, HashType, StoreTypes DEF CacheHits, ActiveHits, InactiveHits, Dbref
    <3> QED
      BY <3>1, StoreTypes, CacheAssumption DEF Dbref, EMPTY
  <2> QED
    BY <2>1, <2>2 DEF Pristine, AllSaved, HolderSaved
<1>2. CASE CacheHits(s, d) = {}
  BY <1>2 DEF ObjectData, Pristine, SameSaved
<1> QED
  BY <1>1, <1>2

\* An orderly restart keeps the methods and the children of every object that
\* the new process has.
THEOREM RestartKeeps == Spec => RestartKeepsMethods
<1> DEFINE Kept ==
      Restart => \A d \in Dbref : Exists(store', d) =>
        /\ ObjectData(store', d).methods = ObjectData(store, d).methods
        /\ ObjectData(store', d).children = ObjectData(store, d).children
<1>1. ASSUME IInv, AllSaved(store)
      PROVE  Kept
  <2> SUFFICES ASSUME Restart, NEW d \in Dbref, Exists(store', d)
               PROVE  SameSaved(ObjectData(store', d), ObjectData(store, d))
    BY DEF SameSaved
  <2> DEFINE disk == Sync(store).disk
  <2>1. /\ disk \in [Dbref -> Image \cup {NoImage}]
        /\ disk[ROOT_DBREF] # NoImage /\ disk[SYSTEM_DBREF] # NoImage
        /\ store' = Boot(disk)
    BY <1>1, RestartDisk
  <2> HIDE DEF disk
  <2>2. Booted(disk, store') /\ Pristine(store', disk)
    BY <2>1, BootEffect, BootPristine
  <2>3. d \in Existing(store')
    BY HashType, StoreTypes, <2>2
       DEF Exists, Check, Existing, ActiveHits, InactiveHits, Booted, Dbref
  <2>4. disk[d] # NoImage
    BY <2>2, <2>3 DEF Booted
  <2>5. SameSaved(disk[d], ObjectData(store', d))
    BY <2>2, <2>4, BootKeeps DEF Booted
  <2>6. SameSaved(disk[d], ObjectData(store, d))
    BY <1>1, <2>4, Basics, SyncKeeps DEF disk
  <2> QED
    BY <2>5, <2>6 DEF SameSaved
<1>2. IInv /\ CleanIsSaved => [Kept]_vars
  BY <1>1, CleanIsAllSaved
<1>3. [][Kept]_vars => RestartKeepsMethods
  BY DEF RestartKeepsMethods
<1> HIDE DEF Kept
<1> QED
  BY <1>2, <1>3, Invariance, SavedObjectsCurrent, PTL

=============================================================================

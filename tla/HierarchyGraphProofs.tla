------------------------ MODULE HierarchyGraphProofs ------------------------
(***************************************************************************)
(* The hierarchy of ObjectCache as a graph: the parents and children lists *)
(* of all objects by dbref, wherever the objects are, and what each turn   *)
(* of the loops of create(), chparents() and destroy() does to them.       *)
(* Nothing here speaks of the cache.                                       *)
(***************************************************************************)
EXTENDS ObjectCacheProofs

-----------------------------------------------------------------------------
(***************************************************************************)
(* How often a list names an element.                                      *)
(***************************************************************************)
LEMMA CountConcat ==
  ASSUME NEW S, NEW a \in Seq(S), NEW b \in Seq(S), NEW x
  PROVE  Count(a \o b, x) = Count(a, x) + Count(b, x)
<1> DEFINE n == Len(a)
           m == Len(b)
           A == {i \in 1 .. n : a[i] = x}
           B == {j \in 1 .. m : b[j] = x}
           T == {i \in n + 1 .. n + m : b[i - n] = x}
           I == {i \in 1 .. n + m : (a \o b)[i] = x}
           f == [j \in B |-> n + j]
<1>1. n \in Nat /\ m \in Nat
  BY LenProperties
<1>2. IsFiniteSet(A) /\ IsFiniteSet(B) /\ IsFiniteSet(T)
  <2>1. IsFiniteSet(1 .. n) /\ IsFiniteSet(1 .. m) /\ IsFiniteSet(n + 1 .. n + m)
    BY <1>1, FS_Interval
  <2> QED
    BY <2>1, FS_Subset
<1>3. Cardinality(T) = Cardinality(B)
  <2>1. f \in [B -> T] /\ IsInjective(f)
    BY <1>1 DEF IsInjective
  <2>2. \A t \in T : t - n \in B /\ f[t - n] = t
    BY <1>1
  <2> HIDE DEF f, B, T
  <2>3. f \in Injection(B, T) /\ f \in Surjection(B, T)
    BY <2>1, <2>2 DEF Injection, Surjection
  <2> QED
    BY <1>2, <2>3, FS_Surjection
<1>4. I = A \cup T /\ A \cap T = {}
  <2>1. \A i \in 1 .. n + m : (a \o b)[i] = IF i <= n THEN a[i] ELSE b[i - n]
    BY ConcatProperties
  <2> QED
    BY <1>1, <2>1
<1>5. Cardinality(I) = Cardinality(A) + Cardinality(B)
  <2> HIDE DEF A, B, T, I
  <2>1. Cardinality(A \cup T) = Cardinality(A) + Cardinality(T) - Cardinality(A \cap T)
    BY <1>2, FS_Union
  <2>2. Cardinality({}) = 0 /\ Cardinality(A) \in Nat /\ Cardinality(B) \in Nat
    BY <1>2, FS_EmptySet, FS_CardinalityType
  <2>3. Cardinality(I) = Cardinality(A) + Cardinality(T) - Cardinality({})
    BY <1>4, <2>1
  <2> QED
    BY <1>3, <2>2, <2>3
<1>6. Len(a \o b) = n + m
  BY ConcatProperties
<1> QED
  BY <1>5, <1>6 DEF Count

\* A list names an element if it has it.
LEMMA CountMember ==
  ASSUME NEW S, NEW list \in Seq(S), NEW x
  PROVE  /\ Count(list, x) \in Nat
         /\ x \in Range(list) <=> Count(list, x) # 0
<1>1. DOMAIN list = 1 .. Len(list)
  BY LenProperties
<1>2. x \in Range(list) => Count(list, x) # 0
  <2> SUFFICES ASSUME NEW i \in DOMAIN list, list[i] = x
               PROVE  Count(list, x) # 0
    BY DEF Range
  <2> QED
    BY <1>1, CountElement, CountType
<1>3. x \notin Range(list) => Count(list, x) = 0
  <2> SUFFICES ASSUME x \notin Range(list)
               PROVE  Count(list, x) = 0
    OBVIOUS
  <2>1. {i \in 1 .. Len(list) : list[i] = x} = {}
    BY <1>1 DEF Range
  <2> QED
    BY <2>1, FS_EmptySet DEF Count
<1> QED
  BY <1>2, <1>3, CountType

\* The first element counts once, and so does the last.
LEMMA CountTail ==
  ASSUME NEW S, NEW list \in Seq(S), list # <<>>
  PROVE  /\ Head(list) \in S /\ Tail(list) \in Seq(S)
         /\ Range(list) = {Head(list)} \cup Range(Tail(list))
         /\ \A x : Count(list, x) = (IF Head(list) = x THEN 1 ELSE 0) + Count(Tail(list), x)
<1>1. Head(list) \in S /\ Tail(list) \in Seq(S) /\ list = <<Head(list)>> \o Tail(list)
  OBVIOUS
<1> DEFINE h == Head(list)
           t == Tail(list)
<1>2. <<h>> \in Seq(S)
  BY <1>1
<1> HIDE DEF h, t
<1>3. \A x : Count(list, x) = (IF h = x THEN 1 ELSE 0) + Count(t, x)
  <2> TAKE x
  <2>1. Count(<<h>> \o t, x) = Count(<<h>>, x) + Count(t, x)
    BY <1>1, <1>2, CountConcat DEF h, t
  <2> QED
    BY <1>1, <2>1, CountOne DEF h, t
<1>4. \A x : x \in Range(list) <=> x \in {h} \cup Range(t)
  <2> TAKE x
  <2>1. Count(t, x) \in Nat /\ (x \in Range(t) <=> Count(t, x) # 0)
    BY <1>1, CountMember DEF h, t
  <2>2. x \in Range(list) <=> Count(list, x) # 0
    BY CountMember
  <2> QED
    BY <1>3, <2>1, <2>2
<1> QED
  BY <1>1, <1>3, <1>4 DEF h, t

\* What an element added to a list does to its members and their counts.
LEMMA CountAppend ==
  ASSUME NEW S, NEW list \in Seq(S), NEW e \in S
  PROVE  /\ Append(list, e) \in Seq(S)
         /\ Range(Append(list, e)) = Range(list) \cup {e}
         /\ \A x : Count(Append(list, e), x) = Count(list, x) + (IF e = x THEN 1 ELSE 0)
<1>1. Append(list, e) \in Seq(S) /\ Append(list, e) = list \o <<e>> /\ <<e>> \in Seq(S)
  OBVIOUS
<1>2. \A x : Count(Append(list, e), x) = Count(list, x) + (IF e = x THEN 1 ELSE 0)
  <2> TAKE x
  <2>1. Count(list \o <<e>>, x) = Count(list, x) + Count(<<e>>, x)
    BY <1>1, CountConcat
  <2> QED
    BY <1>1, <2>1, CountOne
<1>3. \A x : x \in Range(Append(list, e)) <=> x \in Range(list) \cup {e}
  <2> TAKE x
  <2>1. Count(list, x) \in Nat /\ (x \in Range(list) <=> Count(list, x) # 0)
    BY CountMember
  <2>2. x \in Range(Append(list, e)) <=> Count(Append(list, e), x) # 0
    BY <1>1, CountMember
  <2> QED
    BY <1>2, <2>1, <2>2
<1> QED
  BY <1>1, <1>2, <1>3

\* list_delete_element() takes one occurrence away.
LEMMA CountDelete ==
  ASSUME NEW S, NEW list \in Seq(S), NEW e \in Range(list)
  PROVE  /\ ListDelete(list, e) \in Seq(S)
         /\ Range(ListDelete(list, e)) \subseteq Range(list)
         /\ \A x : Count(list, x) = Count(ListDelete(list, e), x) + (IF e = x THEN 1 ELSE 0)
<1> DEFINE n == Len(list)
           hits == {i \in 1 .. n : list[i] = e}
           k == FirstIndex(list, e)
           front == SubSeq(list, 1, k - 1)
           back == SubSeq(list, k + 1, n)
<1>1. n \in Nat /\ DOMAIN list = 1 .. n
  BY LenProperties
<1>2. k \in 1 .. n /\ list[k] = e
  <2>1. hits \in SUBSET Nat /\ hits # {}
    BY <1>1 DEF Range
  <2>2. PICK i \in hits : \A j \in hits : i <= j
    BY <2>1, LeastNumber
  <2>3. i \in 1 .. n /\ list[i] = e /\ \A j \in 1 .. i - 1 : list[j] # e
    BY <1>1, <2>2
  <2> QED
    BY <2>3 DEF FirstIndex
<1> HIDE DEF k
<1>3. list = (front \o <<e>>) \o back /\ ListDelete(list, e) = front \o back
  <2>1. front \o SubSeq(list, k, n) = list
    <3>1. SubSeq(list, 1, k - 1) \o SubSeq(list, k - 1 + 1, n) = SubSeq(list, 1, n)
      <4>1. 1 \in 1 .. n + 1 /\ k - 1 \in 1 - 1 .. n /\ n \in k - 1 .. n
        BY <1>1, <1>2
      <4> QED
        BY <4>1, ConcatAdjacentSubSeq
    <3>2. k - 1 + 1 = k
      BY <1>1, <1>2
    <3> QED
      BY <3>1, <3>2, SubSeqFull
  <2>2. SubSeq(list, k, n) = <<e>> \o back
    BY <1>1, <1>2, SubSeqRecursiveFirst
  <2>3. front \in Seq(S) /\ back \in Seq(S) /\ <<e>> \in Seq(S)
    <3>1. \A i \in 1 .. k - 1 : list[i] \in S
      BY <1>1, <1>2, ElementOfSeq
    <3>2. \A i \in k + 1 .. n : list[i] \in S
      BY <1>1, <1>2, ElementOfSeq
    <3>3. e \in S /\ k - 1 \in Int /\ k + 1 \in Int /\ n \in Int
      BY <1>1, <1>2, ElementOfSeq
    <3> QED
      BY <3>1, <3>2, <3>3, SubSeqProperties
  <2>4. front \o (<<e>> \o back) = (front \o <<e>>) \o back
    <3> HIDE DEF front, back
    <3> QED
      BY <2>3, ConcatAssociative
  <2> QED
    BY <2>1, <2>2, <2>4 DEF ListDelete, RemoveAt, k
<1>4. front \in Seq(S) /\ back \in Seq(S) /\ e \in S
  <2>1. \A i \in 1 .. k - 1 : list[i] \in S
    BY <1>1, <1>2, ElementOfSeq
  <2>2. \A i \in k + 1 .. n : list[i] \in S
    BY <1>1, <1>2, ElementOfSeq
  <2>3. e \in S /\ k - 1 \in Int /\ k + 1 \in Int /\ n \in Int
    BY <1>1, <1>2, ElementOfSeq
  <2> QED
    BY <2>1, <2>2, <2>3, SubSeqProperties
<1> HIDE DEF front, back
<1>5. <<e>> \in Seq(S) /\ front \o <<e>> \in Seq(S) /\ front \o back \in Seq(S)
  BY <1>4, ConcatProperties
<1>6. \A x : Count(list, x) = Count(ListDelete(list, e), x) + (IF e = x THEN 1 ELSE 0)
  <2> TAKE x
  <2>1. Count(list, x) = (Count(front, x) + Count(<<e>>, x)) + Count(back, x)
    <3>1. Count((front \o <<e>>) \o back, x) = Count(front \o <<e>>, x) + Count(back, x)
      BY <1>4, <1>5, CountConcat
    <3>2. Count(front \o <<e>>, x) = Count(front, x) + Count(<<e>>, x)
      BY <1>4, <1>5, CountConcat
    <3> QED
      BY <1>3, <3>1, <3>2
  <2>2. Count(ListDelete(list, e), x) = Count(front, x) + Count(back, x)
    <3>1. Count(front \o back, x) = Count(front, x) + Count(back, x)
      BY <1>4, CountConcat
    <3>2. ListDelete(list, e) = front \o back
      BY <1>3
    <3> QED
      BY ONLY <3>1, <3>2
  <2>3. Count(front, x) \in Nat /\ Count(back, x) \in Nat
    BY <1>4, CountType
  <2> QED
    BY <2>1, <2>2, <2>3, CountOne
<1>7. \A x : x \in Range(ListDelete(list, e)) => x \in Range(list)
  <2> TAKE x
  <2>1. /\ Count(ListDelete(list, e), x) \in Nat
        /\ x \in Range(ListDelete(list, e)) <=> Count(ListDelete(list, e), x) # 0
    BY <1>3, <1>5, CountMember
  <2>2. x \in Range(list) <=> Count(list, x) # 0
    BY CountMember
  <2> QED
    BY <1>6, <2>1, <2>2
<1> QED
  BY <1>3, <1>5, <1>6, <1>7

-----------------------------------------------------------------------------
(***************************************************************************)
(* The hierarchy as a graph.  A world gives the two lists of every object, *)
(* the one being destroyed included.  A set of objects is closed if it has *)
(* the parents of its members; p is apart from d if a closed set has p but *)
(* not d, that is if d is neither p nor above it.  Closed sets say what    *)
(* paths would say, without induction on their length.                     *)
(***************************************************************************)
Kinship == [parents : Seq(Dbref), children : Seq(Dbref)]

IsWorld(w) == DOMAIN w \in SUBSET Dbref /\ w \in [DOMAIN w -> Kinship]

Up(w, d) == IF d \in DOMAIN w THEN Range(w[d].parents) ELSE {}

Closed(w, A) == \A x \in A : Up(w, x) \subseteq A

Apart(w, p, d) == \E A \in SUBSET Dbref : Closed(w, A) /\ p \in A /\ d \notin A

Within(w) ==
  \A d \in DOMAIN w : Range(w[d].parents) \cup Range(w[d].children) \subseteq DOMAIN w

Acyclic(w) == \A d \in DOMAIN w : \A p \in Up(w, d) : Apart(w, p, d)

Rooted(w) ==
  \A A \in SUBSET Dbref : Closed(w, A) /\ A \cap DOMAIN w # {} => ROOT_DBREF \in A

\* A world with another list in it.
WithParents(w, d, list) == [w EXCEPT ![d].parents = list]
WithChildren(w, d, list) == [w EXCEPT ![d].children = list]
WithObject(w, n, list) ==
  [d \in DOMAIN w \cup {n} |-> IF d = n THEN [parents |-> list, children |-> <<>>] ELSE w[d]]
WithoutObject(w, v) == [d \in DOMAIN w \ {v} |-> w[d]]

\* The objects that d is neither equal to nor above: the greatest closed set
\* without d.
Without(w, d) == UNION {A \in SUBSET Dbref : Closed(w, A) /\ d \notin A}

\* Closed sets are closed under union, ...
LEMMA WithoutClosed ==
  ASSUME NEW w, NEW d
  PROVE  /\ Without(w, d) \in SUBSET Dbref
         /\ Closed(w, Without(w, d)) /\ d \notin Without(w, d)
         /\ \A p : Apart(w, p, d) <=> p \in Without(w, d)
<1>1. Without(w, d) \in SUBSET Dbref /\ d \notin Without(w, d)
  BY DEF Without
<1>2. Closed(w, Without(w, d))
  <2> SUFFICES ASSUME NEW A \in SUBSET Dbref, Closed(w, A), d \notin A, NEW x \in A
               PROVE  Up(w, x) \subseteq Without(w, d)
    BY DEF Without, Closed
  <2> QED
    BY DEF Without, Closed
<1>3. \A p : Apart(w, p, d) <=> p \in Without(w, d)
  BY DEF Without, Apart
<1> QED
  BY <1>1, <1>2, <1>3

\* ... and under intersection.
LEMMA ClosedMeet ==
  ASSUME NEW w, NEW A, NEW B, Closed(w, A), Closed(w, B)
  PROVE  Closed(w, A \cap B)
BY DEF Closed

\* The dbrefs are finitely many.
LEMMA DbrefFinite == IsFiniteSet(Dbref) /\ Cardinality(Dbref) = MaxDbref + 1
<1>1. MaxDbref \in Nat
  BY CacheAssumption
<1>2. IsFiniteSet(0 .. MaxDbref) /\ Cardinality(0 .. MaxDbref) = MaxDbref + 1
  <2>1. 0 \in Int /\ MaxDbref \in Int /\ ~ (0 > MaxDbref) /\ MaxDbref - 0 + 1 = MaxDbref + 1
    BY ONLY <1>1
  <2> QED
    BY ONLY <2>1, FS_Interval
<1> QED
  BY ONLY <1>2 DEF Dbref

\* The types of a world, ...
LEMMA WorldTypes ==
  ASSUME NEW w, IsWorld(w)
  PROVE  \A d \in DOMAIN w :
           /\ d \in Dbref /\ w[d] \in Kinship
           /\ w[d].parents \in Seq(Dbref) /\ w[d].children \in Seq(Dbref)
           /\ Range(w[d].parents) \subseteq Dbref /\ Range(w[d].children) \subseteq Dbref
<1> SUFFICES ASSUME NEW d \in DOMAIN w
             PROVE  /\ d \in Dbref /\ w[d] \in Kinship
                    /\ w[d].parents \in Seq(Dbref) /\ w[d].children \in Seq(Dbref)
                    /\ Range(w[d].parents) \subseteq Dbref /\ Range(w[d].children) \subseteq Dbref
  OBVIOUS
<1>1. /\ d \in Dbref /\ w[d] \in Kinship
      /\ w[d].parents \in Seq(Dbref) /\ w[d].children \in Seq(Dbref)
  BY DEF IsWorld, Kinship
<1>2. \A list \in Seq(Dbref) : Range(list) \subseteq Dbref
  BY LenProperties, ElementOfSeq DEF Range
<1> QED
  BY <1>1, <1>2

\* An object gets new parents, none of which is the object or below it.
LEMMA Reparented ==
  ASSUME NEW w, IsWorld(w), Acyclic(w), NEW me \in DOMAIN w, NEW list \in Seq(Dbref),
         \A x \in Range(list) : x \in DOMAIN w /\ Apart(w, x, me),
         NEW t, t = WithParents(w, me, list)
  PROVE  /\ IsWorld(t) /\ DOMAIN t = DOMAIN w
         /\ Acyclic(t)
         /\ list # <<>> /\ Rooted(w) => Rooted(t)
<1> DEFINE W == Without(w, me)
<1>1. /\ DOMAIN t = DOMAIN w
      /\ t[me] = [w[me] EXCEPT !.parents = list]
      /\ \A d \in DOMAIN w : d # me => t[d] = w[d]
  BY DEF WithParents
<1>2. IsWorld(t)
  <2>1. w \in [DOMAIN w -> Kinship] /\ w[me] \in Kinship /\ DOMAIN w \in SUBSET Dbref
    BY DEF IsWorld
  <2>2. [w[me] EXCEPT !.parents = list] \in Kinship
    BY <2>1 DEF Kinship
  <2> QED
    BY <1>1, <2>1, <2>2 DEF IsWorld, WithParents
<1>3. Up(t, me) = Range(list) /\ \A d : d # me => Up(t, d) = Up(w, d)
  <2>1. t[me].parents = list
    BY <1>1, WorldTypes DEF Kinship
  <2> QED
    BY <1>1, <2>1 DEF Up
<1>4. \A A : me \notin A => (Closed(t, A) <=> Closed(w, A))
  BY <1>3 DEF Closed
<1>5. W \in SUBSET Dbref /\ Closed(w, W) /\ me \notin W /\ Range(list) \subseteq W
  BY WithoutClosed
<1> HIDE DEF W
<1>6. Acyclic(t)
  <2> SUFFICES ASSUME NEW d \in DOMAIN t, NEW p \in Up(t, d)
               PROVE  Apart(t, p, d)
    BY DEF Acyclic
  <2>1. CASE d = me
    BY <1>3, <1>4, <1>5, <2>1 DEF Apart
  <2>2. CASE d # me
    <3>1. PICK A \in SUBSET Dbref : Closed(w, A) /\ p \in A /\ d \notin A
      BY <1>1, <1>3, <2>2 DEF Acyclic, Apart
    <3>2. CASE d \in W
      <4>1. p \in W
        BY <1>3, <1>5, <2>2, <3>2 DEF Closed
      <4>2. Closed(t, A \cap W) /\ A \cap W \in SUBSET Dbref /\ p \in A \cap W /\ d \notin A \cap W
        BY <1>4, <1>5, <3>1, <4>1, ClosedMeet
      <4> QED
        BY <4>2 DEF Apart
    <3>3. CASE d \notin W
      <4>1. Closed(t, A \cup W)
        BY <1>3, <1>5, <3>1 DEF Closed
      <4> QED
        BY <1>5, <3>1, <3>3, <4>1 DEF Apart
    <3> QED
      BY <3>2, <3>3
  <2> QED
    BY <2>1, <2>2
<1>7. ASSUME list # <<>>, Rooted(w)
      PROVE  Rooted(t)
  <2> SUFFICES ASSUME NEW A \in SUBSET Dbref, Closed(t, A), A \cap DOMAIN t # {}
               PROVE  ROOT_DBREF \in A
    BY DEF Rooted
  <2>1. CASE me \notin A
    BY <1>1, <1>4, <1>7, <2>1 DEF Rooted
  <2>2. CASE me \in A
    <3>1. PICK g \in Range(list) : TRUE
      <4>1. 1 \in DOMAIN list
        BY <1>7, EmptySeq, LenProperties
      <4> QED
        BY <4>1 DEF Range
    <3>2. g \in A \cap W /\ g \in DOMAIN w
      BY <1>3, <1>5, <2>2 DEF Closed
    <3>3. Closed(w, A \cap W)
      BY <1>3, <1>5 DEF Closed
    <3> QED
      BY <1>5, <1>7, <3>2, <3>3 DEF Rooted
  <2> QED
    BY <2>1, <2>2
<1> QED
  BY <1>1, <1>2, <1>6, <1>7

\* A new object without children appears below existing ones.
LEMMA Added ==
  ASSUME NEW w, IsWorld(w), Within(w), Acyclic(w), NEW n \in Dbref, n \notin DOMAIN w,
         NEW list \in Seq(Dbref), Range(list) \subseteq DOMAIN w,
         NEW t, t = WithObject(w, n, list)
  PROVE  /\ IsWorld(t) /\ Within(t) /\ Acyclic(t)
         /\ list # <<>> /\ Rooted(w) => Rooted(t)
<1>1. /\ DOMAIN t = DOMAIN w \cup {n}
      /\ t[n] = [parents |-> list, children |-> <<>>]
      /\ \A d \in DOMAIN w : t[d] = w[d]
      /\ t = [d \in DOMAIN t |-> t[d]]
  BY DEF WithObject
<1>2. IsWorld(t)
  <2>1. [parents |-> list, children |-> <<>>] \in Kinship
    BY EmptySeq DEF Kinship
  <2> QED
    BY <1>1, <2>1 DEF IsWorld
<1>3. Range(<<>>) = {}
  BY DEF Range
<1>4. Within(t)
  BY <1>1, <1>3 DEF Within
<1>5. Up(t, n) = Range(list) /\ Up(w, n) = {} /\ \A d : d # n => Up(t, d) = Up(w, d)
  BY <1>1 DEF Up
<1>6. \A d : n \notin Up(t, d)
  BY <1>5 DEF Up, Within
<1>7. Acyclic(t)
  <2> SUFFICES ASSUME NEW d \in DOMAIN t, NEW p \in Up(t, d)
               PROVE  Apart(t, p, d)
    BY DEF Acyclic
  <2>1. CASE d = n
    <3>1. Closed(t, Dbref \ {n})
      <4>1. \A x : Up(t, x) \subseteq Dbref
        BY <1>1, <1>2, WorldTypes DEF Up
      <4> QED
        BY <1>6, <4>1 DEF Closed
    <3>2. p \in Dbref \ {n}
      BY <1>2, <1>6, WorldTypes DEF Up
    <3> QED
      BY <2>1, <3>1, <3>2 DEF Apart
  <2>2. CASE d # n
    <3>1. PICK A \in SUBSET Dbref : Closed(w, A) /\ p \in A /\ d \notin A
      BY <1>1, <1>5, <2>2 DEF Acyclic, Apart
    <3>2. Closed(t, A \ {n})
      BY <1>5, <1>6, <3>1 DEF Closed
    <3>3. p \in A \ {n} /\ d \notin A \ {n} /\ A \ {n} \in SUBSET Dbref
      BY <1>6, <3>1
    <3> QED
      BY <3>2, <3>3 DEF Apart
  <2> QED
    BY <2>1, <2>2
<1>8. ASSUME list # <<>>, Rooted(w)
      PROVE  Rooted(t)
  <2> SUFFICES ASSUME NEW A \in SUBSET Dbref, Closed(t, A), A \cap DOMAIN t # {}
               PROVE  ROOT_DBREF \in A
    BY DEF Rooted
  <2>1. Closed(w, A)
    BY <1>5 DEF Closed
  <2>2. A \cap DOMAIN w # {}
    <3>1. CASE n \in A
      <4>1. 1 \in DOMAIN list
        BY <1>8, EmptySeq, LenProperties
      <4>2. list[1] \in Range(list)
        BY <4>1 DEF Range
      <4> QED
        BY <1>5, <3>1, <4>2 DEF Closed
    <3>2. CASE n \notin A
      BY <1>1, <3>2
    <3> QED
      BY <3>1, <3>2
  <2> QED
    BY <1>8, <2>1, <2>2 DEF Rooted
<1> QED
  BY <1>2, <1>4, <1>7, <1>8

\* An object that no other names goes.
LEMMA Removed ==
  ASSUME NEW w, IsWorld(w), Within(w), Acyclic(w), NEW v,
         \A d \in DOMAIN w \ {v} : v \notin Range(w[d].parents) \cup Range(w[d].children),
         NEW t, t = WithoutObject(w, v)
  PROVE  /\ IsWorld(t) /\ Within(t) /\ Acyclic(t)
         /\ Rooted(w) => Rooted(t)
<1>1. /\ DOMAIN t = DOMAIN w \ {v} /\ \A d \in DOMAIN t : t[d] = w[d]
      /\ t = [d \in DOMAIN t |-> t[d]]
  BY DEF WithoutObject
<1>2. IsWorld(t) /\ Within(t)
  BY <1>1 DEF IsWorld, Within
<1>3. \A d : d # v => Up(t, d) = Up(w, d) /\ v \notin Up(w, d)
  BY <1>1 DEF Up
<1>4. Up(t, v) = {}
  BY <1>1 DEF Up
<1>5. Acyclic(t)
  <2> SUFFICES ASSUME NEW d \in DOMAIN t, NEW p \in Up(t, d)
               PROVE  Apart(t, p, d)
    BY DEF Acyclic
  <2>1. PICK A \in SUBSET Dbref : Closed(w, A) /\ p \in A /\ d \notin A
    BY <1>1, <1>3 DEF Acyclic, Apart
  <2>2. Closed(t, A)
    BY <1>3, <1>4, <2>1 DEF Closed
  <2> QED
    BY <2>1, <2>2 DEF Apart
<1>6. ASSUME Rooted(w)
      PROVE  Rooted(t)
  <2> SUFFICES ASSUME NEW A \in SUBSET Dbref, Closed(t, A), A \cap DOMAIN t # {}
               PROVE  ROOT_DBREF \in A
    BY DEF Rooted
  <2>1. Closed(w, A \ {v}) /\ A \ {v} \in SUBSET Dbref /\ (A \ {v}) \cap DOMAIN w # {}
    BY <1>1, <1>3 DEF Closed
  <2> QED
    BY <1>6, <2>1 DEF Rooted
<1> QED
  BY <1>2, <1>5, <1>6

\* Only children change.
LEMMA SameParents ==
  ASSUME NEW w, NEW t, DOMAIN t = DOMAIN w, \A d \in DOMAIN w : t[d].parents = w[d].parents
  PROVE  /\ \A d : Up(t, d) = Up(w, d)
         /\ Acyclic(t) <=> Acyclic(w)
         /\ Rooted(t) <=> Rooted(w)
         /\ \A p, d : Apart(t, p, d) <=> Apart(w, p, d)
<1>1. \A d : Up(t, d) = Up(w, d)
  BY DEF Up
<1>2. \A A : Closed(t, A) <=> Closed(w, A)
  BY <1>1 DEF Closed
<1>3. \A p, d : Apart(t, p, d) <=> Apart(w, p, d)
  BY <1>2 DEF Apart
<1> QED
  BY <1>1, <1>2, <1>3 DEF Acyclic, Rooted

-----------------------------------------------------------------------------
(***************************************************************************)
(* The loops as they see the world: call, with the dbrefs of the object    *)
(* they work on (me) and of the one being destroyed (dying) instead of the *)
(* holders, EMPTY where there is none.                                     *)
(***************************************************************************)
LoopState ==
  [pc : PC, me : Dbref \cup {EMPTY}, dying : Dbref \cup {EMPTY}, todo : Seq(Dbref),
   kids : Seq(Dbref), wanted : Seq(Dbref), stack : Seq(Dbref), seen : SUBSET Dbref]

(***************************************************************************)
(* The edges of the graph, from both ends: how often d counts p among its  *)
(* parents, and p counts d among its children, once what a loop has still  *)
(* to tell is told.  In "leave" the edges of the subject are those still   *)
(* to be told; in "adopt" those told already; those above an object being  *)
(* destroyed are gone after "leave", those below it are in kids.           *)
(***************************************************************************)
Named(w, l, d, p) ==
  IF l.pc = "leave" /\ d \in {l.me, l.dying} THEN Count(l.todo, p)
  ELSE IF l.pc = "adopt" /\ d = l.me THEN Count(w[d].parents, p) - Count(l.todo, p)
  ELSE IF l.pc \in {"adopt", "kids"} /\ d = l.dying THEN 0
  ELSE Count(w[d].parents, p)

Listed(w, l, p, d) ==
  IF l.pc \in {"adopt", "kids"} /\ p = l.dying
  THEN Count(l.kids, d)
  ELSE Count(w[p].children, d)

Symmetric(w, l) == \A d, p \in DOMAIN w : Named(w, l, d, p) = Listed(w, l, p, d)

\* Who takes part in which loop.
CastOK(w, l) ==
  /\ l.pc \in {"idle", "method", "check", "search"} => l.dying = EMPTY
  /\ l.pc \in {"check", "search", "adopt"} => l.me \in DOMAIN w
  /\ l.pc = "leave" => (l.me = EMPTY <=> l.dying # EMPTY)
  /\ l.pc = "leave" /\ l.me # EMPTY => l.me \in DOMAIN w
  /\ l.pc = "kids" => l.me = EMPTY /\ l.dying # EMPTY
  /\ l.me # EMPTY => l.me # l.dying
  /\ l.dying # EMPTY => l.dying \in DOMAIN w

\* Whom the loops still have to tell exists.
TellsOK(w, l) ==
  /\ l.pc \in {"leave", "adopt"} => Range(l.todo) \subseteq DOMAIN w \ {l.dying}
  /\ l.pc \in {"adopt", "kids"} /\ l.dying # EMPTY => Range(l.kids) \subseteq DOMAIN w \ {l.dying}

\* The new parents that were checked exist and are not below the object.
WantedOK(w, l) ==
  /\ l.pc \in {"check", "search"} \/ (l.pc = "leave" /\ l.dying = EMPTY) => l.wanted # <<>>
  /\ l.pc \in {"check", "search"} =>
       \A p \in Range(l.wanted) : p \in Range(l.todo) \/ (p \in DOMAIN w /\ Apart(w, p, l.me))
  /\ l.pc = "leave" /\ l.dying = EMPTY =>
       \A p \in Range(l.wanted) : p \in DOMAIN w /\ Apart(w, p, l.me)

\* The search has not met the object, and has all above the new parent but
\* what is above the stack.
SearchOK(w, l) ==
  l.pc = "search" =>
    LET reached == l.seen \cup Range(l.stack)
    IN  /\ l.todo # <<>> /\ Head(l.todo) \in reached
        /\ reached \subseteq DOMAIN w \ {l.me}
        /\ \A x \in l.seen : Up(w, x) \subseteq reached

Ordered(w, l) ==
  /\ IsWorld(w)
  /\ l \in LoopState
  /\ Within(w)
  /\ Acyclic(w)
  /\ Symmetric(w, l)
  /\ CastOK(w, l)
  /\ TellsOK(w, l)
  /\ WantedOK(w, l)
  /\ SearchOK(w, l)

\* A step that turns w into t, with the loop in state m then, keeps both invariants.
Onward(w, t, m) == Ordered(t, m) /\ (Rooted(w) => Rooted(t))

\* ... of the dbrefs, ...
LEMMA EmptyDbref == EMPTY \notin Dbref
BY CacheAssumption DEF EMPTY, Dbref

\* ... of a loop, ...
LEMMA LoopTypes ==
  ASSUME NEW l \in LoopState
  PROVE  /\ l.pc \in PC /\ l.me \in Dbref \cup {EMPTY} /\ l.dying \in Dbref \cup {EMPTY}
         /\ l.todo \in Seq(Dbref) /\ l.kids \in Seq(Dbref) /\ l.wanted \in Seq(Dbref)
         /\ l.stack \in Seq(Dbref) /\ l.seen \in SUBSET Dbref
BY DEF LoopState

\* ... and of the edges.
LEMMA EdgeTypes ==
  ASSUME NEW w, IsWorld(w), NEW l \in LoopState, NEW d \in DOMAIN w, NEW p
  PROVE  /\ Count(w[d].parents, p) \in Nat /\ Count(w[d].children, p) \in Nat
         /\ Count(l.todo, p) \in Nat /\ Count(l.kids, p) \in Nat
         /\ p \in Range(w[d].parents) <=> Count(w[d].parents, p) # 0
         /\ p \in Range(w[d].children) <=> Count(w[d].children, p) # 0
         /\ p \in Range(l.todo) <=> Count(l.todo, p) # 0
         /\ p \in Range(l.kids) <=> Count(l.kids, p) # 0
BY WorldTypes, LoopTypes, CountMember

\* No object names itself.
LEMMA NotOwnParent ==
  ASSUME NEW w, NEW l, Ordered(w, l), NEW d \in DOMAIN w
  PROVE  d \notin Range(w[d].parents)
BY DEF Ordered, Acyclic, Up, Apart

-----------------------------------------------------------------------------
(***************************************************************************)
(* What each step of the loops does to world and loop.                     *)
(***************************************************************************)
Plain == {"idle", "method", "check", "search"}

\* Before a list is changed the edges do not depend on the loop.
LEMMA PlainSymmetric ==
  ASSUME NEW w, NEW l, NEW m, l.pc \in Plain, m.pc \in Plain
  PROVE  Symmetric(w, l) <=> Symmetric(w, m)
BY DEF Symmetric, Named, Listed, Plain

\* Nothing of the hierarchy is under way any more, or not yet.
LEMMA RestOrdered ==
  ASSUME NEW w, NEW l, Ordered(w, l), l.pc \in Plain,
         NEW m \in LoopState, m.pc \in {"idle", "method"}, m.dying = EMPTY
  PROVE  Ordered(w, m)
<1>1. m.pc \in Plain /\ m.pc \notin {"check", "search", "leave", "adopt", "kids"}
  BY DEF Plain
<1>2. Symmetric(w, m)
  BY <1>1, PlainSymmetric DEF Ordered
<1>3. m.me # EMPTY => m.me # m.dying
  OBVIOUS
<1> QED
  BY <1>1, <1>2, <1>3 DEF Ordered, CastOK, TellsOK, WantedOK, SearchOK

\* chparents() begins.
LEMMA CheckOrdered ==
  ASSUME NEW w, NEW l, Ordered(w, l), l.pc \in Plain,
         NEW m \in LoopState, m.pc = "check", m.dying = EMPTY, m.me \in DOMAIN w,
         m.todo = m.wanted, m.wanted # <<>>
  PROVE  Ordered(w, m)
<1>1. m.pc \in Plain /\ m.me # EMPTY
  BY EmptyDbref DEF Plain, Ordered, IsWorld
<1>2. Symmetric(w, m)
  BY <1>1, PlainSymmetric DEF Ordered
<1> QED
  BY <1>1, <1>2 DEF Ordered, CastOK, TellsOK, WantedOK, SearchOK

\* The search above a new parent begins.
LEMMA SearchOrdered ==
  ASSUME NEW w, NEW l, Ordered(w, l), l.pc = "check", l.todo # <<>>,
         Head(l.todo) \in DOMAIN w, Head(l.todo) # l.me,
         NEW m, m = [l EXCEPT !.pc = "search", !.stack = <<Head(l.todo)>>, !.seen = {}]
  PROVE  Ordered(w, m)
<1>1. l \in LoopState /\ Head(l.todo) \in Dbref /\ <<Head(l.todo)>> \in Seq(Dbref)
  BY LoopTypes DEF Ordered
<1>2. /\ m.pc = "search" /\ m.stack = <<Head(l.todo)>> /\ m.seen = {}
      /\ m.me = l.me /\ m.dying = l.dying /\ m.todo = l.todo /\ m.wanted = l.wanted
  BY <1>1 DEF LoopState
<1>3. m \in LoopState
  BY <1>1 DEF LoopState, PC
<1>4. Range(m.stack) = {Head(l.todo)}
  BY <1>2 DEF Range
<1>5 Symmetric(w, m)
  <2>1. l.pc \in Plain /\ m.pc \in Plain
    BY <1>2 DEF Plain
  <2> QED
    BY <2>1, PlainSymmetric DEF Ordered
<1> QED
  BY <1>2, <1>3, <1>4, <1>5 DEF Ordered, CastOK, TellsOK, WantedOK, SearchOK

\* The object on top of the stack was visited before.
LEMMA RevisitOrdered ==
  ASSUME NEW w, NEW l, Ordered(w, l), l.pc = "search", l.stack # <<>>,
         Head(l.stack) \in l.seen,
         NEW m, m = [l EXCEPT !.stack = Tail(l.stack)]
  PROVE  Ordered(w, m)
<1>1. l \in LoopState /\ Tail(l.stack) \in Seq(Dbref)
  BY LoopTypes, CountTail DEF Ordered
<1>2. /\ m.pc = "search" /\ m.stack = Tail(l.stack) /\ m.seen = l.seen
      /\ m.me = l.me /\ m.dying = l.dying /\ m.todo = l.todo /\ m.wanted = l.wanted
      /\ m \in LoopState
  BY <1>1 DEF LoopState
<1>3. m.seen \cup Range(m.stack) = l.seen \cup Range(l.stack)
  BY <1>1, <1>2, LoopTypes, CountTail
<1>4 Symmetric(w, m)
  <2>1. l.pc \in Plain /\ m.pc \in Plain
    BY <1>2 DEF Plain
  <2> QED
    BY <2>1, PlainSymmetric DEF Ordered
<1> QED
  BY <1>2, <1>3, <1>4 DEF Ordered, CastOK, TellsOK, WantedOK, SearchOK

\* The object on top of the stack is visited, and is not a child of the subject.
LEMMA VisitOrdered ==
  ASSUME NEW w, NEW l, Ordered(w, l), l.pc = "search", l.stack # <<>>,
         l.me \notin Range(w[Head(l.stack)].parents),
         NEW m, m = [l EXCEPT !.stack = w[Head(l.stack)].parents \o Tail(l.stack),
                              !.seen = l.seen \cup {Head(l.stack)}]
  PROVE  Ordered(w, m)
<1> DEFINE x == Head(l.stack)
           rest == Tail(l.stack)
           above == w[x].parents
<1>1. /\ l \in LoopState /\ x \in Dbref /\ rest \in Seq(Dbref)
      /\ Range(l.stack) = {x} \cup Range(rest)
  BY LoopTypes, CountTail DEF Ordered
<1>2. x \in DOMAIN w
  BY <1>1 DEF Ordered, SearchOK
<1>3. above \in Seq(Dbref) /\ Up(w, x) = Range(above) /\ Range(above) \subseteq DOMAIN w
  BY <1>2, WorldTypes DEF Ordered, Up, Within
<1> HIDE DEF x, rest, above
<1>4. above \o rest \in Seq(Dbref) /\ Range(above \o rest) = Range(above) \cup Range(rest)
  <2>1. above \o rest \in Seq(Dbref)
    BY <1>1, <1>3, ConcatProperties
  <2>2. \A y : y \in Range(above \o rest) <=> y \in Range(above) \cup Range(rest)
    <3> TAKE y
    <3>1. Count(above \o rest, y) = Count(above, y) + Count(rest, y)
      BY <1>1, <1>3, CountConcat
    <3>2. /\ Count(above, y) \in Nat /\ (y \in Range(above) <=> Count(above, y) # 0)
          /\ Count(rest, y) \in Nat /\ (y \in Range(rest) <=> Count(rest, y) # 0)
          /\ y \in Range(above \o rest) <=> Count(above \o rest, y) # 0
      BY <1>1, <1>3, <2>1, CountMember
    <3> QED
      BY <3>1, <3>2
  <2> QED
    BY <2>1, <2>2
<1>5. /\ m.pc = "search" /\ m.stack = above \o rest /\ m.seen = l.seen \cup {x}
      /\ m.me = l.me /\ m.dying = l.dying /\ m.todo = l.todo /\ m.wanted = l.wanted
      /\ m \in LoopState
  BY <1>1, <1>4 DEF LoopState, x, rest, above
<1>6. m.seen \cup Range(m.stack) = l.seen \cup Range(l.stack) \cup Range(above)
  BY <1>1, <1>4, <1>5
<1>7 Symmetric(w, m)
  <2>1. l.pc \in Plain /\ m.pc \in Plain
    BY <1>5 DEF Plain
  <2> QED
    BY <2>1, PlainSymmetric DEF Ordered
<1>8. SearchOK(w, m)
  BY <1>3, <1>5, <1>6 DEF Ordered, SearchOK, above, x
<1> QED
  BY <1>5, <1>7, <1>8 DEF Ordered, CastOK, TellsOK, WantedOK

\* The search ends: what it has seen is closed, and has the new parent only.
LEMMA AbsentOrdered ==
  ASSUME NEW w, NEW l, Ordered(w, l), l.pc = "search", l.stack = <<>>,
         NEW m, m = [l EXCEPT !.pc = "check", !.todo = Tail(l.todo)]
  PROVE  Ordered(w, m)
<1>1. /\ l \in LoopState /\ l.todo # <<>> /\ Tail(l.todo) \in Seq(Dbref)
      /\ Range(l.todo) = {Head(l.todo)} \cup Range(Tail(l.todo))
  BY LoopTypes, CountTail DEF Ordered, SearchOK
<1>2. /\ m.pc = "check" /\ m.todo = Tail(l.todo)
      /\ m.me = l.me /\ m.dying = l.dying /\ m.wanted = l.wanted /\ m \in LoopState
  BY <1>1 DEF LoopState, PC
<1>3. Head(l.todo) \in DOMAIN w /\ Apart(w, Head(l.todo), l.me)
  <2>1. Range(l.stack) = {}
    BY DEF Range
  <2>2. Closed(w, l.seen) /\ Head(l.todo) \in l.seen /\ l.seen \in SUBSET Dbref
        /\ l.seen \subseteq DOMAIN w \ {l.me}
    BY <1>1, <2>1, LoopTypes DEF Ordered, SearchOK, Closed
  <2> QED
    BY <2>2 DEF Apart
<1>4 Symmetric(w, m)
  <2>1. l.pc \in Plain /\ m.pc \in Plain
    BY <1>2 DEF Plain
  <2> QED
    BY <2>1, PlainSymmetric DEF Ordered
<1>5. WantedOK(w, m)
  BY <1>1, <1>2, <1>3 DEF Ordered, WantedOK
<1> QED
  BY <1>2, <1>4, <1>5 DEF Ordered, CastOK, TellsOK, SearchOK

\* Every new parent is checked: the old ones are told.
LEMMA CheckedOrdered ==
  ASSUME NEW w, NEW l, Ordered(w, l), l.pc = "check", l.todo = <<>>,
         NEW m, m = [l EXCEPT !.pc = "leave", !.todo = w[l.me].parents]
  PROVE  Ordered(w, m)
<1>1. l \in LoopState /\ l.me \in DOMAIN w /\ l.dying = EMPTY /\ l.me # EMPTY
  BY EmptyDbref DEF Ordered, CastOK, IsWorld
<1>2. w[l.me].parents \in Seq(Dbref)
  BY <1>1, WorldTypes DEF Ordered
<1>3. /\ m.pc = "leave" /\ m.todo = w[l.me].parents
      /\ m.me = l.me /\ m.dying = l.dying /\ m.wanted = l.wanted /\ m \in LoopState
  BY <1>1, <1>2 DEF LoopState, PC
<1>4. Symmetric(w, m)
  <2>1. DOMAIN w \subseteq Dbref
    BY DEF Ordered, IsWorld
  <2> QED
    BY <1>1, <1>3, <2>1, EmptyDbref DEF Ordered, Symmetric, Named, Listed
<1>5. WantedOK(w, m)
  <2>1. Range(l.todo) = {}
    BY DEF Range
  <2> QED
    BY <1>1, <1>3, <2>1 DEF Ordered, WantedOK
<1>6. TellsOK(w, m)
  <2>1. EMPTY \notin DOMAIN w /\ Range(m.todo) \subseteq DOMAIN w
    BY <1>1, <1>3, EmptyDbref DEF Ordered, Within, IsWorld
  <2> QED
    BY <1>1, <1>3, <2>1 DEF TellsOK
<1> QED
  BY <1>1, <1>3, <1>4, <1>5, <1>6 DEF Ordered, CastOK, SearchOK

\* The object the running loop works on.
SubjectOf(l) == IF l.me # EMPTY THEN l.me ELSE l.dying

\* It is in the world.
LEMMA SubjectIn ==
  ASSUME NEW w, NEW l, Ordered(w, l), l.pc \in {"leave", "adopt", "kids"}
  PROVE  /\ SubjectOf(l) \in DOMAIN w /\ SubjectOf(l) \in Dbref
         /\ l.pc = "leave" => \A d \in DOMAIN w : d \in {l.me, l.dying} <=> d = SubjectOf(l)
<1>1. DOMAIN w \subseteq Dbref /\ EMPTY \notin DOMAIN w
  BY EmptyDbref DEF Ordered, IsWorld
<1>2. l.me \in Dbref \cup {EMPTY} /\ l.dying \in Dbref \cup {EMPTY}
  BY LoopTypes DEF Ordered
<1>3. CASE l.pc = "leave"
  BY <1>1, <1>2, <1>3 DEF Ordered, CastOK, SubjectOf
<1>4. CASE l.pc = "adopt"
  BY <1>1, <1>2, <1>4 DEF Ordered, CastOK, SubjectOf
<1>5. CASE l.pc = "kids" /\ l.dying # EMPTY
  BY <1>1, <1>2, <1>5 DEF Ordered, CastOK, SubjectOf
<1>6. l.pc = "kids" => l.dying # EMPTY
  BY DEF Ordered, CastOK
<1> QED
  BY <1>3, <1>4, <1>5, <1>6

\* A parent that is still to forget the subject knows it as often as it will
\* be told.
LEMMA ParentKnows ==
  ASSUME NEW w, NEW l, Ordered(w, l), l.pc = "leave", NEW p \in Range(l.todo)
  PROVE  /\ p \in DOMAIN w \ {l.dying}
         /\ Count(w[p].children, SubjectOf(l)) = Count(l.todo, p)
         /\ SubjectOf(l) \in Range(w[p].children)
<1> DEFINE x == SubjectOf(l)
<1>1. p \in DOMAIN w \ {l.dying} /\ x \in DOMAIN w /\ x \in {l.me, l.dying}
  BY SubjectIn DEF Ordered, TellsOK
<1>2. Named(w, l, x, p) = Count(l.todo, p) /\ Listed(w, l, p, x) = Count(w[p].children, x)
  BY <1>1 DEF Named, Listed
<1>3. Count(w[p].children, x) = Count(l.todo, p)
  BY <1>1, <1>2 DEF Ordered, Symmetric
<1>4. Count(l.todo, p) # 0
  BY <1>1, EdgeTypes DEF Ordered
<1> QED
  BY <1>1, <1>3, <1>4, EdgeTypes DEF Ordered

\* A child of the object being destroyed names it as often as it will be told.
LEMMA KidKnows ==
  ASSUME NEW w, NEW l, Ordered(w, l), l.pc = "kids", NEW k \in Range(l.kids)
  PROVE  /\ k \in DOMAIN w \ {l.dying} /\ l.dying \in DOMAIN w
         /\ Count(w[k].parents, l.dying) = Count(l.kids, k)
         /\ l.dying \in Range(w[k].parents)
<1>1. k \in DOMAIN w \ {l.dying} /\ l.dying \in DOMAIN w /\ l.me = EMPTY
  BY SubjectIn DEF Ordered, TellsOK, CastOK, SubjectOf
<1>2. /\ Named(w, l, k, l.dying) = Count(w[k].parents, l.dying)
      /\ Listed(w, l, l.dying, k) = Count(l.kids, k)
  BY <1>1 DEF Named, Listed
<1>3. Count(w[k].parents, l.dying) = Count(l.kids, k)
  BY <1>1, <1>2 DEF Ordered, Symmetric
<1>4. Count(l.kids, k) # 0
  BY <1>1, EdgeTypes DEF Ordered
<1> QED
  BY <1>1, <1>3, <1>4, EdgeTypes DEF Ordered

\* A children list changes.
LEMMA ChildrenChanged ==
  ASSUME NEW w, IsWorld(w), Within(w), NEW p \in DOMAIN w, NEW list \in Seq(Dbref),
         Range(list) \subseteq DOMAIN w, NEW t, t = WithChildren(w, p, list)
  PROVE  /\ IsWorld(t) /\ DOMAIN t = DOMAIN w /\ Within(t)
         /\ t[p].children = list
         /\ \A d \in DOMAIN w : t[d].parents = w[d].parents
         /\ \A d \in DOMAIN w : d # p => t[d].children = w[d].children
         /\ \A d : Up(t, d) = Up(w, d)
         /\ Acyclic(t) <=> Acyclic(w)
         /\ Rooted(t) <=> Rooted(w)
         /\ \A q, d : Apart(t, q, d) <=> Apart(w, q, d)
<1>1. w \in [DOMAIN w -> Kinship] /\ w[p] \in Kinship /\ DOMAIN w \in SUBSET Dbref
  BY DEF IsWorld
<1>2. /\ DOMAIN t = DOMAIN w
      /\ t[p] = [w[p] EXCEPT !.children = list]
      /\ \A d \in DOMAIN w : d # p => t[d] = w[d]
  BY DEF WithChildren
<1>3. t[p] \in Kinship /\ t[p].children = list /\ t[p].parents = w[p].parents
  BY <1>1, <1>2 DEF Kinship
<1>4. IsWorld(t)
  <2>1. \A d \in DOMAIN t : t[d] \in Kinship
    BY <1>1, <1>2, <1>3
  <2>2. t = [d \in DOMAIN t |-> t[d]]
    BY DEF WithChildren
  <2> QED
    BY <1>1, <1>2, <2>1, <2>2 DEF IsWorld
<1>5. \A d \in DOMAIN w : t[d].parents = w[d].parents
  BY <1>2, <1>3
<1>6. Within(t)
  BY <1>2, <1>3, <1>5 DEF Within
<1>7. /\ \A d : Up(t, d) = Up(w, d)
      /\ Acyclic(t) <=> Acyclic(w)
      /\ Rooted(t) <=> Rooted(w)
      /\ \A q, d : Apart(t, q, d) <=> Apart(w, q, d)
  <2>1. DOMAIN t = DOMAIN w
    BY <1>2
  <2> QED
    BY ONLY <1>5, <2>1, SameParents
<1> QED
  BY <1>2, <1>3, <1>4, <1>5, <1>6, <1>7

\* A parent forgets the subject.
LEMMA LeaveOrdered ==
  ASSUME NEW w, NEW l, Ordered(w, l), l.pc = "leave", l.todo # <<>>,
         NEW t,
         t = WithChildren(w, Head(l.todo), ListDelete(w[Head(l.todo)].children, SubjectOf(l))),
         NEW m, m = [l EXCEPT !.todo = Tail(l.todo)]
  PROVE  Ordered(t, m) /\ (Rooted(w) => Rooted(t))
<1> DEFINE p == Head(l.todo)
           x == SubjectOf(l)
           list == ListDelete(w[p].children, x)
<1>1. /\ l \in LoopState /\ l.todo \in Seq(Dbref) /\ Tail(l.todo) \in Seq(Dbref)
      /\ Range(l.todo) = {p} \cup Range(Tail(l.todo))
      /\ \A q : Count(l.todo, q) = (IF p = q THEN 1 ELSE 0) + Count(Tail(l.todo), q)
  BY LoopTypes, CountTail DEF Ordered
<1>2. p \in DOMAIN w \ {l.dying} /\ x \in Range(w[p].children)
  BY <1>1, ParentKnows
<1>3. /\ x \in DOMAIN w /\ \A d \in DOMAIN w : d \in {l.me, l.dying} <=> d = x
  BY SubjectIn
<1> HIDE DEF p, x
<1>4. w[p].children \in Seq(Dbref) /\ Range(w[p].children) \subseteq DOMAIN w
  BY <1>2, WorldTypes DEF Ordered, Within
<1>5. /\ list \in Seq(Dbref) /\ Range(list) \subseteq DOMAIN w
      /\ \A q : Count(w[p].children, q) = Count(list, q) + (IF x = q THEN 1 ELSE 0)
  BY <1>2, <1>4, CountDelete
<1> HIDE DEF list
<1>6. t = WithChildren(w, p, list)
  BY DEF p, x, list
<1>7. /\ IsWorld(t) /\ DOMAIN t = DOMAIN w /\ Within(t) /\ t[p].children = list
      /\ \A d \in DOMAIN w : t[d].parents = w[d].parents
      /\ \A d \in DOMAIN w : d # p => t[d].children = w[d].children
      /\ Acyclic(t) /\ (Rooted(w) => Rooted(t))
      /\ \A q, d : Apart(t, q, d) <=> Apart(w, q, d)
  <2>1. IsWorld(w) /\ Within(w) /\ Acyclic(w) /\ p \in DOMAIN w
    BY <1>2 DEF Ordered
  <2> QED
    BY <1>5, <1>6, <2>1, ChildrenChanged
<1>8. /\ m.pc = "leave" /\ m.todo = Tail(l.todo) /\ m.me = l.me /\ m.dying = l.dying
      /\ m.wanted = l.wanted /\ m \in LoopState
  BY <1>1 DEF LoopState
<1>9. Symmetric(t, m)
  <2> SUFFICES ASSUME NEW d \in DOMAIN w, NEW q \in DOMAIN w
               PROVE  Named(t, m, d, q) = Listed(t, m, q, d)
    BY <1>7 DEF Symmetric
  <2>1. Named(w, l, d, q) = Listed(w, l, q, d)
    BY DEF Ordered, Symmetric
  <2>2. Named(w, l, d, q) = IF d = x THEN Count(l.todo, q) ELSE Count(w[d].parents, q)
    BY <1>3 DEF Named
  <2>3. Named(t, m, d, q) = IF d = x THEN Count(Tail(l.todo), q) ELSE Count(w[d].parents, q)
    <3>1. t[d].parents = w[d].parents
      BY <1>7
    <3>2. m.pc = "leave" /\ m.todo = Tail(l.todo) /\ m.me = l.me /\ m.dying = l.dying
      BY <1>8
    <3>3. d \in {l.me, l.dying} <=> d = x
      BY <1>3
    <3> QED
      BY ONLY <3>1, <3>2, <3>3 DEF Named
  <2>4. Listed(w, l, q, d) = Count(w[q].children, d)
    BY DEF Listed
  <2>5. Listed(t, m, q, d) = IF q = p THEN Count(list, d) ELSE Count(w[q].children, d)
    BY <1>7, <1>8 DEF Listed
  <2>6. /\ Count(Tail(l.todo), q) \in Nat /\ Count(w[d].parents, q) \in Nat
        /\ Count(list, d) \in Nat
    BY <1>1, <1>5, CountType, EdgeTypes DEF Ordered
  <2>7. /\ Count(l.todo, q) = (IF p = q THEN 1 ELSE 0) + Count(Tail(l.todo), q)
        /\ Count(w[p].children, d) = Count(list, d) + (IF x = d THEN 1 ELSE 0)
    BY <1>1, <1>5
  <2>8. /\ Count(l.todo, q) = IF q = p THEN Count(Tail(l.todo), q) + 1 ELSE Count(Tail(l.todo), q)
        /\ Count(w[p].children, d) = IF d = x THEN Count(list, d) + 1 ELSE Count(list, d)
    BY <2>6, <2>7
  <2>9. CASE d = x
    <3>1. Count(l.todo, q) = Count(w[q].children, d)
      BY <2>1, <2>2, <2>4, <2>9
    <3>2. Named(t, m, d, q) = Count(Tail(l.todo), q)
      BY <2>3, <2>9
    <3>3. CASE q = p
      <4>1. Count(Tail(l.todo), q) + 1 = Count(list, d) + 1
        BY <2>8, <2>9, <3>1, <3>3
      <4>2. Count(Tail(l.todo), q) = Count(list, d)
        BY <2>6, <4>1
      <4> QED
        BY <2>5, <3>2, <3>3, <4>2
    <3>4. CASE q # p
      BY <2>5, <2>8, <3>1, <3>2, <3>4
    <3> QED
      BY <3>3, <3>4
  <2>10. CASE d # x
    BY <2>1, <2>2, <2>3, <2>4, <2>5, <2>6, <2>8, <2>10
  <2> QED
    BY <2>9, <2>10
<1>10. TellsOK(t, m)
  BY <1>1, <1>7, <1>8 DEF Ordered, TellsOK
<1>11. WantedOK(t, m)
  BY <1>7, <1>8 DEF Ordered, WantedOK
<1> QED
  BY <1>7, <1>8, <1>9, <1>10, <1>11 DEF Ordered, CastOK, SearchOK

\* A parent gets the subject as a child.
LEMMA AdoptOrdered ==
  ASSUME NEW w, NEW l, Ordered(w, l), l.pc = "adopt", l.todo # <<>>,
         NEW t, t = WithChildren(w, Head(l.todo), Append(w[Head(l.todo)].children, l.me)),
         NEW m, m = [l EXCEPT !.todo = Tail(l.todo)]
  PROVE  Ordered(t, m) /\ (Rooted(w) => Rooted(t))
<1> DEFINE p == Head(l.todo)
           list == Append(w[p].children, l.me)
<1>1. /\ l \in LoopState /\ l.todo \in Seq(Dbref) /\ Tail(l.todo) \in Seq(Dbref)
      /\ Range(l.todo) = {p} \cup Range(Tail(l.todo))
      /\ \A q : Count(l.todo, q) = (IF p = q THEN 1 ELSE 0) + Count(Tail(l.todo), q)
  BY LoopTypes, CountTail DEF Ordered
<1>2. /\ p \in DOMAIN w \ {l.dying} /\ l.me \in DOMAIN w /\ l.me # l.dying
      /\ l.me \in Dbref
  BY <1>1, EmptyDbref DEF Ordered, TellsOK, CastOK, IsWorld
<1> HIDE DEF p
<1>3. w[p].children \in Seq(Dbref) /\ Range(w[p].children) \subseteq DOMAIN w
  BY <1>2, WorldTypes DEF Ordered, Within
<1>4. /\ list \in Seq(Dbref) /\ Range(list) \subseteq DOMAIN w
      /\ \A q : Count(list, q) = Count(w[p].children, q) + (IF l.me = q THEN 1 ELSE 0)
  BY <1>2, <1>3, CountAppend
<1> HIDE DEF list
<1>5. t = WithChildren(w, p, list)
  BY DEF p, list
<1>6. /\ IsWorld(t) /\ DOMAIN t = DOMAIN w /\ Within(t) /\ t[p].children = list
      /\ \A d \in DOMAIN w : t[d].parents = w[d].parents
      /\ \A d \in DOMAIN w : d # p => t[d].children = w[d].children
      /\ Acyclic(t) /\ (Rooted(w) => Rooted(t))
  <2>1. IsWorld(w) /\ Within(w) /\ Acyclic(w) /\ p \in DOMAIN w
    BY <1>2 DEF Ordered
  <2> QED
    BY <1>4, <1>5, <2>1, ChildrenChanged
<1>7. /\ m.pc = "adopt" /\ m.todo = Tail(l.todo) /\ m.me = l.me /\ m.dying = l.dying
      /\ m.kids = l.kids /\ m \in LoopState
  BY <1>1 DEF LoopState
<1>8. Symmetric(t, m)
  <2> SUFFICES ASSUME NEW d \in DOMAIN w, NEW q \in DOMAIN w
               PROVE  Named(t, m, d, q) = Listed(t, m, q, d)
    BY <1>6 DEF Symmetric
  <2>1. Named(w, l, d, q) = Listed(w, l, q, d)
    BY DEF Ordered, Symmetric
  <2>2. Named(w, l, d, q) = IF d = l.me THEN Count(w[d].parents, q) - Count(l.todo, q)
                            ELSE IF d = l.dying THEN 0 ELSE Count(w[d].parents, q)
    BY DEF Named
  <2>3. Named(t, m, d, q) = IF d = l.me THEN Count(w[d].parents, q) - Count(Tail(l.todo), q)
                            ELSE IF d = l.dying THEN 0 ELSE Count(w[d].parents, q)
    <3>1. t[d].parents = w[d].parents
      BY <1>6
    <3>2. m.pc = "adopt" /\ m.todo = Tail(l.todo) /\ m.me = l.me /\ m.dying = l.dying
      BY <1>7
    <3> QED
      BY ONLY <3>1, <3>2 DEF Named
  <2>4. Listed(w, l, q, d) = IF q = l.dying THEN Count(l.kids, d) ELSE Count(w[q].children, d)
    BY DEF Listed
  <2>5. Listed(t, m, q, d) = IF q = l.dying THEN Count(l.kids, d)
                             ELSE IF q = p THEN Count(list, d) ELSE Count(w[q].children, d)
    <3>1. t[p].children = list /\ (q # p => t[q].children = w[q].children)
      BY <1>6
    <3>2. m.pc = "adopt" /\ m.kids = l.kids /\ m.dying = l.dying
      BY <1>7
    <3>3. p # l.dying
      BY <1>2
    <3> QED
      BY ONLY <3>1, <3>2, <3>3 DEF Listed
  <2>6. /\ Count(Tail(l.todo), q) \in Nat /\ Count(w[d].parents, q) \in Nat
        /\ Count(w[q].children, d) \in Nat
    BY <1>1, CountType, EdgeTypes DEF Ordered
  <2>7. /\ Count(l.todo, q) = (IF p = q THEN 1 ELSE 0) + Count(Tail(l.todo), q)
        /\ Count(list, d) = Count(w[p].children, d) + (IF l.me = d THEN 1 ELSE 0)
    BY <1>1, <1>4
  <2>8. /\ Count(l.todo, q) = IF q = p THEN Count(Tail(l.todo), q) + 1 ELSE Count(Tail(l.todo), q)
        /\ Count(list, d) = IF d = l.me THEN Count(w[p].children, d) + 1 ELSE Count(w[p].children, d)
    <3>1. Count(w[p].children, d) \in Nat
      BY <1>2, EdgeTypes DEF Ordered
    <3> QED
      BY <2>6, <2>7, <3>1
  <2>9. CASE d = l.me
    <3>1. Named(t, m, d, q) = Count(w[d].parents, q) - Count(Tail(l.todo), q)
      BY <2>3, <2>9
    <3>2. Named(w, l, d, q) = Count(w[d].parents, q) - Count(l.todo, q)
      BY <2>2, <2>9
    <3>3. CASE q = p
      <4>1. Count(w[d].parents, q) - (Count(Tail(l.todo), q) + 1) = Count(w[q].children, d)
        BY <1>2, <2>1, <2>4, <2>8, <3>2, <3>3
      <4>2. Listed(t, m, q, d) = Count(w[q].children, d) + 1
        BY <1>2, <2>5, <2>8, <2>9, <3>3
      <4> QED
        BY <2>6, <3>1, <4>1, <4>2
    <3>4. CASE q # p
      BY <2>1, <2>4, <2>5, <2>8, <3>1, <3>2, <3>4
    <3> QED
      BY <3>3, <3>4
  <2>10. CASE d # l.me
    BY <1>2, <2>1, <2>2, <2>3, <2>4, <2>5, <2>6, <2>8, <2>10
  <2> QED
    BY <2>9, <2>10
<1>9. TellsOK(t, m)
  BY <1>1, <1>6, <1>7 DEF Ordered, TellsOK
<1> QED
  BY <1>6, <1>7, <1>8, <1>9 DEF Ordered, CastOK, WantedOK, SearchOK

\* A parents list changes to one of objects the object is not above.
LEMMA ParentsChanged ==
  ASSUME NEW w, IsWorld(w), Within(w), Acyclic(w), NEW d \in DOMAIN w, NEW list \in Seq(Dbref),
         \A x \in Range(list) : x \in DOMAIN w /\ Apart(w, x, d),
         NEW t, t = WithParents(w, d, list)
  PROVE  /\ IsWorld(t) /\ DOMAIN t = DOMAIN w /\ Within(t) /\ Acyclic(t)
         /\ t[d].parents = list
         /\ \A e \in DOMAIN w : e # d => t[e].parents = w[e].parents
         /\ \A e \in DOMAIN w : t[e].children = w[e].children
         /\ list # <<>> /\ Rooted(w) => Rooted(t)
<1>1. /\ IsWorld(t) /\ DOMAIN t = DOMAIN w /\ Acyclic(t)
      /\ list # <<>> /\ Rooted(w) => Rooted(t)
  BY Reparented
<1>2. /\ t[d] = [w[d] EXCEPT !.parents = list]
      /\ \A e \in DOMAIN w : e # d => t[e] = w[e]
  BY DEF WithParents
<1>3. t[d].parents = list /\ t[d].children = w[d].children
  BY <1>2, WorldTypes DEF Kinship
<1>4. \A e \in DOMAIN w : t[e].children = w[e].children
  BY <1>2, <1>3
<1>5. Within(t)
  BY <1>1, <1>2, <1>3, <1>4 DEF Within
<1> QED
  BY <1>1, <1>2, <1>3, <1>4, <1>5

\* object_change_parents(): the object gets its new parents.
LEMMA SetOrdered ==
  ASSUME NEW w, NEW l, Ordered(w, l), l.pc = "leave", l.todo = <<>>, l.dying = EMPTY,
         NEW t, t = WithParents(w, l.me, l.wanted),
         NEW m, m = [l EXCEPT !.pc = "adopt", !.todo = l.wanted]
  PROVE  Onward(w, t, m)
<1>1. /\ l \in LoopState /\ l.wanted \in Seq(Dbref)
      /\ l.me \in DOMAIN w /\ l.me # EMPTY /\ EMPTY \notin DOMAIN w
      /\ \A x \in Range(l.wanted) : x \in DOMAIN w /\ Apart(w, x, l.me)
      /\ l.wanted # <<>>
  BY LoopTypes, EmptyDbref DEF Ordered, CastOK, WantedOK, IsWorld
<1>2. /\ IsWorld(t) /\ DOMAIN t = DOMAIN w /\ Within(t) /\ Acyclic(t)
      /\ t[l.me].parents = l.wanted
      /\ \A e \in DOMAIN w : e # l.me => t[e].parents = w[e].parents
      /\ \A e \in DOMAIN w : t[e].children = w[e].children
      /\ Rooted(w) => Rooted(t)
  <2>1. IsWorld(w) /\ Within(w) /\ Acyclic(w)
    BY DEF Ordered
  <2> QED
    BY <1>1, <2>1, ParentsChanged
<1>3. /\ m.pc = "adopt" /\ m.todo = l.wanted /\ m.me = l.me /\ m.dying = EMPTY
      /\ m \in LoopState
  BY <1>1 DEF LoopState, PC
<1>4. Symmetric(t, m)
  <2> SUFFICES ASSUME NEW d \in DOMAIN w, NEW q \in DOMAIN w
               PROVE  Named(t, m, d, q) = Listed(t, m, q, d)
    BY <1>2 DEF Symmetric
  <2>1. Named(w, l, d, q) = Listed(w, l, q, d)
    BY DEF Ordered, Symmetric
  <2>2. Named(w, l, d, q) = IF d = l.me THEN Count(<<>>, q) ELSE Count(w[d].parents, q)
    BY <1>1 DEF Named
  <2>3. Named(t, m, d, q) = IF d = l.me THEN Count(l.wanted, q) - Count(l.wanted, q)
                            ELSE Count(w[d].parents, q)
    BY <1>1, <1>2, <1>3 DEF Named
  <2>4. Listed(w, l, q, d) = Count(w[q].children, d)
    BY DEF Listed
  <2>5. Listed(t, m, q, d) = Count(w[q].children, d)
    BY <1>1, <1>2, <1>3 DEF Listed
  <2>6. Count(<<>>, q) = 0 /\ Count(l.wanted, q) - Count(l.wanted, q) = 0
    BY <1>1, CountNone, CountType
  <2>7. CASE d = l.me
    BY <2>1, <2>2, <2>3, <2>4, <2>5, <2>6, <2>7
  <2>8. CASE d # l.me
    BY <2>1, <2>2, <2>3, <2>4, <2>5, <2>8
  <2> QED
    BY <2>7, <2>8
<1>5. TellsOK(t, m)
  BY <1>1, <1>2, <1>3 DEF TellsOK
<1> QED
  BY <1>1, <1>2, <1>3, <1>4, <1>5 DEF Onward, Ordered, CastOK, WantedOK, SearchOK

\* object_destroy(), after the parents: the children's turn.
LEMMA LeftOrdered ==
  ASSUME NEW w, NEW l, Ordered(w, l), l.pc = "leave", l.todo = <<>>, l.dying # EMPTY,
         NEW m, m = [l EXCEPT !.pc = "kids", !.kids = w[l.dying].children]
  PROVE  Ordered(w, m)
<1>1. l \in LoopState /\ l.dying \in DOMAIN w /\ l.me = EMPTY /\ EMPTY \notin DOMAIN w
  BY EmptyDbref DEF Ordered, CastOK, IsWorld
<1>2. w[l.dying].children \in Seq(Dbref)
  BY <1>1, WorldTypes DEF Ordered
<1>3. /\ m.pc = "kids" /\ m.kids = w[l.dying].children /\ m.me = l.me /\ m.dying = l.dying
      /\ m \in LoopState
  BY <1>1, <1>2 DEF LoopState, PC
<1>4. Symmetric(w, m)
  <2> SUFFICES ASSUME NEW d \in DOMAIN w, NEW q \in DOMAIN w
               PROVE  Named(w, m, d, q) = Listed(w, m, q, d)
    BY DEF Symmetric
  <2>1. Named(w, l, d, q) = Listed(w, l, q, d)
    BY DEF Ordered, Symmetric
  <2>2. Named(w, l, d, q) = IF d = l.dying THEN Count(<<>>, q) ELSE Count(w[d].parents, q)
    BY <1>1 DEF Named
  <2>3. Named(w, m, d, q) = IF d = l.dying THEN 0 ELSE Count(w[d].parents, q)
    BY <1>1, <1>3 DEF Named
  <2>4. Listed(w, l, q, d) = Count(w[q].children, d)
    BY DEF Listed
  <2>5. Listed(w, m, q, d) = Count(w[q].children, d)
    BY <1>1, <1>3 DEF Listed
  <2> QED
    BY <2>1, <2>2, <2>3, <2>4, <2>5, CountNone
<1>5. TellsOK(w, m)
  <2>1. Named(w, l, l.dying, l.dying) = Listed(w, l, l.dying, l.dying)
    BY <1>1 DEF Ordered, Symmetric
  <2>2. Count(<<>>, l.dying) = Count(w[l.dying].children, l.dying)
    BY <1>1, <2>1 DEF Named, Listed
  <2>3. l.dying \notin Range(w[l.dying].children)
    BY <1>1, <2>2, CountNone, EdgeTypes DEF Ordered
  <2>4. Range(w[l.dying].children) \subseteq DOMAIN w
    BY <1>1 DEF Ordered, Within
  <2> QED
    BY <1>3, <2>3, <2>4 DEF TellsOK
<1> QED
  BY <1>1, <1>3, <1>4, <1>5 DEF Ordered, CastOK, WantedOK, SearchOK

\* object_destroy(): the next child loses one of its parents.
LEMMA KidOrdered ==
  ASSUME NEW w, NEW l, Ordered(w, l), l.pc = "kids", l.kids # <<>>,
         NEW list, list = ListDelete(w[Head(l.kids)].parents, l.dying), list # <<>>,
         NEW t, t = WithParents(w, Head(l.kids), list),
         NEW m, m = [l EXCEPT !.kids = Tail(l.kids)]
  PROVE  Onward(w, t, m)
<1> DEFINE k == Head(l.kids)
<1>1. /\ l \in LoopState /\ l.kids \in Seq(Dbref) /\ Tail(l.kids) \in Seq(Dbref)
      /\ Range(l.kids) = {k} \cup Range(Tail(l.kids))
      /\ \A q : Count(l.kids, q) = (IF k = q THEN 1 ELSE 0) + Count(Tail(l.kids), q)
  BY LoopTypes, CountTail DEF Ordered
<1>2. /\ k \in DOMAIN w \ {l.dying} /\ l.dying \in DOMAIN w /\ l.me = EMPTY
      /\ l.dying \in Range(w[k].parents)
      /\ EMPTY \notin DOMAIN w
  BY <1>1, KidKnows, EmptyDbref DEF Ordered, CastOK, IsWorld
<1> HIDE DEF k
<1>3. w[k].parents \in Seq(Dbref) /\ Range(w[k].parents) \subseteq DOMAIN w
  BY <1>2, WorldTypes DEF Ordered, Within
<1>4. /\ list \in Seq(Dbref) /\ Range(list) \subseteq Range(w[k].parents)
      /\ \A q : Count(w[k].parents, q) = Count(list, q) + (IF l.dying = q THEN 1 ELSE 0)
  BY <1>2, <1>3, CountDelete DEF k
<1>5. /\ IsWorld(t) /\ DOMAIN t = DOMAIN w /\ Within(t) /\ Acyclic(t)
      /\ t[k].parents = list
      /\ \A e \in DOMAIN w : e # k => t[e].parents = w[e].parents
      /\ \A e \in DOMAIN w : t[e].children = w[e].children
      /\ Rooted(w) => Rooted(t)
  <2>1. IsWorld(w) /\ Within(w) /\ Acyclic(w) /\ k \in DOMAIN w /\ t = WithParents(w, k, list)
    BY <1>2 DEF Ordered, k
  <2>2. \A x \in Range(list) : x \in DOMAIN w /\ Apart(w, x, k)
    BY <1>3, <1>4, <2>1 DEF Acyclic, Up
  <2> QED
    <3>1. list \in Seq(Dbref) /\ list # <<>>
      BY <1>4
    <3> QED
      BY ONLY <2>1, <2>2, <3>1, ParentsChanged
<1>6. /\ m.pc = "kids" /\ m.kids = Tail(l.kids) /\ m.me = EMPTY /\ m.dying = l.dying
      /\ m \in LoopState
  BY <1>1, <1>2 DEF LoopState
<1>7. Symmetric(t, m)
  <2> SUFFICES ASSUME NEW d \in DOMAIN w, NEW q \in DOMAIN w
               PROVE  Named(t, m, d, q) = Listed(t, m, q, d)
    BY <1>5 DEF Symmetric
  <2>1. Named(w, l, d, q) = Listed(w, l, q, d)
    BY DEF Ordered, Symmetric
  <2>2. Named(w, l, d, q) = IF d = l.dying THEN 0 ELSE Count(w[d].parents, q)
    BY <1>2 DEF Named
  <2>3. Named(t, m, d, q) = IF d = l.dying THEN 0
                            ELSE IF d = k THEN Count(list, q) ELSE Count(w[d].parents, q)
    BY <1>2, <1>5, <1>6 DEF Named
  <2>4. Listed(w, l, q, d) = IF q = l.dying THEN Count(l.kids, d) ELSE Count(w[q].children, d)
    BY DEF Listed
  <2>5. Listed(t, m, q, d) = IF q = l.dying THEN Count(Tail(l.kids), d)
                             ELSE Count(w[q].children, d)
    <3>1. t[q].children = w[q].children
      BY <1>5
    <3>2. m.pc = "kids" /\ m.kids = Tail(l.kids) /\ m.dying = l.dying
      BY <1>6
    <3> QED
      BY ONLY <3>1, <3>2 DEF Listed
  <2>6. /\ Count(Tail(l.kids), d) \in Nat /\ Count(list, q) \in Nat
        /\ Count(w[d].parents, q) \in Nat /\ Count(w[q].children, d) \in Nat
    BY <1>1, <1>4, CountType, EdgeTypes DEF Ordered
  <2>7. /\ Count(l.kids, d) = (IF k = d THEN 1 ELSE 0) + Count(Tail(l.kids), d)
        /\ Count(w[k].parents, q) = Count(list, q) + (IF l.dying = q THEN 1 ELSE 0)
    BY <1>1, <1>4
  <2>8. /\ Count(l.kids, d) = IF d = k THEN Count(Tail(l.kids), d) + 1 ELSE Count(Tail(l.kids), d)
        /\ Count(w[k].parents, q) = IF q = l.dying THEN Count(list, q) + 1 ELSE Count(list, q)
    BY <2>6, <2>7
  <2>9. CASE d = k /\ q = l.dying
    <3>1. Count(list, q) + 1 = Count(Tail(l.kids), d) + 1
      BY <1>2, <2>1, <2>2, <2>4, <2>8, <2>9
    <3>2. Count(list, q) = Count(Tail(l.kids), d)
      BY <2>6, <3>1
    <3> QED
      BY <1>2, <2>3, <2>5, <2>9, <3>2
  <2>10. CASE d # k /\ q = l.dying
    BY <2>1, <2>2, <2>3, <2>4, <2>5, <2>8, <2>10
  <2>11. CASE d = k /\ q # l.dying
    BY <1>2, <2>1, <2>2, <2>3, <2>4, <2>5, <2>8, <2>11
  <2>12. CASE d # k /\ q # l.dying
    BY <2>1, <2>2, <2>3, <2>4, <2>5, <2>12
  <2> QED
    BY <2>9, <2>10, <2>11, <2>12
<1>8. TellsOK(t, m)
  BY <1>1, <1>5, <1>6 DEF Ordered, TellsOK
<1> QED
  BY <1>2, <1>5, <1>6, <1>7, <1>8 DEF Onward, Ordered, CastOK, WantedOK, SearchOK

\* object_destroy(): the next child, which has no parent left, inherits those of
\* the object, and they are to adopt it.
LEMMA InheritOrdered ==
  ASSUME NEW w, NEW l, Ordered(w, l), l.pc = "kids", l.kids # <<>>,
         l.dying # ROOT_DBREF,
         ListDelete(w[Head(l.kids)].parents, l.dying) = <<>>,
         NEW list, list = w[l.dying].parents,
         NEW t, t = WithParents(w, Head(l.kids), list),
         NEW m, m = [l EXCEPT !.pc = "adopt", !.me = Head(l.kids), !.todo = list,
                              !.kids = Tail(l.kids)]
  PROVE  Onward(w, t, m)
<1> DEFINE k == Head(l.kids)
           v == l.dying
<1>1. /\ l \in LoopState /\ l.kids \in Seq(Dbref) /\ Tail(l.kids) \in Seq(Dbref)
      /\ Range(l.kids) = {k} \cup Range(Tail(l.kids))
      /\ \A q : Count(l.kids, q) = (IF k = q THEN 1 ELSE 0) + Count(Tail(l.kids), q)
  BY LoopTypes, CountTail DEF Ordered
<1>2. /\ k \in DOMAIN w \ {v} /\ v \in DOMAIN w /\ l.me = EMPTY
      /\ v \in Range(w[k].parents)
      /\ EMPTY \notin DOMAIN w /\ DOMAIN w \subseteq Dbref
  BY <1>1, KidKnows, EmptyDbref DEF Ordered, CastOK, IsWorld
<1>3. \A q : Count(w[k].parents, q) = IF q = v THEN 1 ELSE 0
  <2> TAKE q
  <2>1. w[k].parents \in Seq(Dbref)
    BY <1>2, WorldTypes DEF Ordered
  <2>2. Count(w[k].parents, q) = Count(<<>>, q) + (IF v = q THEN 1 ELSE 0)
    BY <1>2, <2>1, CountDelete
  <2> QED
    BY <2>2, CountNone
<1>4. list \in Seq(Dbref) /\ \A x \in Range(list) : x \in DOMAIN w \ {v} /\ Apart(w, x, k)
  <2>1. list \in Seq(Dbref) /\ Range(list) \subseteq DOMAIN w /\ v \notin Range(list)
    BY <1>2, WorldTypes, NotOwnParent DEF Ordered, Within
  <2>2. PICK A \in SUBSET Dbref : Closed(w, A) /\ v \in A /\ k \notin A
    BY <1>2 DEF Ordered, Acyclic, Up, Apart
  <2>3. Range(list) \subseteq A
    BY <1>2, <2>2 DEF Closed, Up
  <2> QED
    BY <2>1, <2>2, <2>3 DEF Apart
<1>5. Rooted(w) /\ v # ROOT_DBREF => list # <<>>
  <2> SUFFICES ASSUME Rooted(w), list = <<>>
               PROVE  v = ROOT_DBREF
    OBVIOUS
  <2>1. Range(<<>>) = {}
    BY DEF Range
  <2>2. Up(w, v) = {}
    BY <1>2, <2>1 DEF Up
  <2>3. Closed(w, {v})
    BY <2>2 DEF Closed
  <2> QED
    BY <1>2, <2>3 DEF Rooted
<1>6. t = WithParents(w, k, list)
  OBVIOUS
<1>7. /\ m.pc = "adopt" /\ m.todo = list /\ m.kids = Tail(l.kids) /\ m.me = k /\ m.dying = v
      /\ m \in LoopState
  <2>1. k \in Dbref
    BY <1>2
  <2> QED
    BY <1>1, <1>4, <2>1 DEF LoopState, PC
<1> HIDE DEF k
<1>8. /\ IsWorld(t) /\ DOMAIN t = DOMAIN w /\ Within(t) /\ Acyclic(t)
      /\ t[k].parents = list
      /\ \A e \in DOMAIN w : e # k => t[e].parents = w[e].parents
      /\ \A e \in DOMAIN w : t[e].children = w[e].children
      /\ list # <<>> /\ Rooted(w) => Rooted(t)
  <2>1. IsWorld(w) /\ Within(w) /\ Acyclic(w) /\ k \in DOMAIN w
    BY <1>2 DEF Ordered
  <2>2. \A x \in Range(list) : x \in DOMAIN w /\ Apart(w, x, k)
    BY <1>4
  <2>3. list \in Seq(Dbref)
    BY <1>4
  <2> QED
    BY ONLY <1>6, <2>1, <2>2, <2>3, ParentsChanged
<1>9. Symmetric(t, m)
  <2> SUFFICES ASSUME NEW d \in DOMAIN w, NEW q \in DOMAIN w
               PROVE  Named(t, m, d, q) = Listed(t, m, q, d)
    BY <1>8 DEF Symmetric
  <2>1. Named(w, l, d, q) = Listed(w, l, q, d)
    BY DEF Ordered, Symmetric
  <2>2. Named(w, l, d, q) = IF d = v THEN 0 ELSE Count(w[d].parents, q)
    BY <1>2 DEF Named
  <2>3. Named(t, m, d, q) = IF d = k THEN Count(list, q) - Count(list, q)
                            ELSE IF d = v THEN 0 ELSE Count(w[d].parents, q)
    BY <1>2, <1>7, <1>8 DEF Named
  <2>4. Listed(w, l, q, d) = IF q = v THEN Count(l.kids, d) ELSE Count(w[q].children, d)
    BY DEF Listed
  <2>5. Listed(t, m, q, d) = IF q = v THEN Count(Tail(l.kids), d) ELSE Count(w[q].children, d)
    <3>1. t[q].children = w[q].children
      BY <1>8
    <3>2. m.pc = "adopt" /\ m.kids = Tail(l.kids) /\ m.dying = v
      BY <1>7
    <3> QED
      BY ONLY <3>1, <3>2 DEF Listed
  <2>6. Count(list, q) - Count(list, q) = 0 /\ Count(Tail(l.kids), d) \in Nat
    <3>1. Count(list, q) \in Nat /\ Count(Tail(l.kids), d) \in Nat
      BY ONLY <1>1, <1>4, CountType
    <3> QED
      BY <3>1
  <2>7. Count(l.kids, d) = IF d = k THEN Count(Tail(l.kids), d) + 1 ELSE Count(Tail(l.kids), d)
    <3>1. Count(l.kids, d) = (IF k = d THEN 1 ELSE 0) + Count(Tail(l.kids), d)
      BY <1>1
    <3> QED
      BY <2>6, <3>1
  <2>8. CASE d = k /\ q = v
    <3>1. Count(Tail(l.kids), d) + 1 = 1
      BY <1>2, <1>3, <2>1, <2>2, <2>4, <2>7, <2>8
    <3>2. Count(Tail(l.kids), d) = 0
      BY <2>6, <3>1
    <3> QED
      BY <2>3, <2>5, <2>6, <2>8, <3>2
  <2>9. CASE d = k /\ q # v
    <3>1. Count(w[q].children, d) = 0
      BY <1>2, <1>3, <2>1, <2>2, <2>4, <2>9
    <3> QED
      BY <2>3, <2>5, <2>6, <2>9, <3>1
  <2>10. CASE d # k
    BY <2>1, <2>2, <2>3, <2>4, <2>5, <2>7, <2>10
  <2> QED
    BY <2>8, <2>9, <2>10
<1>10. TellsOK(t, m)
  <2>1. Range(Tail(l.kids)) \subseteq DOMAIN w \ {v}
    BY <1>1, <1>2 DEF Ordered, TellsOK
  <2> QED
    BY <1>4, <1>7, <1>8, <2>1 DEF TellsOK
<1> QED
  BY <1>2, <1>5, <1>7, <1>8, <1>9, <1>10 DEF Onward, Ordered, CastOK, WantedOK, SearchOK

\* "adopt" ends and nothing is being destroyed.
LEMMA AdoptedOrdered ==
  ASSUME NEW w, NEW l, Ordered(w, l), l.pc = "adopt", l.todo = <<>>, l.dying = EMPTY,
         NEW m \in LoopState, m.pc = "idle", m.dying = EMPTY
  PROVE  Ordered(w, m)
<1>1. EMPTY \notin DOMAIN w
  BY EmptyDbref DEF Ordered, IsWorld
<1>2. Symmetric(w, m)
  <2> SUFFICES ASSUME NEW d \in DOMAIN w, NEW q \in DOMAIN w
               PROVE  Named(w, m, d, q) = Listed(w, m, q, d)
    BY DEF Symmetric
  <2>1. Named(w, l, d, q) = Listed(w, l, q, d)
    BY DEF Ordered, Symmetric
  <2>2. Named(w, l, d, q) = IF d = l.me THEN Count(w[d].parents, q) - 0 ELSE Count(w[d].parents, q)
    BY <1>1, CountNone DEF Named
  <2>3. Named(w, m, d, q) = Count(w[d].parents, q) /\ Count(w[d].parents, q) \in Nat
    BY EdgeTypes DEF Named, Ordered
  <2>4. Listed(w, l, q, d) = Count(w[q].children, d) /\ Listed(w, m, q, d) = Count(w[q].children, d)
    BY <1>1 DEF Listed
  <2>5. Count(w[d].parents, q) - 0 = Count(w[d].parents, q)
    BY <2>3
  <2>6. Named(w, l, d, q) = Count(w[d].parents, q)
    BY <2>2, <2>5
  <2> QED
    BY <2>1, <2>3, <2>4, <2>6
<1> QED
  BY <1>2 DEF Ordered, CastOK, TellsOK, WantedOK, SearchOK

\* "adopt" ends for a child of the object being destroyed.
LEMMA KidAdoptedOrdered ==
  ASSUME NEW w, NEW l, Ordered(w, l), l.pc = "adopt", l.todo = <<>>, l.dying # EMPTY,
         NEW m, m = [l EXCEPT !.pc = "kids", !.me = EMPTY]
  PROVE  Ordered(w, m)
<1>1. l \in LoopState /\ EMPTY \notin DOMAIN w
  BY EmptyDbref DEF Ordered, IsWorld
<1>2. /\ m.pc = "kids" /\ m.me = EMPTY /\ m.dying = l.dying /\ m.kids = l.kids
      /\ m \in LoopState
  BY <1>1 DEF LoopState, PC
<1>3. Symmetric(w, m)
  <2> SUFFICES ASSUME NEW d \in DOMAIN w, NEW q \in DOMAIN w
               PROVE  Named(w, m, d, q) = Listed(w, m, q, d)
    BY DEF Symmetric
  <2>1. Named(w, l, d, q) = Listed(w, l, q, d)
    BY DEF Ordered, Symmetric
  <2>2. Named(w, l, d, q) = IF d = l.me THEN Count(w[d].parents, q) - 0
                            ELSE IF d = l.dying THEN 0 ELSE Count(w[d].parents, q)
    BY CountNone DEF Named
  <2>3. /\ Named(w, m, d, q) = IF d = l.dying THEN 0 ELSE Count(w[d].parents, q)
        /\ Count(w[d].parents, q) \in Nat
    BY <1>2, EdgeTypes DEF Named, Ordered
  <2>4. Listed(w, m, q, d) = Listed(w, l, q, d)
    BY <1>2 DEF Listed
  <2>5. l.me # l.dying
    BY DEF Ordered, CastOK
  <2>6. CASE d = l.dying
    BY <2>1, <2>2, <2>3, <2>4, <2>5, <2>6
  <2>7. CASE d # l.dying
    BY <2>1, <2>2, <2>3, <2>4, <2>7
  <2> QED
    BY <2>6, <2>7
<1> QED
  BY <1>2, <1>3 DEF Ordered, CastOK, TellsOK, WantedOK, SearchOK

\* object_destroy() is done: nobody names the object.
LEMMA BuriedOrdered ==
  ASSUME NEW w, NEW l, Ordered(w, l), l.pc = "kids", l.kids = <<>>,
         NEW t, t = WithoutObject(w, l.dying),
         NEW m \in LoopState, m.pc = "idle", m.me = EMPTY, m.dying = EMPTY
  PROVE  Ordered(t, m) /\ (Rooted(w) => Rooted(t))
<1> DEFINE v == l.dying
<1>1. v \in DOMAIN w /\ v # EMPTY
  BY DEF Ordered, CastOK
<1>2. \A d, q \in DOMAIN w :
        /\ Named(w, l, d, q) = IF d = v THEN 0 ELSE Count(w[d].parents, q)
        /\ Listed(w, l, q, d) = IF q = v THEN 0 ELSE Count(w[q].children, d)
  BY CountNone DEF Named, Listed, Ordered, CastOK
<1>3. \A d, q \in DOMAIN w : Named(w, l, d, q) = Listed(w, l, q, d)
  BY DEF Ordered, Symmetric
<1>4. \A d \in DOMAIN w \ {v} : v \notin Range(w[d].parents) \cup Range(w[d].children)
  <2> TAKE d \in DOMAIN w \ {v}
  <2>1. Count(w[d].parents, v) = 0
    BY <1>1, <1>2, <1>3
  <2>2. Count(w[d].children, v) = 0
    BY <1>1, <1>2, <1>3
  <2> QED
    BY <2>1, <2>2, EdgeTypes DEF Ordered
<1>5. IsWorld(t) /\ Within(t) /\ Acyclic(t) /\ (Rooted(w) => Rooted(t))
  <2>1. IsWorld(w) /\ Within(w) /\ Acyclic(w)
    BY DEF Ordered
  <2> QED
    BY ONLY <1>4, <2>1, Removed, t = WithoutObject(w, v)
<1>6. Symmetric(t, m)
  <2> SUFFICES ASSUME NEW d \in DOMAIN w \ {v}, NEW q \in DOMAIN w \ {v}
               PROVE  Named(t, m, d, q) = Listed(t, m, q, d)
    BY DEF Symmetric, WithoutObject
  <2>1. Named(t, m, d, q) = Count(w[d].parents, q) /\ Listed(t, m, q, d) = Count(w[q].children, d)
    BY DEF Named, Listed, WithoutObject
  <2>2. Named(w, l, d, q) = Count(w[d].parents, q) /\ Listed(w, l, q, d) = Count(w[q].children, d)
    BY <1>2
  <2>3. Named(w, l, d, q) = Listed(w, l, q, d)
    BY <1>3
  <2> QED
    BY <2>1, <2>2, <2>3
<1> QED
  BY <1>5, <1>6 DEF Ordered, CastOK, TellsOK, WantedOK, SearchOK

\* The last reference to a destroyed object goes.
LEMMA DeathOrdered ==
  ASSUME NEW w, NEW l, Ordered(w, l), l.pc = "idle",
         NEW m \in LoopState, m.pc = "leave", m.me = EMPTY, m.dying \in DOMAIN w,
         m.todo = w[m.dying].parents
  PROVE  Ordered(w, m)
<1>1. EMPTY \notin DOMAIN w
  BY EmptyDbref DEF Ordered, IsWorld
<1>2. Symmetric(w, m)
  <2> SUFFICES ASSUME NEW d \in DOMAIN w, NEW q \in DOMAIN w
               PROVE  Named(w, m, d, q) = Listed(w, m, q, d)
    BY DEF Symmetric
  <2>1. Named(w, l, d, q) = Listed(w, l, q, d)
    BY DEF Ordered, Symmetric
  <2>2. Named(w, l, d, q) = Count(w[d].parents, q) /\ Named(w, m, d, q) = Count(w[d].parents, q)
    BY <1>1 DEF Named
  <2>3. Listed(w, l, q, d) = Listed(w, m, q, d)
    BY DEF Listed
  <2> QED
    BY <2>1, <2>2, <2>3
<1>3. TellsOK(w, m)
  <2>1. m.dying \notin Range(w[m.dying].parents)
    BY NotOwnParent
  <2> QED
    BY <2>1 DEF TellsOK, Ordered, Within
<1> QED
  BY <1>1, <1>2, <1>3 DEF Ordered, CastOK, WantedOK, SearchOK

\* create(): its parents are to adopt the new object.
LEMMA CreateOrdered ==
  ASSUME NEW w, NEW l, Ordered(w, l), l.pc = "idle",
         NEW n \in Dbref, n \notin DOMAIN w,
         NEW list \in Seq(Dbref), Range(list) \subseteq DOMAIN w,
         NEW t, t = WithObject(w, n, list),
         NEW m \in LoopState, m.pc = "adopt", m.me = n, m.dying = EMPTY, m.todo = list
  PROVE  Ordered(t, m) /\ (list # <<>> /\ Rooted(w) => Rooted(t))
<1>1. /\ IsWorld(t) /\ Within(t) /\ Acyclic(t)
      /\ list # <<>> /\ Rooted(w) => Rooted(t)
  <2>1. IsWorld(w) /\ Within(w) /\ Acyclic(w)
    BY DEF Ordered
  <2> QED
    BY ONLY <2>1, Added, n \in Dbref, n \notin DOMAIN w, list \in Seq(Dbref),
       Range(list) \subseteq DOMAIN w, t = WithObject(w, n, list)
<1>2. /\ EMPTY \notin DOMAIN t /\ n # EMPTY
      /\ DOMAIN t = DOMAIN w \cup {n}
      /\ t[n].parents = list /\ t[n].children = <<>>
      /\ \A d \in DOMAIN w : t[d] = w[d]
  BY <1>1, EmptyDbref DEF IsWorld, WithObject
<1>3. \A d, q \in DOMAIN w : Count(w[d].parents, q) = Count(w[q].children, d)
  <2> TAKE d, q \in DOMAIN w
  <2>1. Named(w, l, d, q) = Listed(w, l, q, d)
    BY DEF Ordered, Symmetric
  <2> QED
    BY <2>1 DEF Named, Listed
<1>4. \A d \in DOMAIN w : Count(w[d].parents, n) = 0 /\ Count(w[d].children, n) = 0
  <2> TAKE d \in DOMAIN w
  <2>1. n \notin Range(w[d].parents) /\ n \notin Range(w[d].children)
    BY DEF Ordered, Within
  <2> QED
    BY <2>1, EdgeTypes DEF Ordered
<1>5. Symmetric(t, m)
  <2> SUFFICES ASSUME NEW d \in DOMAIN t, NEW q \in DOMAIN t
               PROVE  Named(t, m, d, q) = Listed(t, m, q, d)
    BY DEF Symmetric
  <2>1. Named(t, m, d, q) = IF d = n THEN Count(list, q) - Count(list, q) ELSE Count(w[d].parents, q)
    BY <1>2 DEF Named
  <2>2. Listed(t, m, q, d) = IF q = n THEN Count(<<>>, d) ELSE Count(w[q].children, d)
    BY <1>2 DEF Listed
  <2>3. Count(list, q) - Count(list, q) = 0 /\ Count(<<>>, d) = 0
    BY CountNone, CountType
  <2>4. CASE d = n
    BY <1>2, <1>4, <2>1, <2>2, <2>3, <2>4
  <2>5. CASE d # n /\ q = n
    BY <1>2, <1>4, <2>1, <2>2, <2>3, <2>5
  <2>6. CASE d # n /\ q # n
    BY <1>2, <1>3, <2>1, <2>2, <2>6
  <2> QED
    BY <2>4, <2>5, <2>6
<1>6. TellsOK(t, m)
  BY <1>2, EmptyDbref DEF TellsOK
<1> QED
  BY <1>1, <1>2, <1>5, <1>6 DEF Ordered, CastOK, WantedOK, SearchOK

=============================================================================

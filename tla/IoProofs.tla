------------------------------ MODULE IoProofs ------------------------------
(***************************************************************************)
(* Theorems about Io: for every number of descriptors, every set of ports  *)
(* and handlers and every bound on output and calls.                       *)
(*                                                                         *)
(* The safety properties follow from one inductive invariant, IInv.  What  *)
(* makes it inductive beyond the properties themselves is where the loop   *)
(* is: which records a walk may still visit (TodoOK), that the buffer of a *)
(* connection is what it is owed (OwedOK), and how far a pending           *)
(* connection has come at each place of the loop (PendingsOK).  The proof  *)
(* that a step keeps IInv has a lemma for each action and a step for each  *)
(* conjunct.                                                               *)
(***************************************************************************)
EXTENDS Io, SequenceTheorems, WellFoundedInduction, TLAPS

---------------------------------------------------------------------------
(* Lists                                                                   *)

\* A set of numbers has a least element.
LEMMA LeastOf ==
  ASSUME NEW B \in SUBSET Nat, B # {}
  PROVE  \E m \in B : \A k \in B : m <= k
<1> DEFINE R == OpToRel(<, Nat)
<1>1. IsWellFoundedOn(R, Nat)
  BY NatLessThanWellFounded
<1>2. PICK m \in B : \A k \in B : ~ (<<k, m>> \in R)
  <2> HIDE DEF R
  <2> QED  BY <1>1, WFMin
<1>3. \A k \in B : m <= k
  <2> TAKE k \in B
  <2>1. <<k, m>> \in Nat \X Nat /\ <<k, m>> \notin R
    BY <1>2
  <2>2. ~(k < m)
    BY <2>1 DEF OpToRel
  <2> QED  BY <2>2
<1> QED  BY <1>3

\* The least descriptor that is not in a set.
LEMMA MinOf ==
  ASSUME NEW B \in SUBSET Nat, B # {}
  PROVE  Min(B) \in B
BY LeastOf DEF Min

\* What Kept computes: after n records, f[n].
Rest(s, X, f, i) ==
  IF i = 0 THEN <<>>
  ELSE IF s[i] \in X THEN Append(f[i - 1], s[i]) ELSE f[i - 1]
Computes(s, X, n, f) == f = [i \in 0 .. n |-> Rest(s, X, f, i)]

\* There is such a function, for every list.
LEMMA KeptExists ==
  ASSUME NEW S, NEW s \in Seq(S), NEW X, NEW n \in 0 .. Len(s)
  PROVE  \E f : Computes(s, X, n, f)
<1> DEFINE Bad == {k \in 0 .. Len(s) : ~\E f : Computes(s, X, k, f)}
<1> SUFFICES ASSUME Bad # {} PROVE FALSE
  OBVIOUS
<1>1. PICK m \in Bad : \A k \in Bad : m <= k
  <2>1. Bad \in SUBSET Nat
    OBVIOUS
  <2> HIDE DEF Bad
  <2> QED  BY <2>1, LeastOf
<1>2. m \in 0 .. Len(s) /\ ~\E f : Computes(s, X, m, f)
  OBVIOUS
<1>3. CASE m = 0
  <2> DEFINE f == [i \in 0 .. 0 |-> <<>>]
  <2>1. f = [i \in 0 .. 0 |-> Rest(s, X, f, i)]
    <3> HIDE DEF f
    <3>1. \A i \in 0 .. 0 : Rest(s, X, f, i) = <<>>
      BY DEF Rest
    <3> QED  BY <3>1 DEF f
  <2>2. Computes(s, X, 0, f)
    BY <2>1 DEF Computes
  <2> HIDE DEF f
  <2> QED  BY <1>2, <1>3, <2>2
<1>4. CASE m # 0
  <2>1. m - 1 \in 0 .. Len(s) /\ ~(m <= m - 1)
    BY <1>2, <1>4
  <2>2. m - 1 \notin Bad
    <3> HIDE DEF Bad
    <3> QED  BY <1>1, <2>1
  <2>3. PICK f : Computes(s, X, m - 1, f)
    BY <2>1, <2>2
  <2> DEFINE g == [i \in 0 .. m |-> Rest(s, X, f, i)]
  <2>4. \A i \in 0 .. m - 1 : g[i] = f[i]
    <3>1. \A i \in 0 .. m - 1 : f[i] = Rest(s, X, f, i)
      BY <2>3 DEF Computes
    <3>2. \A i \in 0 .. m - 1 : i \in 0 .. m
      BY <1>2
    <3> QED  BY <3>1, <3>2
  <2>5. \A i \in 0 .. m : i = 0 \/ i - 1 \in 0 .. m - 1
    BY <1>2
  <2>6. \A i \in 0 .. m : Rest(s, X, f, i) = Rest(s, X, g, i)
    <3> HIDE DEF g
    <3> QED  BY <2>4, <2>5 DEF Rest
  <2>7. g = [i \in 0 .. m |-> Rest(s, X, g, i)]
    <3> DEFINE h == g
    <3>1. \A i \in 0 .. m : Rest(s, X, f, i) = Rest(s, X, h, i)
      BY <2>6
    <3> HIDE DEF h
    <3>2. g = [i \in 0 .. m |-> Rest(s, X, h, i)]
      BY <3>1
    <3> QED  BY <3>2 DEF h
  <2>8. Computes(s, X, m, g)
    BY <2>7 DEF Computes
  <2> HIDE DEF g
  <2> QED  BY <1>2, <2>8
<1> QED  BY <1>3, <1>4

\* What Kept leaves: the records of the list that are in X, each once if the
\* list has each once.
LEMMA KeptProperties ==
  ASSUME NEW S, NEW s \in Seq(S), NEW X
  PROVE  /\ Kept(s, X) \in Seq(S)
         /\ ToSet(Kept(s, X)) = ToSet(s) \cap X
         /\ IsInjective(s) => IsInjective(Kept(s, X))
<1> DEFINE F == CHOOSE f : Computes(s, X, Len(s), f)
<1>1. Computes(s, X, Len(s), F)
  <2>1. Len(s) \in 0 .. Len(s)
    OBVIOUS
  <2>2. \E f : Computes(s, X, Len(s), f)
    BY <2>1, KeptExists
  <2> QED  BY <2>2
<1>2. Kept(s, X) = F[Len(s)]
  BY DEF Kept, Computes, Rest
<1> HIDE DEF F
<1>3. /\ F[0] = <<>>
      /\ \A i \in 1 .. Len(s) :
           F[i] = IF s[i] \in X THEN Append(F[i - 1], s[i]) ELSE F[i - 1]
  <2>1. \A i \in 0 .. Len(s) : F[i] = Rest(s, X, F, i)
    BY <1>1 DEF Computes
  <2>2. Len(s) \in Nat
    OBVIOUS
  <2>3. 0 \in 0 .. Len(s) /\ \A i \in 1 .. Len(s) : i \in 0 .. Len(s) /\ i # 0
    BY <2>2
  <2> QED  BY <2>1, <2>3 DEF Rest
<1> DEFINE First(i) == {s[j] : j \in 1 .. i}
           Good(i) == /\ F[i] \in Seq(S)
                      /\ ToSet(F[i]) = First(i) \cap X
                      /\ IsInjective(s) => IsInjective(F[i])
           Bad == {i \in 0 .. Len(s) : ~Good(i)}
<1>4. Len(s) \in Nat /\ DOMAIN s = 1 .. Len(s) /\ \A i \in 1 .. Len(s) : s[i] \in S
  OBVIOUS
<1>5. Good(0)
  <2>1. F[0] \in Seq(S) /\ F[0] = <<>>
    BY <1>3
  <2>2. ToSet(F[0]) = {} /\ IsInjective(F[0])
    BY <2>1 DEF ToSet, IsInjective
  <2>3. First(0) = {}
    OBVIOUS
  <2> QED  BY <2>1, <2>2, <2>3
<1>6. ASSUME NEW i \in 1 .. Len(s), Good(i - 1)
      PROVE  Good(i)
  <2> DEFINE g == F[i - 1]
  <2>1. First(i) = First(i - 1) \cup {s[i]}
    <3>1. \A j \in 1 .. i : j \in 1 .. i - 1 \/ j = i
      OBVIOUS
    <3>2. \A j \in 1 .. i - 1 : j \in 1 .. i
      OBVIOUS
    <3> QED  BY <3>1, <3>2
  <2>2. IsInjective(s) => s[i] \notin First(i - 1)
    BY <1>4 DEF IsInjective
  <2>3. CASE s[i] \notin X
    <3>1. F[i] = g
      BY <1>3, <2>3
    <3> QED  BY <1>6, <2>1, <2>3, <3>1
  <2>4. CASE s[i] \in X
    <3>1. F[i] = Append(g, s[i])
      BY <1>3, <2>4
    <3>2. g \in Seq(S) /\ s[i] \in S
      BY <1>4, <1>6
    <3> HIDE DEF g
    <3>3. /\ Append(g, s[i]) \in Seq(S)
          /\ Len(Append(g, s[i])) = Len(g) + 1
          /\ \A k \in 1 .. Len(g) : Append(g, s[i])[k] = g[k]
          /\ Append(g, s[i])[Len(g) + 1] = s[i]
      BY <3>2, AppendProperties
    <3>4. Len(g) \in Nat /\ DOMAIN g = 1 .. Len(g)
          /\ DOMAIN Append(g, s[i]) = 1 .. Len(g) + 1
      BY <3>2, <3>3
    <3>5. ToSet(Append(g, s[i])) = ToSet(g) \cup {s[i]}
      <4>1. \A k \in 1 .. Len(g) + 1 : k \in 1 .. Len(g) \/ k = Len(g) + 1
        BY <3>4
      <4>2. \A k \in 1 .. Len(g) : k \in 1 .. Len(g) + 1
        BY <3>4
      <4>3. Len(g) + 1 \in 1 .. Len(g) + 1
        BY <3>4
      <4> QED  BY <3>3, <3>4, <4>1, <4>2, <4>3 DEF ToSet
    <3>6. ASSUME IsInjective(g), s[i] \notin ToSet(g)
          PROVE  IsInjective(Append(g, s[i]))
      <4> SUFFICES ASSUME NEW a \in 1 .. Len(g) + 1, NEW b \in 1 .. Len(g) + 1,
                          Append(g, s[i])[a] = Append(g, s[i])[b]
                   PROVE  a = b
        BY <3>4 DEF IsInjective
      <4>1. a \in 1 .. Len(g) \/ a = Len(g) + 1
        BY <3>4
      <4>2. b \in 1 .. Len(g) \/ b = Len(g) + 1
        BY <3>4
      <4>3. \A k \in 1 .. Len(g) : g[k] # s[i]
        BY <3>4, <3>6 DEF ToSet
      <4> QED  BY <3>3, <3>4, <3>6, <4>1, <4>2, <4>3 DEF IsInjective
    <3>7. ToSet(g) = First(i - 1) \cap X /\ (IsInjective(s) => IsInjective(g))
      BY <1>6 DEF g
    <3>8. F[i] \in Seq(S) /\ ToSet(F[i]) = First(i) \cap X
      BY <2>1, <2>4, <3>1, <3>3, <3>5, <3>7
    <3> QED  BY <2>2, <3>1, <3>6, <3>7, <3>8
  <2> QED  BY <2>3, <2>4
<1>7. Bad = {}
  <2> SUFFICES ASSUME Bad # {} PROVE FALSE
    OBVIOUS
  <2>1. PICK m \in Bad : \A k \in Bad : m <= k
    <3>1. Bad \in SUBSET Nat
      BY <1>4
    <3> HIDE DEF Bad
    <3> QED  BY <3>1, LeastOf
  <2>2. m \in 0 .. Len(s) /\ ~Good(m)
    OBVIOUS
  <2>3. m # 0
    BY <1>5, <2>2
  <2>4. m \in 1 .. Len(s) /\ m - 1 \in 0 .. Len(s) /\ ~(m <= m - 1)
    BY <1>4, <2>2, <2>3
  <2>5. Good(m - 1)
    BY <2>1, <2>4
  <2> QED  BY <1>6, <2>2, <2>4, <2>5
<1>8. Good(Len(s))
  <2>1. Len(s) \in 0 .. Len(s)
    BY <1>4
  <2> HIDE DEF Good
  <2> QED  BY <1>7, <2>1
<1>9. First(Len(s)) = ToSet(s)
  BY <1>4 DEF ToSet
<1> QED  BY <1>2, <1>8, <1>9

\* A record added at the head of a list
LEMMA AddedProperties ==
  ASSUME NEW S, NEW s \in Seq(S), NEW x \in S
  PROVE  /\ <<x>> \o s \in Seq(S)
         /\ ToSet(<<x>> \o s) = ToSet(s) \cup {x}
         /\ IsInjective(s) /\ x \notin ToSet(s) => IsInjective(<<x>> \o s)
<1> DEFINE t == <<x>> \o s
<1>1. /\ t \in Seq(S) /\ Len(t) = Len(s) + 1 /\ Len(s) \in Nat
      /\ t[1] = x
      /\ \A k \in 2 .. Len(s) + 1 : t[k] = s[k - 1]
  <2>1. <<x>> \in Seq(S) /\ Len(<<x>>) = 1 /\ <<x>>[1] = x
    OBVIOUS
  <2> QED  BY <2>1, ConcatProperties
<1>2. DOMAIN t = 1 .. Len(s) + 1 /\ DOMAIN s = 1 .. Len(s)
  BY <1>1
<1> HIDE DEF t
<1>3. \A k \in 1 .. Len(s) + 1 : k = 1 \/ (k \in 2 .. Len(s) + 1 /\ k - 1 \in 1 .. Len(s))
  BY <1>1
<1>4. \A k \in 1 .. Len(s) : k + 1 \in 2 .. Len(s) + 1 /\ k + 1 - 1 = k
  BY <1>1
<1>5. ToSet(t) = ToSet(s) \cup {x}
  <2>1. 1 \in 1 .. Len(s) + 1
    BY <1>1
  <2>2. \A k \in 1 .. Len(s) : k + 1 \in 1 .. Len(s) + 1 /\ t[k + 1] = s[k]
    BY <1>1, <1>4
  <2> QED  BY <1>1, <1>2, <1>3, <2>1, <2>2 DEF ToSet
<1>6. ASSUME IsInjective(s), x \notin ToSet(s)
      PROVE  IsInjective(t)
  <2> SUFFICES ASSUME NEW a \in 1 .. Len(s) + 1, NEW b \in 1 .. Len(s) + 1,
                      t[a] = t[b]
               PROVE  a = b
    BY <1>2 DEF IsInjective
  <2>1. \A k \in 1 .. Len(s) : s[k] # x
    BY <1>2, <1>6 DEF ToSet
  <2>2. \A k, l \in 1 .. Len(s) : s[k] = s[l] => k = l
    BY <1>2, <1>6 DEF IsInjective
  <2>3. CASE a = 1
    BY <1>1, <1>3, <2>1, <2>3
  <2>4. CASE b = 1
    BY <1>1, <1>3, <2>1, <2>4
  <2>5. CASE a # 1 /\ b # 1
    <3>1. a - 1 \in 1 .. Len(s) /\ b - 1 \in 1 .. Len(s) /\ s[a - 1] = s[b - 1]
      BY <1>1, <1>3, <2>5
    <3>2. a - 1 = b - 1
      BY <2>2, <3>1
    <3> QED  BY <3>2
  <2> QED  BY <2>3, <2>4, <2>5
<1> QED  BY <1>1, <1>5, <1>6 DEF t

\* What a walk has still to visit
LEMMA TailProperties ==
  ASSUME NEW S, NEW s \in Seq(S), s # <<>>
  PROVE  /\ Head(s) \in S /\ Head(s) \in ToSet(s)
         /\ Tail(s) \in Seq(S)
         /\ ToSet(s) = ToSet(Tail(s)) \cup {Head(s)}
         /\ IsInjective(s) => IsInjective(Tail(s)) /\ Head(s) \notin ToSet(Tail(s))
<1> DEFINE t == Tail(s)
<1>1. /\ Head(s) = s[1] /\ t \in Seq(S) /\ Len(s) \in Nat /\ Len(s) >= 1
      /\ Len(t) = Len(s) - 1
      /\ \A k \in 1 .. Len(t) : t[k] = s[k + 1]
  BY HeadTailProperties, EmptySeq
<1>2. DOMAIN t = 1 .. Len(s) - 1 /\ DOMAIN s = 1 .. Len(s)
  BY <1>1
<1> HIDE DEF t
<1>3. 1 \in 1 .. Len(s)
  BY <1>1
<1>4. \A k \in 1 .. Len(s) - 1 : k + 1 \in 1 .. Len(s) /\ t[k] = s[k + 1] /\ k + 1 # 1
  BY <1>1
<1>5. \A k \in 1 .. Len(s) : k = 1 \/ (k - 1 \in 1 .. Len(s) - 1 /\ t[k - 1] = s[k])
  BY <1>1
<1>6. Head(s) \in S /\ Head(s) \in ToSet(s)
  BY <1>1, <1>2, <1>3 DEF ToSet
<1>7. ToSet(s) = ToSet(t) \cup {Head(s)}
  <2>1. \A k \in 1 .. Len(s) : s[k] \in {t[l] : l \in 1 .. Len(s) - 1} \cup {s[1]}
    BY <1>5
  <2>2. \A k \in 1 .. Len(s) - 1 : t[k] \in {s[l] : l \in 1 .. Len(s)}
    BY <1>4
  <2>3. ToSet(s) = {s[l] : l \in 1 .. Len(s)}
        /\ ToSet(t) = {t[l] : l \in 1 .. Len(s) - 1}
    BY <1>2 DEF ToSet
  <2>4. s[1] \in ToSet(s)
    BY <1>3, <2>3
  <2>5. ToSet(s) \subseteq ToSet(t) \cup {s[1]}
    BY <2>1, <2>3
  <2>6. ToSet(t) \subseteq ToSet(s)
    BY <2>2, <2>3
  <2> QED  BY <1>1, <2>4, <2>5, <2>6
<1>8. ASSUME IsInjective(s)
      PROVE  IsInjective(t) /\ Head(s) \notin ToSet(t)
  <2>1. \A k, l \in 1 .. Len(s) : s[k] = s[l] => k = l
    BY <1>2, <1>8 DEF IsInjective
  <2>2. \A k, l \in 1 .. Len(s) - 1 : t[k] = t[l] => k = l
    <3> TAKE k, l \in 1 .. Len(s) - 1
    <3> HAVE t[k] = t[l]
    <3>1. k + 1 = l + 1
      BY <1>4, <2>1
    <3> QED  BY <3>1
  <2>3. \A k \in 1 .. Len(s) - 1 : t[k] # s[1]
    BY <1>3, <1>4, <2>1
  <2> QED  BY <1>1, <1>2, <2>2, <2>3 DEF IsInjective, ToSet
<1> QED  BY <1>1, <1>6, <1>7, <1>8 DEF t

\* The empty list
LEMMA EmptyList ==
  ASSUME NEW S
  PROVE  <<>> \in Seq(S) /\ ToSet(<<>>) = {} /\ IsInjective(<<>>)
BY DEF ToSet, IsInjective
---------------------------------------------------------------------------
(* The inductive invariant                                                 *)

\* Where the loop is, or will be when the task ends
Where == IF pc = "task" THEN task.ret ELSE pc

\* The conjuncts of TypeOK, by what changes together
ListsType ==
  /\ connections \in Seq(Fd) /\ IsInjective(connections)
  /\ servers \in Seq(Fd) /\ IsInjective(servers)
  /\ pendings \in Seq(Fd) /\ IsInjective(pendings)
  /\ open \subseteq Fd
ConnType == conn \in [Fd -> Conn] /\ owed \in [Fd -> 0 .. MaxOutput]
ServerType == server \in [Fd -> Server]
PendType == pend \in [Fd -> Pending]
LoopType ==
  /\ running \in BOOLEAN /\ heartbeat_freq \in BOOLEAN
  /\ pc \in Pc
  /\ todo \in Seq(Fd)
  /\ task \in [calls : 0 .. MaxCalls, ret : Pc]
  /\ cur_conn \in Fd \cup {NoFd}

\* DescriptorsOwned, record by record
Owned ==
  /\ ToSet(connections) \cup ToSet(servers) \subseteq open
  /\ ToSet(connections) \cap ToSet(servers) = {}
  /\ \A s \in ToSet(servers) : server[s].client_socket # NoFd =>
       server[s].client_socket \in open \ (ToSet(connections) \cup ToSet(servers))
  /\ \A p \in ToSet(pendings) : ~pend[p].handled =>
       pend[p].fd \in open \ (ToSet(connections) \cup ToSet(servers))
  /\ \A s \in ToSet(servers), p \in ToSet(pendings) :
       server[s].client_socket # NoFd /\ ~pend[p].handled =>
         server[s].client_socket # pend[p].fd
  /\ \A s, t \in ToSet(servers) :
       server[s].client_socket # NoFd
         /\ server[s].client_socket = server[t].client_socket => s = t
  /\ \A p, q \in ToSet(pendings) :
       ~pend[p].handled /\ ~pend[q].handled /\ pend[p].fd = pend[q].fd => p = q
  /\ Where = "close" =>
       /\ Head(todo) \in open \ (ToSet(connections) \cup ToSet(servers))
       /\ \A s \in ToSet(servers) : server[s].client_socket # NoFd =>
            server[s].client_socket # Head(todo)
       /\ \A p \in ToSet(pendings) : ~pend[p].handled => pend[p].fd # Head(todo)

\* CurConnLives
CurOK ==
  pc = "task" /\ cur_conn # NoFd =>
    \/ cur_conn \in ToSet(connections)
    \/ Where = "close" /\ cur_conn = Head(todo)

\* What a walk has still to visit is in the list it walks, each record once.
TodoOK ==
  /\ IsInjective(todo)
  /\ pc = "task" => Where \in {"top", "close", "write", "servers", "pends"}
  /\ Where \in {"flush", "conns", "write"} =>
       ToSet(todo) \subseteq ToSet(connections)
  /\ Where = "servers" => ToSet(todo) \subseteq ToSet(servers)
  /\ Where = "pends" => ToSet(todo) \subseteq ToSet(pendings)
  /\ Where \in {"close", "write"} => todo # <<>>
  /\ Where = "close" => /\ Head(todo) \notin ToSet(connections)
                        /\ ToSet(Tail(todo)) \subseteq ToSet(connections)

\* What is owed to a connection is in its buffer, until the process ends.
OwedOK ==
  pc # "exited" => \A c \in ToSet(connections) : owed[c] = conn[c].output

\* The life of a pending connection: under way, finished, handled and answered,
\* and which of them the loop can have left behind where it is.
PendingsOK ==
  \A p \in ToSet(pendings) :
    /\ pend[p].failed /\ ~pend[p].finished => pend[p].atonce
    /\ pend[p].handled =>
         /\ pend[p].finished
         /\ Where \in {"pends", "beat", "top", "flush", "close", "exited"}
         /\ Where = "pends" => p \notin ToSet(todo)
    /\ pend[p].finished /\ ~pend[p].atonce =>
         \/ pend[p].answered
         \/ Where \in {"conns", "write", "servers"}
         \/ Where = "pends" /\ p \in ToSet(todo)
         \/ ~running /\ Where \in {"pends", "beat", "top", "exited"}

IInv ==
  /\ ListsType /\ ConnType /\ ServerType /\ PendType /\ LoopType
  /\ TodoOK /\ Owned /\ CurOK /\ PortServedOnce /\ OwedOK /\ PendingsOK

\* The records of a list
LEMMA ListSubset ==
  ASSUME NEW S, NEW s \in Seq(S)
  PROVE  ToSet(s) \subseteq S
BY DEF ToSet

\* Descriptors are numbers.
LEMMA FdIsNat == Fd \in SUBSET Nat
BY MaxFdAssumption DEF Fd

\* What a call leaves alone, whatever is called
LEMMA CalledEffect ==
  ASSUME LoopType, Called
  PROVE  /\ pc = "task" /\ pc' = pc /\ todo' = todo /\ Where' = Where
         /\ task' \in [calls : 0 .. MaxCalls, ret : Pc]
BY MaxCallsAssumption DEF LoopType, Called, Where

\* What the invariant says implies the properties.
LEMMA IInvImplies ==
  ASSUME IInv
  PROVE  TypeOK /\ DescriptorsOwned /\ WalkedRecordsLive /\ CurConnLives
           /\ PortServedOnce
<1>1. TypeOK
  BY DEF IInv, ListsType, ConnType, ServerType, PendType, LoopType, TypeOK
<1>2. DescriptorsOwned
  <2>1. Owned /\ TodoOK
    BY DEF IInv
  <2>2. Closing = IF Where = "close" THEN {Head(todo)} ELSE {}
    BY DEF Closing, Walks, Where
  <2> QED  BY <2>1, <2>2 DEF Owned, DescriptorsOwned, Noted, Unhandled
<1>3. WalkedRecordsLive
  BY DEF IInv, TodoOK, WalkedRecordsLive, Walks, Where
<1>4. CurConnLives
  BY DEF IInv, CurOK, CurConnLives, Closing, Walks, Where
<1>5. PortServedOnce
  BY DEF IInv
<1> QED  BY <1>1, <1>2, <1>3, <1>4, <1>5

\* What a step of the loop does to its place in the code
Places == {"top", "close", "write", "servers", "pends"}

\* The loop goes on itself ...
LEMMA GoesTo ==
  ASSUME LoopType, NEW next \in Pc \ {"task"}, NEW walk \in Seq(Fd),
         GoTo(next, walk), UNCHANGED <<running, heartbeat_freq>>
  PROVE  Where' = next /\ todo' = walk /\ pc' = next /\ LoopType'
BY DEF LoopType, GoTo, Where

\* ... or starts a task first, unless shutdown() was called.
LEMMA Starts ==
  ASSUME LoopType, NEW c \in Fd \cup {NoFd}, NEW next \in Places,
         NEW walk \in Seq(Fd), pc # "task",
         StartTask(c, next, walk), UNCHANGED <<running, heartbeat_freq>>
  PROVE  /\ Where' = next /\ todo' = walk /\ LoopType'
         /\ pc' = "task" => cur_conn' = c
<1>1. CASE running /\ pc' = "task"
           /\ task' = [calls |-> MaxCalls, ret |-> next]
           /\ cur_conn' = c /\ todo' = walk
  BY <1>1, MaxCallsAssumption DEF LoopType, Where, Places, Pc
<1>2. CASE GoTo(next, walk)
  BY <1>2 DEF LoopType, GoTo, Where, Places, Pc
<1> QED  BY <1>1, <1>2 DEF StartTask
\* Output is added only to live connections, and counted.
LEMMA EchoInv ==
  ASSUME IInv, Echo
  PROVE  IInv'
<1>1. Where' = Where /\ pc' = pc /\ todo' = todo /\ pc = "task" /\ LoopType'
  BY CalledEffect DEF IInv, LoopType, Echo, lists, recs
<1>2. ListsType'
  BY <1>1 DEF IInv, Echo, ListsType, lists, recs, Tell, Connected
<1>3. ConnType'
  <2> PICK d \in Dbref : Tell(d)
    BY DEF Echo
  <2> DEFINE hearers == {c \in Connected(d) : ~conn[c].dead}
  <2>1. \A c \in hearers : c \in Fd /\ conn[c].output < MaxOutput /\ owed[c] = conn[c].output
    <3>1. hearers \subseteq ToSet(connections) /\ connections \in Seq(Fd)
      BY DEF Connected, IInv, ListsType
    <3>2. ToSet(connections) \subseteq Fd
      BY <3>1 DEF ToSet
    <3> QED  BY <1>1, <3>1, <3>2 DEF Tell, IInv, OwedOK
  <2>2. /\ conn' = [c \in Fd |-> IF c \in hearers
                                THEN [conn[c] EXCEPT !.output = @ + 1]
                                ELSE conn[c]]
        /\ owed' = [c \in Fd |-> IF c \in hearers THEN owed[c] + 1 ELSE owed[c]]
    BY DEF Tell
  <2> HIDE DEF hearers
  <2>3. \A c \in Fd : conn[c] \in Conn /\ owed[c] \in 0 .. MaxOutput
    BY DEF IInv, ConnType
  <2>4. \A c \in hearers : [conn[c] EXCEPT !.output = @ + 1] \in Conn
                            /\ owed[c] + 1 \in 0 .. MaxOutput
    BY <2>1, <2>3, MaxOutputAssumption DEF Conn
  <2> QED  BY <2>2, <2>3, <2>4 DEF ConnType
<1>4. ServerType'
  BY <1>1 DEF IInv, Echo, ServerType, lists, recs, Tell, Connected
<1>5. PendType'
  BY <1>1 DEF IInv, Echo, PendType, lists, recs, Tell, Connected
<1>6. LoopType'
  BY <1>1 DEF IInv, Echo, LoopType, lists, recs, Tell, Connected
<1>7. TodoOK'
  BY <1>1 DEF IInv, Echo, TodoOK, lists, recs, Tell, Connected
<1>8. Owned'
  BY <1>1 DEF IInv, Echo, Owned, lists, recs, Tell, Connected
<1>9. CurOK'
  BY <1>1 DEF IInv, Echo, CurOK, lists, recs, Tell, Connected
<1>10. PortServedOnce'
  BY <1>1 DEF IInv, Echo, PortServedOnce, lists, recs, Tell, Connected
<1>11. OwedOK'
  <2> PICK d \in Dbref : Tell(d)
    BY DEF Echo
  <2> DEFINE hearers == {c \in Connected(d) : ~conn[c].dead}
  <2>1. /\ conn' = [c \in Fd |-> IF c \in hearers
                                THEN [conn[c] EXCEPT !.output = @ + 1]
                                ELSE conn[c]]
        /\ owed' = [c \in Fd |-> IF c \in hearers THEN owed[c] + 1 ELSE owed[c]]
    BY DEF Tell
  <2> HIDE DEF hearers
  <2>2. \A c \in Fd : conn[c] \in Conn
    BY DEF IInv, ConnType
  <2>3. \A c \in ToSet(connections) : c \in Fd /\ owed[c] = conn[c].output
    BY <1>1, ListSubset DEF IInv, ListsType, OwedOK
  <2>4. connections' = connections
    BY DEF Echo, lists
  <2> QED  BY <2>1, <2>2, <2>3, <2>4 DEF OwedOK, Conn
<1>12. PendingsOK'
  BY <1>1 DEF IInv, Echo, PendingsOK, lists, recs, Tell, Connected
<1> QED  BY <1>2, <1>3, <1>4, <1>5, <1>6, <1>7, <1>8, <1>9, <1>10, <1>11,
    <1>12 DEF IInv

\* boot() marks connections and takes none out of a list.
LEMMA DisconnectInv ==
  ASSUME IInv, Disconnect
  PROVE  IInv'
<1>1. Where' = Where /\ pc' = pc /\ todo' = todo /\ pc = "task" /\ LoopType'
  BY CalledEffect DEF IInv, LoopType, Disconnect, Boot, lists, recs
<1>2. /\ connections' = connections /\ owed' = owed
      /\ \E d \in Dbref : conn' = [c \in Fd |->
                [conn[c] EXCEPT !.dead = @ \/ c \in Connected(d)]]
  BY DEF Disconnect, Boot
<1>3. \A c \in Fd : conn[c] \in Conn /\ owed[c] \in 0 .. MaxOutput
  BY DEF IInv, ConnType
<1>4. ToSet(connections) \subseteq Fd
  BY ListSubset DEF IInv, ListsType
<1>5. ListsType'
  BY <1>1, <1>2, <1>3, <1>4 DEF IInv, Disconnect, ListsType, lists, recs, Boot
<1>6. ConnType'
  <2> PICK d \in Dbref :
             conn' = [c \in Fd |-> [conn[c] EXCEPT !.dead = @ \/ c \in Connected(d)]]
    BY <1>2
  <2>1. \A c \in Fd : [conn[c] EXCEPT !.dead = @ \/ c \in Connected(d)] \in Conn
    <3> TAKE c \in Fd
    <3> DEFINE b == conn[c].dead \/ c \in Connected(d)
    <3>1. b \in BOOLEAN
      OBVIOUS
    <3>2. [conn[c] EXCEPT !.dead = @ \/ c \in Connected(d)] = [conn[c] EXCEPT !.dead = b]
      OBVIOUS
    <3> HIDE DEF b
    <3> QED  BY <1>3, <3>1, <3>2 DEF Conn
  <2> QED  BY <1>2, <2>1 DEF ConnType, IInv
<1>7. ServerType'
  BY <1>1, <1>2, <1>3, <1>4 DEF IInv, Disconnect, ServerType, lists, recs, Boot
<1>8. PendType'
  BY <1>1, <1>2, <1>3, <1>4 DEF IInv, Disconnect, PendType, lists, recs, Boot
<1>9. LoopType'
  BY <1>1, <1>2, <1>3, <1>4 DEF IInv, Disconnect, LoopType, lists, recs, Boot
<1>10. TodoOK'
  BY <1>1, <1>2, <1>3, <1>4 DEF IInv, Disconnect, TodoOK, lists, recs, Boot
<1>11. Owned'
  BY <1>1, <1>2, <1>3, <1>4 DEF IInv, Disconnect, Owned, lists, recs, Boot
<1>12. CurOK'
  BY <1>1, <1>2, <1>3, <1>4 DEF IInv, Disconnect, CurOK, lists, recs, Boot
<1>13. PortServedOnce'
  BY <1>1, <1>2, <1>3, <1>4 DEF IInv, Disconnect, PortServedOnce, lists, recs, Boot
<1>14. OwedOK'
  BY <1>1, <1>2, <1>3, <1>4 DEF OwedOK, IInv, Conn
<1>15. PendingsOK'
  BY <1>1, <1>2, <1>3, <1>4 DEF IInv, Disconnect, PendingsOK, lists, recs, Boot
<1> QED  BY <1>5, <1>6, <1>7, <1>8, <1>9, <1>10, <1>11, <1>12, <1>13, <1>14,
    <1>15 DEF IInv

\* conn_assign() changes no list and no descriptor.
LEMMA ConnAssignInv ==
  ASSUME IInv, ConnAssign
  PROVE  IInv'
<1>1. Where' = Where /\ pc' = pc /\ todo' = todo /\ pc = "task" /\ LoopType'
  BY CalledEffect DEF IInv, LoopType, ConnAssign, lists, recs
<1>2. ListsType'
  BY <1>1 DEF IInv, ConnAssign, ListsType, lists, recs
<1>3. ConnType'
  <2> PICK d \in Dbref : conn' = [conn EXCEPT ![cur_conn].dbref = d]
    BY DEF ConnAssign
  <2>1. cur_conn \in Fd /\ conn[cur_conn] \in Conn
    BY DEF ConnAssign, IInv, LoopType, ConnType
  <2>2. [conn[cur_conn] EXCEPT !.dbref = d] \in Conn
    BY <2>1 DEF Conn
  <2> QED  BY <2>1, <2>2 DEF ConnType, IInv, ConnAssign
<1>4. ServerType'
  BY <1>1 DEF IInv, ConnAssign, ServerType, lists, recs
<1>5. PendType'
  BY <1>1 DEF IInv, ConnAssign, PendType, lists, recs
<1>6. LoopType'
  BY <1>1 DEF IInv, ConnAssign, LoopType, lists, recs
<1>7. TodoOK'
  BY <1>1 DEF IInv, ConnAssign, TodoOK, lists, recs
<1>8. Owned'
  BY <1>1 DEF IInv, ConnAssign, Owned, lists, recs
<1>9. CurOK'
  BY <1>1 DEF IInv, ConnAssign, CurOK, lists, recs
<1>10. PortServedOnce'
  BY <1>1 DEF IInv, ConnAssign, PortServedOnce, lists, recs
<1>11. OwedOK'
  BY <1>1 DEF IInv, ConnAssign, OwedOK, lists, recs
<1>12. PendingsOK'
  BY <1>1 DEF IInv, ConnAssign, PendingsOK, lists, recs
<1> QED  BY <1>2, <1>3, <1>4, <1>5, <1>6, <1>7, <1>8, <1>9, <1>10, <1>11,
    <1>12 DEF IInv

\* unbind() marks a server, and keeps its socket.
LEMMA UnbindInv ==
  ASSUME IInv, Unbind
  PROVE  IInv'
<1>1. Where' = Where /\ pc' = pc /\ todo' = todo /\ pc = "task" /\ LoopType'
  BY CalledEffect DEF IInv, LoopType, Unbind, lists, recs
<1>2. ListsType'
  BY <1>1 DEF IInv, Unbind, ListsType, lists, recs, RemoveServer
<1>3. ConnType'
  BY <1>1 DEF IInv, Unbind, ConnType, lists, recs, RemoveServer
<1>4. ServerType'
  <2> PICK s \in ToSet(servers) : server' = [server EXCEPT ![s].dead = TRUE]
    BY DEF Unbind, RemoveServer
  <2>1. s \in Fd /\ server[s] \in Server
    BY ListSubset DEF IInv, ListsType, ServerType
  <2>2. [server[s] EXCEPT !.dead = TRUE] \in Server
    BY <2>1 DEF Server
  <2> QED  BY <2>1, <2>2 DEF ServerType, IInv
<1>5. PendType'
  BY <1>1 DEF IInv, Unbind, PendType, lists, recs, RemoveServer
<1>6. LoopType'
  BY <1>1 DEF IInv, Unbind, LoopType, lists, recs, RemoveServer
<1>7. TodoOK'
  BY <1>1 DEF IInv, Unbind, TodoOK, lists, recs, RemoveServer
<1>8. Owned'
  BY <1>1 DEF IInv, Unbind, Owned, lists, recs, RemoveServer
<1>9. CurOK'
  BY <1>1 DEF IInv, Unbind, CurOK, lists, recs, RemoveServer
<1>10. PortServedOnce'
  BY <1>1 DEF IInv, Unbind, PortServedOnce, lists, recs, RemoveServer
<1>11. OwedOK'
  BY <1>1 DEF IInv, Unbind, OwedOK, lists, recs, RemoveServer
<1>12. PendingsOK'
  BY <1>1 DEF IInv, Unbind, PendingsOK, lists, recs, RemoveServer
<1> QED  BY <1>2, <1>3, <1>4, <1>5, <1>6, <1>7, <1>8, <1>9, <1>10, <1>11,
    <1>12 DEF IInv

\* Only the heartbeat changes.
LEMMA SetHeartbeatFreqInv ==
  ASSUME IInv, SetHeartbeatFreq
  PROVE  IInv'
<1>1. Where' = Where /\ pc' = pc /\ todo' = todo /\ pc = "task" /\ LoopType'
  BY CalledEffect DEF IInv, LoopType, SetHeartbeatFreq, lists, recs
<1>2. ListsType'
  BY <1>1 DEF IInv, SetHeartbeatFreq, ListsType, lists, recs
<1>3. ConnType'
  BY <1>1 DEF IInv, SetHeartbeatFreq, ConnType, lists, recs
<1>4. ServerType'
  BY <1>1 DEF IInv, SetHeartbeatFreq, ServerType, lists, recs
<1>5. PendType'
  BY <1>1 DEF IInv, SetHeartbeatFreq, PendType, lists, recs
<1>6. LoopType'
  BY <1>1 DEF IInv, SetHeartbeatFreq, LoopType, lists, recs
<1>7. TodoOK'
  BY <1>1 DEF IInv, SetHeartbeatFreq, TodoOK, lists, recs
<1>8. Owned'
  BY <1>1 DEF IInv, SetHeartbeatFreq, Owned, lists, recs
<1>9. CurOK'
  BY <1>1 DEF IInv, SetHeartbeatFreq, CurOK, lists, recs
<1>10. PortServedOnce'
  BY <1>1 DEF IInv, SetHeartbeatFreq, PortServedOnce, lists, recs
<1>11. OwedOK'
  BY <1>1 DEF IInv, SetHeartbeatFreq, OwedOK, lists, recs
<1>12. PendingsOK'
  BY <1>1 DEF IInv, SetHeartbeatFreq, PendingsOK, lists, recs
<1> QED  BY <1>2, <1>3, <1>4, <1>5, <1>6, <1>7, <1>8, <1>9, <1>10, <1>11,
    <1>12 DEF IInv

\* The loop ends later; until then all stays as it is.
LEMMA ShutdownInv ==
  ASSUME IInv, Shutdown
  PROVE  IInv'
<1>1. Where' = Where /\ pc' = pc /\ todo' = todo /\ pc = "task" /\ LoopType'
  BY CalledEffect DEF IInv, LoopType, Shutdown, lists, recs
<1>2. ListsType'
  BY <1>1 DEF IInv, Shutdown, ListsType, lists, recs
<1>3. ConnType'
  BY <1>1 DEF IInv, Shutdown, ConnType, lists, recs
<1>4. ServerType'
  BY <1>1 DEF IInv, Shutdown, ServerType, lists, recs
<1>5. PendType'
  BY <1>1 DEF IInv, Shutdown, PendType, lists, recs
<1>6. LoopType'
  BY <1>1 DEF IInv, Shutdown, LoopType, lists, recs
<1>7. TodoOK'
  BY <1>1 DEF IInv, Shutdown, TodoOK, lists, recs
<1>8. Owned'
  BY <1>1 DEF IInv, Shutdown, Owned, lists, recs
<1>9. CurOK'
  BY <1>1 DEF IInv, Shutdown, CurOK, lists, recs
<1>10. PortServedOnce'
  BY <1>1 DEF IInv, Shutdown, PortServedOnce, lists, recs
<1>11. OwedOK'
  BY <1>1 DEF IInv, Shutdown, OwedOK, lists, recs
<1>12. PendingsOK'
  BY <1>1 DEF IInv, Shutdown, PendingsOK, lists, recs
<1> QED  BY <1>2, <1>3, <1>4, <1>5, <1>6, <1>7, <1>8, <1>9, <1>10, <1>11,
    <1>12 DEF IInv

\* The walk goes on where it was.
LEMMA TaskEndsInv ==
  ASSUME IInv, TaskEnds
  PROVE  IInv'
<1>1. Where' = Where /\ todo' = todo /\ cur_conn' = NoFd
  BY DEF IInv, TodoOK, TaskEnds, Where
<1>2. pc' \in {"top", "close", "write", "servers", "pends"} /\ pc' = Where'
  BY DEF IInv, TodoOK, TaskEnds, Where
<1>3. task'\in [calls : 0 .. MaxCalls, ret : Pc]
  BY MaxCallsAssumption DEF TaskEnds, Pc
<1>4. ListsType'
  BY <1>1, <1>2, <1>3 DEF IInv, TaskEnds, ListsType, lists, recs
<1>5. ConnType'
  BY <1>1, <1>2, <1>3 DEF IInv, TaskEnds, ConnType, lists, recs
<1>6. ServerType'
  BY <1>1, <1>2, <1>3 DEF IInv, TaskEnds, ServerType, lists, recs
<1>7. PendType'
  BY <1>1, <1>2, <1>3 DEF IInv, TaskEnds, PendType, lists, recs
<1>8. LoopType'
  BY <1>1, <1>2, <1>3 DEF IInv, TaskEnds, LoopType, Pc
<1>9. TodoOK'
  BY <1>1, <1>2, <1>3 DEF IInv, TaskEnds, TodoOK, lists, recs
<1>10. Owned'
  BY <1>1, <1>2, <1>3 DEF IInv, TaskEnds, Owned, lists, recs
<1>11. CurOK'
  BY <1>1, <1>2, <1>3 DEF IInv, TaskEnds, CurOK, lists, recs
<1>12. PortServedOnce'
  BY <1>1, <1>2, <1>3 DEF IInv, TaskEnds, PortServedOnce, lists, recs
<1>13. OwedOK'
  BY <1>1, <1>2, <1>3 DEF IInv, TaskEnds, OwedOK, lists, recs
<1>14. PendingsOK'
  BY <1>1, <1>2, <1>3 DEF IInv, TaskEnds, PendingsOK, lists, recs
<1> QED  BY <1>4, <1>5, <1>6, <1>7, <1>8, <1>9, <1>10, <1>11, <1>12, <1>13,
    <1>14 DEF IInv

\* A server is taken over, or gets a new descriptor and a port nobody has.
LEMMA BindInv ==
  ASSUME IInv, Bind
  PROVE  IInv'
<1>1. Where' = Where /\ pc' = pc /\ todo' = todo /\ pc = "task" /\ LoopType'
  BY CalledEffect DEF IInv, LoopType, Bind, lists, recs
<1>2. /\ FdLeft => NewFd \in Fd \ open
      /\ RecordLeft => NewRecord \in Fd \ ToSet(pendings)
  <2>1. open \subseteq Fd /\ ToSet(pendings) \subseteq Fd
    BY ListSubset DEF IInv, ListsType
  <2> QED  BY <2>1, FdIsNat, MinOf DEF FdLeft, NewFd, RecordLeft, NewRecord
<1>3. ToSet(connections) \subseteq Fd /\ ToSet(servers) \subseteq Fd
      /\ ToSet(pendings) \subseteq Fd /\ open \subseteq Fd
  BY ListSubset DEF IInv, ListsType
<1>4. PICK p \in Port, d \in Dbref : AddServer(p, d)
  BY DEF Bind
<1>5. \/ /\ servers' = servers /\ open' = open
         /\ \E s \in ToSet(servers) :
              server' = [server EXCEPT ![s].dbref = d, ![s].dead = FALSE]
      \/ \E f \in Fd \ open :
           /\ open' = open \cup {f}
           /\ server' = [server EXCEPT ![f] = NewServer(p, d)]
           /\ \A s \in ToSet(servers) : server[s].port # p
           /\ servers' \in Seq(Fd) /\ IsInjective(servers')
           /\ ToSet(servers') = ToSet(servers) \cup {f}
      \/ \E f \in Fd \ open :
           open' = open \cup {f} /\ server' = server /\ servers' = servers
  <2>1. ASSUME NewFd \in Fd \ open
        PROVE  LET l == <<NewFd>> \o servers
               IN  /\ l \in Seq(Fd) /\ IsInjective(l)
                   /\ ToSet(l) = ToSet(servers) \cup {NewFd}
    <3>1. servers \in Seq(Fd) /\ IsInjective(servers) /\ NewFd \notin ToSet(servers)
      BY <2>1 DEF IInv, ListsType, Owned
    <3> QED  BY <2>1, <3>1, AddedProperties
  <2> QED  BY <1>2, <1>4, <2>1 DEF AddServer, GetServerSocket
<1>6. connections' = connections /\ pendings' = pendings /\ conn' = conn
      /\ pend' = pend /\ owed' = owed /\ running' = running
      /\ cur_conn' = cur_conn
  BY DEF Bind
<1>7. \A s \in Fd : server[s] \in Server
  BY DEF IInv, ServerType
<1>8. NewServer(p, d) \in Server /\ NewServer(p, d).client_socket = NoFd /\ NewServer(p, d).port = p
  BY DEF NewServer, Server
<1>9. ListsType'
  BY <1>5, <1>6, <1>3 DEF IInv, ListsType
<1>10. ConnType'
  BY <1>6 DEF IInv, ConnType
<1>11. ServerType'
  <2>1. ASSUME NEW s \in Fd
        PROVE  [server EXCEPT ![s].dbref = d, ![s].dead = FALSE] \in [Fd -> Server]
    <3>1. [server[s] EXCEPT !.dbref = d, !.dead = FALSE] \in Server
      BY <1>7, <2>1 DEF Server
    <3> QED  BY <2>1, <3>1 DEF IInv, ServerType
  <2> QED  BY <1>3, <1>5, <1>7, <1>8, <2>1, ZenonT(30) DEF IInv, ServerType
<1>12. PendType'
  BY <1>6 DEF IInv, PendType
<1>13. LoopType'
  BY <1>1
<1>14. TodoOK'
  BY <1>1, <1>5, <1>6 DEF IInv, TodoOK
<1>15. Owned'
  <2>1. CASE \E s \in ToSet(servers) :
               server' = [server EXCEPT ![s].dbref = d, ![s].dead = FALSE]
               /\ servers' = servers /\ open' = open
    <3>1. \A s \in ToSet(servers) : server'[s].client_socket = server[s].client_socket
      BY <1>3, <1>7, <2>1 DEF Server, IInv, ServerType
    <3> QED  BY <1>1, <1>6, <2>1, <3>1, ZenonT(30) DEF IInv, Owned
  <2>2. CASE \E f \in Fd \ open :
           /\ open' = open \cup {f}
           /\ server' = [server EXCEPT ![f] = NewServer(p, d)]
           /\ ToSet(servers') = ToSet(servers) \cup {f}
    <3> PICK f \in Fd \ open :
           /\ open' = open \cup {f}
           /\ server' = [server EXCEPT ![f] = NewServer(p, d)]
           /\ ToSet(servers') = ToSet(servers) \cup {f}
      BY <2>2
    <3>1. f \notin ToSet(servers) /\ server'[f].client_socket = NoFd
          /\ \A s \in ToSet(servers) : server'[s] = server[s]
      BY <1>3, <1>8 DEF IInv, Owned, ServerType
    <3>2. \A s \in ToSet(servers') : server'[s].client_socket # NoFd =>
            s \in ToSet(servers) /\ server'[s] = server[s]
      BY <3>1
    <3>3. /\ f \notin ToSet(connections) \cup ToSet(servers) /\ f \in open'
          /\ \A s \in ToSet(servers) : server[s].client_socket # NoFd =>
               server[s].client_socket # f
          /\ \A q \in ToSet(pendings) : ~pend[q].handled => pend[q].fd # f
          /\ Where = "close" => Head(todo) # f
      BY DEF IInv, Owned
    <3>4. open \subseteq open' /\ ToSet(servers') = ToSet(servers) \cup {f}
      OBVIOUS
    <3>5. /\ Owned /\ Where' = Where /\ todo' = todo /\ pend' = pend
          /\ pendings' = pendings /\ connections' = connections
      BY <1>1, <1>6 DEF IInv
    <3>6. \A s \in ToSet(servers') : server'[s].client_socket # NoFd =>
            /\ server'[s].client_socket \in
                 open' \ (ToSet(connections') \cup ToSet(servers'))
            /\ \A q \in ToSet(pendings') :
                 ~pend'[q].handled => server'[s].client_socket # pend'[q].fd
            /\ \A t \in ToSet(servers') :
                 server'[s].client_socket = server'[t].client_socket => s = t
            /\ Where' = "close" => server'[s].client_socket # Head(todo')
      BY <3>2, <3>3, <3>4, <3>5 DEF Owned
    <3>7. \A q \in ToSet(pendings') : ~pend'[q].handled =>
            pend'[q].fd \in open' \ (ToSet(connections') \cup ToSet(servers'))
      BY <3>3, <3>4, <3>5 DEF Owned
    <3>8. /\ ToSet(connections') \cup ToSet(servers') \subseteq open'
          /\ ToSet(connections') \cap ToSet(servers') = {}
      BY <3>3, <3>4, <3>5 DEF Owned
    <3>9. Where' = "close" =>
            /\ Head(todo') \in open' \ (ToSet(connections') \cup ToSet(servers'))
            /\ \A q \in ToSet(pendings') :
                 ~pend'[q].handled => pend'[q].fd # Head(todo')
      BY <3>3, <3>4, <3>5 DEF Owned
    <3>10. \A q, r \in ToSet(pendings') :
             ~pend'[q].handled /\ ~pend'[r].handled /\ pend'[q].fd = pend'[r].fd
               => q = r
      BY <3>5 DEF Owned
    <3> QED  BY <3>6, <3>7, <3>8, <3>9, <3>10 DEF Owned
  <2>3. CASE \E f \in Fd \ open :
           open' = open \cup {f} /\ server' = server /\ servers' = servers
    BY <1>1, <1>6, <2>3 DEF IInv, Owned
  <2> QED  BY <1>5, <2>1, <2>2, <2>3
<1>16. CurOK'
  BY <1>1, <1>6 DEF IInv, CurOK
<1>17. PortServedOnce'
  <2>1. CASE \E s \in ToSet(servers) :
               /\ server' = [server EXCEPT ![s].dbref = d, ![s].dead = FALSE]
               /\ servers' = servers
    <3>1. \A s \in ToSet(servers) : server'[s].port = server[s].port
      BY <1>3, <1>7, <2>1 DEF Server, IInv, ServerType
    <3> QED  BY <2>1, <3>1 DEF IInv, PortServedOnce
  <2>2. CASE \E f \in Fd \ open :
           /\ server' = [server EXCEPT ![f] = NewServer(p, d)]
           /\ \A s \in ToSet(servers) : server[s].port # p
           /\ ToSet(servers') = ToSet(servers) \cup {f}
    <3> PICK f \in Fd \ open :
           /\ server' = [server EXCEPT ![f] = NewServer(p, d)]
           /\ \A s \in ToSet(servers) : server[s].port # p
           /\ ToSet(servers') = ToSet(servers) \cup {f}
      BY <2>2
    <3>1. f \notin ToSet(servers) /\ server'[f].port = p
          /\ \A s \in ToSet(servers) : server'[s] = server[s]
      BY <1>3, <1>8 DEF IInv, Owned, ServerType
    <3> QED  BY <3>1 DEF IInv, PortServedOnce
  <2>3. CASE server' = server /\ servers' = servers
    BY <2>3 DEF IInv, PortServedOnce
  <2> QED  BY <1>5, <2>1, <2>2, <2>3
<1>18. OwedOK'
  BY <1>1, <1>6 DEF IInv, OwedOK
<1>19. PendingsOK'
  BY <1>1, <1>6 DEF IInv, PendingsOK
<1> QED  BY <1>9, <1>10, <1>11, <1>12, <1>13, <1>14, <1>15, <1>16, <1>17,
    <1>18, <1>19 DEF IInv

\* A record nobody has, and a descriptor nobody has.
LEMMA ConnectInv ==
  ASSUME IInv, Connect
  PROVE  IInv'
<1>1. Where' = Where /\ pc' = pc /\ todo' = todo /\ pc = "task" /\ LoopType'
  BY CalledEffect DEF IInv, LoopType, Connect, lists, recs
<1>2. /\ FdLeft => NewFd \in Fd \ open
      /\ RecordLeft => NewRecord \in Fd \ ToSet(pendings)
  <2>1. open \subseteq Fd /\ ToSet(pendings) \subseteq Fd
    BY ListSubset DEF IInv, ListsType
  <2> QED  BY <2>1, FdIsNat, MinOf DEF FdLeft, NewFd, RecordLeft, NewRecord
<1>3. ToSet(connections) \subseteq Fd /\ ToSet(servers) \subseteq Fd
      /\ ToSet(pendings) \subseteq Fd /\ open \subseteq Fd
  BY ListSubset DEF IInv, ListsType
<1>4. PICK d \in Dbref, failed \in BOOLEAN, f \in Fd \ open, r \in Fd \ ToSet(pendings) :
         /\ open' = open \cup {f}
         /\ pend' = [pend EXCEPT ![r] = NewPending(f, d, failed)]
         /\ pendings' = <<r>> \o pendings
  BY <1>2 DEF Connect, MakeConnection, NonBlockingConnect
<1>5. /\ pendings' \in Seq(Fd) /\ IsInjective(pendings')
      /\ ToSet(pendings') = ToSet(pendings) \cup {r}
  BY <1>4, AddedProperties DEF IInv, ListsType
<1>6. /\ NewPending(f, d, failed) \in Pending
      /\ LET n == NewPending(f, d, failed) IN
           n.fd = f /\ n.failed = n.atonce /\ ~n.finished /\ ~n.handled
  BY <1>4 DEF NewPending, Pending
<1>7. /\ pend'[r] = NewPending(f, d, failed)
      /\ \A p \in ToSet(pendings) : pend'[p] = pend[p] /\ p # r
  BY <1>3, <1>4 DEF IInv, PendType
<1>8. /\ connections' = connections /\ servers' = servers /\ conn' = conn
      /\ server' = server /\ owed' = owed /\ running' = running
      /\ cur_conn' = cur_conn
  BY DEF Connect
<1>9. ListsType'
  BY <1>3, <1>4, <1>5, <1>8 DEF IInv, ListsType
<1>10. ConnType'
  BY <1>8 DEF IInv, ConnType
<1>11. ServerType'
  BY <1>8 DEF IInv, ServerType
<1>12. PendType'
  BY <1>4, <1>6 DEF IInv, PendType
<1>13. LoopType'
  BY <1>1
<1>14. TodoOK'
  BY <1>1, <1>5, <1>8 DEF IInv, TodoOK
<1>15. Owned'
  <2>1. \A p \in ToSet(pendings') : p = r \/ p \in ToSet(pendings)
    BY <1>5
  <2>2. pend'[r].fd = f /\ f \notin open /\ f \in open' /\ open \subseteq open'
    BY <1>4, <1>6, <1>7
  <2> QED  BY <1>1, <1>7, <1>8, <2>1, <2>2 DEF IInv, Owned
<1>16. CurOK'
  BY <1>1, <1>8 DEF IInv, CurOK
<1>17. PortServedOnce'
  BY <1>8 DEF IInv, PortServedOnce
<1>18. OwedOK'
  BY <1>1, <1>8 DEF IInv, OwedOK
<1>19. PendingsOK'
  BY <1>1, <1>5, <1>6, <1>7, <1>8 DEF IInv, PendingsOK
<1> QED  BY <1>9, <1>10, <1>11, <1>12, <1>13, <1>14, <1>15, <1>16, <1>17,
    <1>18, <1>19 DEF IInv

\* A turn begins with the walk over the connections, or the process ends.
LEMMA LoopTopInv ==
  ASSUME IInv, LoopTop
  PROVE  IInv'
<1>1. pc = "top" /\ Where = "top"
  BY DEF LoopTop, Where
<1>2. /\ LoopType' /\ pc' = Where' /\ pc' # "task"
      /\ \/ running /\ Where' = "flush" /\ todo' = connections /\ owed' = owed
         \/ Where' = "exited" /\ todo' = <<>> /\ owed' \in [Fd -> 0 .. MaxOutput]
  <2>1. connections \in Seq(Fd) /\ <<>> \in Seq(Fd) /\ LoopType
    BY EmptyList DEF IInv, ListsType
  <2>2. "flush" \in Pc \ {"task"} /\ "exited" \in Pc \ {"task"}
    BY DEF Pc
  <2>3. UNCHANGED <<running, heartbeat_freq>>
    BY DEF LoopTop
  <2>4. CASE running /\ GoTo("flush", connections) /\ UNCHANGED owed
    BY <2>1, <2>2, <2>3, <2>4, GoesTo
  <2>5. CASE GoTo("exited", <<>>) /\ FlushOutput
    BY <2>1, <2>2, <2>3, <2>5, GoesTo DEF FlushOutput
  <2> QED  BY <2>4, <2>5 DEF LoopTop
<1>3. /\ connections' = connections /\ servers' = servers
      /\ pendings' = pendings /\ open' = open /\ conn' = conn
      /\ server' = server /\ pend' = pend /\ running' = running
  BY DEF LoopTop, lists, recs
<1>4. ToSet(<<>>) = {} /\ IsInjective(<<>>) /\ IsInjective(connections)
  BY EmptyList DEF IInv, ListsType
<1>5. ListsType'
  BY <1>1, <1>2, <1>3, <1>4 DEF IInv, ListsType
<1>6. ConnType'
  BY <1>1, <1>2, <1>3, <1>4 DEF IInv, ConnType
<1>7. ServerType'
  BY <1>1, <1>2, <1>3, <1>4 DEF IInv, ServerType
<1>8. PendType'
  BY <1>1, <1>2, <1>3, <1>4 DEF IInv, PendType
<1>9. LoopType'
  BY <1>1, <1>2, <1>3, <1>4 DEF IInv, LoopType
<1>10. TodoOK'
  BY <1>1, <1>2, <1>3, <1>4 DEF IInv, TodoOK
<1>11. Owned'
  BY <1>1, <1>2, <1>3, <1>4 DEF IInv, Owned
<1>12. CurOK'
  BY <1>2 DEF CurOK
<1>13. PortServedOnce'
  BY <1>1, <1>2, <1>3, <1>4 DEF IInv, PortServedOnce
<1>14. OwedOK'
  BY <1>1, <1>2, <1>3, <1>4 DEF IInv, OwedOK
<1>15. PendingsOK'
  BY <1>1, <1>2, <1>3, <1>4 DEF IInv, PendingsOK
<1> QED  BY <1>5, <1>6, <1>7, <1>8, <1>9, <1>10, <1>11, <1>12, <1>13, <1>14,
    <1>15 DEF IInv

\* The connection leaves the list, and its socket is the one being closed.
LEMMA FlushConnectionInv ==
  ASSUME IInv, FlushConnection
  PROVE  IInv'
<1>1. pc = "flush" /\ Where = "flush" /\ todo # <<>>
  BY DEF FlushConnection, Where
<1>2. /\ Head(todo) \in Fd /\ Head(todo) \in ToSet(connections) /\ Tail(todo) \in Seq(Fd)
      /\ ToSet(todo) = ToSet(Tail(todo)) \cup {Head(todo)}
      /\ Head(todo) \notin ToSet(Tail(todo)) /\ IsInjective(Tail(todo))
      /\ todo \in Seq(Fd) /\ IsInjective(todo) /\ ToSet(todo) \subseteq ToSet(connections)
  <2>1. todo \in Seq(Fd) /\ todo # <<>> /\ IsInjective(todo)
        /\ ToSet(todo) \subseteq ToSet(connections)
    BY <1>1 DEF FlushConnection, IInv, LoopType, TodoOK
  <2> QED  BY <2>1, TailProperties
<1>3. /\ LoopType'
      /\ \/ /\ Defunct(Head(todo)) /\ Where' = "close" /\ todo' = todo
            /\ connections' \in Seq(Fd) /\ IsInjective(connections')
            /\ ToSet(connections') = ToSet(connections) \ {Head(todo)}
            /\ pc' = "task" => cur_conn' = Head(todo)
         \/ /\ Where' = "flush" /\ todo' = Tail(todo) /\ pc' = "flush"
            /\ connections' = connections
  <2> DEFINE c == Head(todo)
  <2>1. LoopType /\ UNCHANGED <<running, heartbeat_freq>>
        /\ connections \in Seq(Fd) /\ IsInjective(connections)
    BY DEF IInv, FlushConnection, ListsType
  <2>2. CASE Defunct(c) /\ connections' = WithoutFd(connections, c)
             /\ StartTask(c, "close", todo)
    <3>1. /\ connections' \in Seq(Fd) /\ IsInjective(connections')
          /\ ToSet(connections') = ToSet(connections) \cap (Fd \ {c})
      BY <2>1, <2>2, KeptProperties DEF WithoutFd
    <3>2. ToSet(connections') = ToSet(connections) \ {c}
      BY <2>1, <3>1, ListSubset
    <3>3. Where' = "close" /\ todo' = todo /\ LoopType'
          /\ (pc' = "task" => cur_conn' = c)
      BY <1>1, <1>2, <2>1, <2>2, Starts DEF Places
    <3> QED  BY <2>2, <3>1, <3>2, <3>3
  <2>3. CASE GoTo("flush", Tail(todo)) /\ connections' = connections
    <3>1. "flush" \in Pc \ {"task"}
      BY DEF Pc
    <3> QED  BY <1>2, <2>1, <2>3, <3>1, GoesTo
  <2> QED  BY <2>2, <2>3 DEF FlushConnection
<1>4. /\ servers' = servers /\ pendings' = pendings /\ open' = open
      /\ conn' = conn /\ server' = server /\ pend' = pend
      /\ running' = running /\ owed' = owed
  BY DEF FlushConnection, lists, recs
<1>5. /\ ToSet(connections) \subseteq Fd /\ ToSet(servers) \subseteq Fd
      /\ ToSet(pendings) \subseteq Fd /\ open \subseteq Fd
  BY ListSubset DEF IInv, ListsType
<1>6. ListsType'
  BY <1>1, <1>2, <1>3, <1>4, <1>5 DEF IInv, ListsType
<1>7. ConnType'
  BY <1>1, <1>2, <1>3, <1>4, <1>5 DEF IInv, ConnType
<1>8. ServerType'
  BY <1>1, <1>2, <1>3, <1>4, <1>5 DEF IInv, ServerType
<1>9. PendType'
  BY <1>1, <1>2, <1>3, <1>4, <1>5 DEF IInv, PendType
<1>10. LoopType'
  BY <1>1, <1>2, <1>3, <1>4, <1>5 DEF IInv, LoopType
<1>11. TodoOK'
  BY <1>1, <1>2, <1>3, <1>4, <1>5 DEF IInv, TodoOK
<1>12. Owned'
  BY <1>1, <1>2, <1>3, <1>4, <1>5 DEF IInv, Owned
<1>13. CurOK'
  BY <1>1, <1>2, <1>3, <1>4, <1>5 DEF IInv, CurOK
<1>14. PortServedOnce'
  BY <1>1, <1>2, <1>3, <1>4, <1>5 DEF IInv, PortServedOnce
<1>15. OwedOK'
  BY <1>1, <1>2, <1>3, <1>4, <1>5 DEF IInv, OwedOK
<1>16. PendingsOK'
  BY <1>1, <1>2, <1>3, <1>4, <1>5 DEF IInv, PendingsOK
<1> QED  BY <1>6, <1>7, <1>8, <1>9, <1>10, <1>11, <1>12, <1>13, <1>14, <1>15,
    <1>16 DEF IInv

\* The socket closed is nobody else's.
LEMMA CloseConnectionInv ==
  ASSUME IInv, CloseConnection
  PROVE  IInv'
<1>1. pc = "close" /\ Where = "close" /\ todo # <<>>
  BY DEF CloseConnection, Where, IInv, TodoOK
<1>2. /\ Head(todo) \in Fd /\ Tail(todo) \in Seq(Fd) /\ IsInjective(Tail(todo))
      /\ Head(todo) \notin ToSet(connections)
      /\ ToSet(Tail(todo)) \subseteq ToSet(connections)
  BY <1>1, TailProperties DEF IInv, LoopType, TodoOK
<1>3. LoopType' /\ Where' = "flush" /\ todo' = Tail(todo) /\ pc' = "flush"
  BY <1>2, GoesTo DEF IInv, CloseConnection, Pc
<1>4. /\ open' = open \ {Head(todo)}
      /\ conn' = [conn EXCEPT ![Head(todo)] = FreeConn]
      /\ owed' = [owed EXCEPT ![Head(todo)] = 0]
  BY DEF CloseConnection
<1>5. /\ connections' = connections /\ servers' = servers
      /\ pendings' = pendings /\ server' = server /\ pend' = pend
      /\ running' = running
  BY DEF CloseConnection, lists, recs
<1>6. FreeConn \in Conn
  BY MaxOutputAssumption, DbrefAssumption DEF FreeConn, NewConn, SomeDbref, Conn
<1>7. /\ ToSet(connections) \subseteq Fd /\ ToSet(servers) \subseteq Fd
      /\ ToSet(pendings) \subseteq Fd /\ open \subseteq Fd
  BY ListSubset DEF IInv, ListsType
<1>8. ListsType'
  BY <1>1, <1>2, <1>3, <1>4, <1>5, <1>6, <1>7 DEF IInv, ListsType
<1>9. ConnType'
  BY <1>2, <1>4, <1>6, MaxOutputAssumption DEF IInv, ConnType
<1>10. ServerType'
  BY <1>1, <1>2, <1>3, <1>4, <1>5, <1>6, <1>7 DEF IInv, ServerType
<1>11. PendType'
  BY <1>1, <1>2, <1>3, <1>4, <1>5, <1>6, <1>7 DEF IInv, PendType
<1>12. LoopType'
  BY <1>1, <1>2, <1>3, <1>4, <1>5, <1>6, <1>7 DEF IInv, LoopType
<1>13. TodoOK'
  BY <1>1, <1>2, <1>3, <1>4, <1>5, <1>6, <1>7 DEF IInv, TodoOK
<1>14. Owned'
  BY <1>1, <1>2, <1>3, <1>4, <1>5, <1>6, <1>7 DEF IInv, Owned
<1>15. CurOK'
  BY <1>1, <1>2, <1>3, <1>4, <1>5, <1>6, <1>7 DEF IInv, CurOK
<1>16. PortServedOnce'
  BY <1>1, <1>2, <1>3, <1>4, <1>5, <1>6, <1>7 DEF IInv, PortServedOnce
<1>17. OwedOK'
  BY <1>1, <1>2, <1>3, <1>4, <1>5, <1>6, <1>7 DEF IInv, OwedOK
<1>18. PendingsOK'
  BY <1>1, <1>2, <1>3, <1>4, <1>5, <1>6, <1>7 DEF IInv, PendingsOK
<1> QED  BY <1>8, <1>9, <1>10, <1>11, <1>12, <1>13, <1>14, <1>15, <1>16,
    <1>17, <1>18 DEF IInv

\* Dead servers and finished attempts leave their lists.
LEMMA FlushSocketsInv ==
  ASSUME IInv, FlushSockets
  PROVE  IInv'
<1>1. pc = "flush" /\ Where = "flush"
  BY DEF FlushSockets, Where
<1>2. <<>> \in Seq(Fd) /\ ToSet(<<>>) = {} /\ IsInjective(<<>>)
  BY EmptyList
<1>3. LoopType' /\ Where' = "wait" /\ todo' = <<>> /\ pc' = "wait"
  BY <1>1, <1>2, GoesTo DEF IInv, ListsType, FlushSockets, Pc
<1>4. /\ servers' \in Seq(Fd) /\ IsInjective(servers')
      /\ ToSet(servers') = {s \in ToSet(servers) : ~server[s].dead}
      /\ pendings' \in Seq(Fd) /\ IsInjective(pendings')
      /\ ToSet(pendings') = {p \in ToSet(pendings) : ~pend[p].finished}
  <2>1. /\ servers \in Seq(Fd) /\ IsInjective(servers)
        /\ pendings \in Seq(Fd) /\ IsInjective(pendings)
        /\ ToSet(servers) \subseteq Fd /\ ToSet(pendings) \subseteq Fd
    BY ListSubset DEF IInv, ListsType
  <2>2. /\ servers' \in Seq(Fd) /\ IsInjective(servers')
        /\ ToSet(servers') = ToSet(servers) \cap {s \in Fd : ~server[s].dead}
    BY <2>1, KeptProperties DEF FlushSockets
  <2>3. /\ pendings' \in Seq(Fd) /\ IsInjective(pendings')
        /\ ToSet(pendings') = ToSet(pendings) \cap {p \in Fd : ~pend[p].finished}
    BY <2>1, KeptProperties DEF FlushSockets
  <2> QED  BY <2>1, <2>2, <2>3
<1>5. /\ open' = open \ {s \in ToSet(servers) : server[s].dead}
      /\ server' = [s \in Fd |-> IF server[s].dead THEN FreeServer ELSE server[s]]
      /\ pend' = [p \in Fd |-> IF pend[p].finished THEN FreePending ELSE pend[p]]
  BY DEF FlushSockets
<1>6. /\ connections' = connections /\ conn' = conn
      /\ running' = running /\ owed' = owed
  BY DEF FlushSockets, lists, recs
<1>7. /\ ToSet(connections) \subseteq Fd /\ ToSet(servers) \subseteq Fd
      /\ ToSet(pendings) \subseteq Fd /\ open \subseteq Fd
  BY ListSubset DEF IInv, ListsType
<1>8. /\ \A s \in ToSet(servers') : server'[s] = server[s]
      /\ \A p \in ToSet(pendings') : pend'[p] = pend[p]
  BY <1>4, <1>5, <1>7
<1>9. ListsType'
  BY <1>1, <1>2, <1>3, <1>4, <1>5, <1>6, <1>7, <1>8 DEF IInv, ListsType
<1>10. ConnType'
  BY <1>1, <1>2, <1>3, <1>4, <1>5, <1>6, <1>7, <1>8 DEF IInv, ConnType
<1>11. ServerType'
  <2>1. FreeServer \in Server
    BY PortAssumption, DbrefAssumption DEF FreeServer, NewServer, SomeDbref, Server
  <2> QED  BY <1>5, <2>1 DEF IInv, ServerType
<1>12. PendType'
  <2>1. Fd # {} => FreePending \in Pending
    BY MaxFdAssumption, DbrefAssumption
       DEF FreePending, NewPending, SomeDbref, Pending, Fd
  <2> QED  BY <1>5, <2>1 DEF IInv, PendType
<1>13. LoopType'
  BY <1>1, <1>2, <1>3, <1>4, <1>5, <1>6, <1>7, <1>8 DEF IInv, LoopType
<1>14. TodoOK'
  BY <1>1, <1>2, <1>3, <1>4, <1>5, <1>6, <1>7, <1>8 DEF IInv, TodoOK
<1>15. Owned'
  BY <1>1, <1>2, <1>3, <1>4, <1>5, <1>6, <1>7, <1>8 DEF IInv, Owned
<1>16. CurOK'
  BY <1>1, <1>2, <1>3, <1>4, <1>5, <1>6, <1>7, <1>8 DEF IInv, CurOK
<1>17. PortServedOnce'
  BY <1>1, <1>2, <1>3, <1>4, <1>5, <1>6, <1>7, <1>8 DEF IInv, PortServedOnce
<1>18. OwedOK'
  BY <1>1, <1>2, <1>3, <1>4, <1>5, <1>6, <1>7, <1>8 DEF IInv, OwedOK
<1>19. PendingsOK'
  BY <1>1, <1>2, <1>3, <1>4, <1>5, <1>6, <1>7, <1>8 DEF IInv, PendingsOK
<1> QED  BY <1>9, <1>10, <1>11, <1>12, <1>13, <1>14, <1>15, <1>16, <1>17,
    <1>18, <1>19 DEF IInv

\* Failed attempts are finished; nothing else changes.
LEMMA NoEventInv ==
  ASSUME IInv, NoEvent
  PROVE  IInv'
<1>1. pc = "wait" /\ Where = "wait"
  BY DEF NoEvent, Where
<1>2. <<>> \in Seq(Fd) /\ ToSet(<<>>) = {} /\ IsInjective(<<>>)
  BY EmptyList
<1>3. LoopType' /\ Where' = "beat" /\ todo' = <<>> /\ pc' = "beat"
  BY <1>1, <1>2, GoesTo DEF IInv, ListsType, NoEvent, Pc
<1>4. pend' = FailedMarked
  BY DEF NoEvent
<1>5. /\ connections' = connections /\ servers' = servers
      /\ pendings' = pendings /\ open' = open /\ conn' = conn
      /\ server' = server /\ running' = running /\ owed' = owed
  BY DEF NoEvent, lists, recs
<1>6. /\ ToSet(connections) \subseteq Fd /\ ToSet(servers) \subseteq Fd
      /\ ToSet(pendings) \subseteq Fd /\ open \subseteq Fd
  BY ListSubset DEF IInv, ListsType
<1>7. \A p \in ToSet(pendings) :
        /\ pend'[p].fd = pend[p].fd /\ pend'[p].handled = pend[p].handled
        /\ pend'[p].atonce = pend[p].atonce /\ pend'[p].failed = pend[p].failed
        /\ pend'[p].answered = pend[p].answered
        /\ pend'[p].finished => pend[p].finished \/ pend[p].failed
        /\ pend'[p].failed => pend'[p].finished
  BY <1>4, <1>6 DEF FailedMarked, IInv, PendType, Pending
<1>8. ListsType'
  BY <1>1, <1>2, <1>3, <1>4, <1>5, <1>6, <1>7 DEF IInv, ListsType
<1>9. ConnType'
  BY <1>1, <1>2, <1>3, <1>4, <1>5, <1>6, <1>7 DEF IInv, ConnType
<1>10. ServerType'
  BY <1>1, <1>2, <1>3, <1>4, <1>5, <1>6, <1>7 DEF IInv, ServerType
<1>11. PendType'
  BY <1>4 DEF IInv, PendType, FailedMarked, Pending
<1>12. LoopType'
  BY <1>1, <1>2, <1>3, <1>4, <1>5, <1>6, <1>7 DEF IInv, LoopType
<1>13. TodoOK'
  BY <1>1, <1>2, <1>3, <1>4, <1>5, <1>6, <1>7 DEF IInv, TodoOK
<1>14. Owned'
  BY <1>1, <1>2, <1>3, <1>4, <1>5, <1>6, <1>7 DEF IInv, Owned
<1>15. CurOK'
  BY <1>1, <1>2, <1>3, <1>4, <1>5, <1>6, <1>7 DEF IInv, CurOK
<1>16. PortServedOnce'
  BY <1>1, <1>2, <1>3, <1>4, <1>5, <1>6, <1>7 DEF IInv, PortServedOnce
<1>17. OwedOK'
  BY <1>1, <1>2, <1>3, <1>4, <1>5, <1>6, <1>7 DEF IInv, OwedOK
<1>18. PendingsOK'
  BY <1>1, <1>2, <1>3, <1>4, <1>5, <1>6, <1>7 DEF IInv, PendingsOK
<1> QED  BY <1>8, <1>9, <1>10, <1>11, <1>12, <1>13, <1>14, <1>15, <1>16,
    <1>17, <1>18 DEF IInv

\* Clients get descriptors nobody has, each its own.
LEMMA SomeEventsInv ==
  ASSUME IInv, SomeEvents
  PROVE  IInv'
<1>1. PICK R \in SUBSET ToSet(connections), W \in SUBSET ToSet(connections),
           A \in SUBSET ToSet(servers), P \in SUBSET InProgress :
             Events(R, W, A, P)
  BY DEF SomeEvents
<1>2. pc = "wait" /\ Where = "wait"
  BY <1>1 DEF Events, Where
<1>3. LoopType' /\ Where' = "conns" /\ todo' = connections /\ pc' = "conns"
  BY <1>1, <1>2, GoesTo DEF IInv, ListsType, Events, Pc
<1>4. /\ connections' = connections /\ servers' = servers /\ pendings' = pendings
      /\ running' = running /\ owed' = owed
  BY <1>1 DEF Events
<1>5. /\ ToSet(connections) \subseteq Fd /\ ToSet(servers) \subseteq Fd
      /\ ToSet(pendings) \subseteq Fd /\ open \subseteq Fd
  BY ListSubset DEF IInv, ListsType
<1>6. conn' = [c \in Fd |-> [conn[c] EXCEPT !.readable = @ \/ c \in R,
                                             !.writable = @ \/ c \in W]]
  BY <1>1 DEF Events
<1>7. /\ ServerType' /\ open \subseteq open' /\ open' \subseteq Fd
      /\ \A s \in ToSet(servers) :
           /\ server'[s].port = server[s].port
           /\ \/ server'[s].client_socket = server[s].client_socket
              \/ /\ server'[s].client_socket \in Fd \ open
                 /\ server'[s].client_socket \in open'
      /\ \A s, t \in ToSet(servers) :
           server'[s].client_socket = server'[t].client_socket =>
             s = t \/ server'[s].client_socket \notin Fd \ open
  <2> PICK S \in SUBSET A : \E client \in Clients(S) :
           /\ server' = [s \in Fd |->
                IF s \in S
                THEN [server[s] EXCEPT !.client_socket = client[s]] ELSE server[s]]
           /\ open' = open \cup {client[s] : s \in S}
    BY <1>1 DEF Events
  <2> PICK client \in Clients(S) :
           /\ server' = [s \in Fd |->
                IF s \in S
                THEN [server[s] EXCEPT !.client_socket = client[s]] ELSE server[s]]
           /\ open' = open \cup {client[s] : s \in S}
    OBVIOUS
  <2>1. S \subseteq ToSet(servers) /\ S \subseteq Fd
    BY <1>5
  <2>2. \A s \in S : client[s] \in Fd \ open /\ client[s] \in open'
    BY DEF Clients
  <2>3. \A s, t \in S : client[s] = client[t] => s = t
    <3> TAKE s, t \in S
    <3>1. PICK i \in DOMAIN servers, j \in DOMAIN servers : s = servers[i] /\ t = servers[j]
      BY <2>1 DEF ToSet
    <3>2. i \in Nat /\ j \in Nat
      <4>1. servers \in Seq(Fd)
        BY DEF IInv, ListsType
      <4> QED  BY <4>1
    <3>3. i < j \/ j < i \/ i = j
      BY <3>2
    <3>4. client[s] \in Nat /\ client[t] \in Nat
      BY <2>2, FdIsNat
    <3>5. (i < j => client[s] < client[t]) /\ (j < i => client[t] < client[s])
      BY <3>1 DEF Clients
    <3> QED  BY <3>1, <3>3, <3>4, <3>5
  <2>4. \A s \in Fd : server[s] \in Server
    BY DEF IInv, ServerType
  <2>5. ServerType'
    BY <2>2, <2>4 DEF ServerType, Server
  <2>6. \A s \in ToSet(servers) :
          /\ server'[s].port = server[s].port
          /\ server'[s].client_socket = IF s \in S THEN client[s]
                                        ELSE server[s].client_socket
    BY <1>5, <2>4 DEF Server
  <2>7. \A s \in ToSet(servers) : server[s].client_socket # NoFd =>
                                    server[s].client_socket \in open
    BY DEF IInv, Owned
  <2>8. NoFd \notin Fd
    BY NoFdAssumption DEF Fd
  <2>9. open \subseteq open' /\ open' \subseteq Fd
    BY <1>5, <2>2
  <2>10. \A s \in ToSet(servers) : s \notin S =>
           server'[s].client_socket \notin Fd \ open
    BY <2>6, <2>7, <2>8
  <2>11. \A s, t \in ToSet(servers) :
           server'[s].client_socket = server'[t].client_socket =>
             s = t \/ server'[s].client_socket \notin Fd \ open
    <3> TAKE s, t \in ToSet(servers)
    <3>1. CASE s \in S /\ t \in S
      BY <2>3, <2>6, <3>1, SMTT(30)
    <3>2. CASE s \notin S \/ t \notin S
      BY <2>10, <3>2
    <3> QED  BY <3>1, <3>2
  <2>12. \A s \in ToSet(servers) :
           /\ server'[s].port = server[s].port
           /\ \/ server'[s].client_socket = server[s].client_socket
              \/ /\ server'[s].client_socket \in Fd \ open
                 /\ server'[s].client_socket \in open'
    BY <2>2, <2>6, ZenonT(30)
  <2> QED  BY <2>5, <2>9, <2>11, <2>12
<1>8. /\ PendType'
      /\ \A p \in ToSet(pendings) :
           /\ pend'[p].fd = pend[p].fd /\ pend'[p].handled = pend[p].handled
           /\ pend'[p].atonce = pend[p].atonce
           /\ pend'[p].answered = pend[p].answered
           /\ pend'[p].failed /\ ~pend'[p].finished => pend[p].failed /\ ~pend[p].finished
           /\ pend[p].finished => pend'[p].finished
  <2> PICK F \in SUBSET P :
           pend' = [p \in Fd |->
                      IF p \in F
                      THEN [pend[p] EXCEPT !.finished = TRUE, !.failed = TRUE]
                      ELSE IF p \in P THEN [pend[p] EXCEPT !.finished = TRUE]
                      ELSE FailedMarked[p]]
    BY <1>1 DEF Events
  <2>1. \A p \in Fd : pend[p] \in Pending
    BY DEF IInv, PendType
  <2>3. \A p \in Fd :
          /\ pend'[p] \in Pending
          /\ pend'[p].fd = pend[p].fd /\ pend'[p].handled = pend[p].handled
          /\ pend'[p].atonce = pend[p].atonce
          /\ pend'[p].answered = pend[p].answered
          /\ pend'[p].failed /\ ~pend'[p].finished => pend[p].failed /\ ~pend[p].finished
          /\ pend[p].finished => pend'[p].finished
    <3> TAKE p \in Fd
    <3>1. CASE p \in F
      <4>1. pend'[p] = [pend[p] EXCEPT !.finished = TRUE, !.failed = TRUE]
        BY <3>1
      <4> QED  BY <2>1, <4>1 DEF Pending
    <3>2. CASE p \in P /\ p \notin F
      <4>1. pend'[p] = [pend[p] EXCEPT !.finished = TRUE]
        BY <3>2
      <4> QED  BY <2>1, <4>1 DEF Pending
    <3>3. CASE p \notin P
      <4>1. pend'[p] = IF p \in ToSet(pendings) /\ pend[p].failed
                       THEN [pend[p] EXCEPT !.finished = TRUE] ELSE pend[p]
        BY <3>3 DEF FailedMarked
      <4> QED  BY <2>1, <4>1 DEF Pending
    <3> QED  BY <3>1, <3>2, <3>3
  <2>4. PendType'
    BY <2>3 DEF PendType
  <2> QED  BY <1>5, <2>3, <2>4
<1>9. ListsType'
  BY <1>4, <1>7 DEF IInv, ListsType
<1>10. ConnType'
  <2>1. \A c \in Fd : conn[c] \in Conn
    BY DEF IInv, ConnType
  <2>2. \A c \in Fd : [conn[c] EXCEPT !.readable = @ \/ c \in R,
                                       !.writable = @ \/ c \in W] \in Conn
    <3> TAKE c \in Fd
    <3> DEFINE r == conn[c].readable \/ c \in R
               w == conn[c].writable \/ c \in W
    <3>1. r \in BOOLEAN /\ w \in BOOLEAN
      OBVIOUS
    <3>2. [conn[c] EXCEPT !.readable = @ \/ c \in R, !.writable = @ \/ c \in W]
            = [conn[c] EXCEPT !.readable = r, !.writable = w]
      OBVIOUS
    <3> HIDE DEF r, w
    <3> QED  BY <2>1, <3>1, <3>2 DEF Conn
  <2> QED  BY <1>4, <1>6, <2>2 DEF IInv, ConnType
<1>11. ServerType'
  BY <1>7
<1>12. PendType'
  BY <1>8
<1>13. LoopType'
  BY <1>3
<1>14. TodoOK'
  BY <1>3, <1>4 DEF IInv, TodoOK, ListsType
<1>15. Owned'
  <2>1. Owned
    BY DEF IInv
  <2>2. \A s \in ToSet(servers') : server'[s].client_socket # NoFd =>
          server'[s].client_socket \in
            open' \ (ToSet(connections') \cup ToSet(servers'))
    BY <1>4, <1>7, <2>1 DEF Owned
  <2>3. \A s \in ToSet(servers'), p \in ToSet(pendings') :
          server'[s].client_socket # NoFd /\ ~pend'[p].handled =>
            server'[s].client_socket # pend'[p].fd
    BY <1>4, <1>7, <1>8, <2>1 DEF Owned
  <2>4. \A s, t \in ToSet(servers') :
          server'[s].client_socket # NoFd
            /\ server'[s].client_socket = server'[t].client_socket => s = t
    <3> SUFFICES ASSUME NEW s \in ToSet(servers), NEW t \in ToSet(servers),
                        server'[s].client_socket # NoFd,
                        server'[s].client_socket = server'[t].client_socket
                 PROVE  s = t
      BY <1>4
    <3>1. CASE server'[s].client_socket \in Fd \ open
      BY <1>7, <3>1
    <3>2. CASE server'[s].client_socket \notin Fd \ open
      BY <1>7, <2>1, <3>2 DEF Owned
    <3> QED  BY <3>1, <3>2
  <2>5. /\ ToSet(connections') \cup ToSet(servers') \subseteq open'
        /\ ToSet(connections') \cap ToSet(servers') = {}
        /\ \A p \in ToSet(pendings') : ~pend'[p].handled =>
             pend'[p].fd \in open' \ (ToSet(connections') \cup ToSet(servers'))
        /\ \A p, q \in ToSet(pendings') :
             ~pend'[p].handled /\ ~pend'[q].handled /\ pend'[p].fd = pend'[q].fd
               => p = q
    BY <1>4, <1>7, <1>8, <2>1 DEF Owned
  <2> QED  BY <1>3, <2>2, <2>3, <2>4, <2>5 DEF Owned
<1>16. CurOK'
  BY <1>1, <1>2, <1>3, <1>4, <1>5, <1>6, <1>7, <1>8 DEF IInv, CurOK
<1>17. PortServedOnce'
  BY <1>1, <1>2, <1>3, <1>4, <1>5, <1>6, <1>7, <1>8 DEF IInv, PortServedOnce
<1>18. OwedOK'
  <2>1. \A c \in ToSet(connections) : c \in Fd /\ conn[c] \in Conn
    BY <1>5 DEF IInv, ConnType
  <2>2. \A c \in ToSet(connections) : conn'[c].output = conn[c].output
    BY <1>5, <1>6, <2>1 DEF Conn
  <2> QED  BY <1>2, <1>3, <1>4, <2>2 DEF IInv, OwedOK, Where
<1>19. PendingsOK'
  BY <1>1, <1>2, <1>3, <1>4, <1>5, <1>6, <1>7, <1>8 DEF IInv, PendingsOK
<1> QED  BY <1>9, <1>10, <1>11, <1>12, <1>13, <1>14, <1>15, <1>16, <1>17,
    <1>18, <1>19 DEF IInv

\* The walk over the servers begins.
LEMMA ConnectionsDoneInv ==
  ASSUME IInv, ConnectionsDone
  PROVE  IInv'
<1>1. pc = "conns" /\ Where = "conns"
  BY DEF ConnectionsDone, Where
<1>2. <<>> \in Seq(Fd) /\ ToSet(<<>>) = {} /\ IsInjective(<<>>)
  BY EmptyList
<1>3. LoopType' /\ Where' = "servers" /\ todo' = servers /\ pc' = "servers"
  BY <1>1, <1>2, GoesTo DEF IInv, ListsType, ConnectionsDone, Pc
<1>4. /\ connections' = connections /\ servers' = servers
      /\ pendings' = pendings /\ open' = open /\ conn' = conn
      /\ server' = server /\ pend' = pend /\ running' = running
      /\ owed' = owed
  BY DEF ConnectionsDone, lists, recs
<1>5. todo = <<>>
  BY DEF ConnectionsDone
<1>6. ListsType'
  BY <1>1, <1>2, <1>3, <1>4, <1>5 DEF IInv, ListsType
<1>7. ConnType'
  BY <1>1, <1>2, <1>3, <1>4, <1>5 DEF IInv, ConnType
<1>8. ServerType'
  BY <1>1, <1>2, <1>3, <1>4, <1>5 DEF IInv, ServerType
<1>9. PendType'
  BY <1>1, <1>2, <1>3, <1>4, <1>5 DEF IInv, PendType
<1>10. LoopType'
  BY <1>1, <1>2, <1>3, <1>4, <1>5 DEF IInv, LoopType
<1>11. TodoOK'
  BY <1>1, <1>2, <1>3, <1>4 DEF IInv, TodoOK, ListsType
<1>12. Owned'
  BY <1>1, <1>2, <1>3, <1>4, <1>5 DEF IInv, Owned
<1>13. CurOK'
  BY <1>1, <1>2, <1>3, <1>4, <1>5 DEF IInv, CurOK
<1>14. PortServedOnce'
  BY <1>1, <1>2, <1>3, <1>4, <1>5 DEF IInv, PortServedOnce
<1>15. OwedOK'
  BY <1>1, <1>2, <1>3, <1>4, <1>5 DEF IInv, OwedOK
<1>16. PendingsOK'
  BY <1>1, <1>2, <1>3, <1>4, <1>5 DEF IInv, PendingsOK
<1> QED  BY <1>6, <1>7, <1>8, <1>9, <1>10, <1>11, <1>12, <1>13, <1>14, <1>15,
    <1>16 DEF IInv

\* The walk over the pending connections begins.
LEMMA ServersDoneInv ==
  ASSUME IInv, ServersDone
  PROVE  IInv'
<1>1. pc = "servers" /\ Where = "servers"
  BY DEF ServersDone, Where
<1>2. <<>> \in Seq(Fd) /\ ToSet(<<>>) = {} /\ IsInjective(<<>>)
  BY EmptyList
<1>3. LoopType' /\ Where' = "pends" /\ todo' = pendings /\ pc' = "pends"
  BY <1>1, <1>2, GoesTo DEF IInv, ListsType, ServersDone, Pc
<1>4. /\ connections' = connections /\ servers' = servers
      /\ pendings' = pendings /\ open' = open /\ conn' = conn
      /\ server' = server /\ pend' = pend /\ running' = running
      /\ owed' = owed
  BY DEF ServersDone, lists, recs
<1>5. todo = <<>>
  BY DEF ServersDone
<1>6. ListsType'
  BY <1>1, <1>2, <1>3, <1>4, <1>5 DEF IInv, ListsType
<1>7. ConnType'
  BY <1>1, <1>2, <1>3, <1>4, <1>5 DEF IInv, ConnType
<1>8. ServerType'
  BY <1>1, <1>2, <1>3, <1>4, <1>5 DEF IInv, ServerType
<1>9. PendType'
  BY <1>1, <1>2, <1>3, <1>4, <1>5 DEF IInv, PendType
<1>10. LoopType'
  BY <1>1, <1>2, <1>3, <1>4, <1>5 DEF IInv, LoopType
<1>11. TodoOK'
  BY <1>1, <1>2, <1>3, <1>4 DEF IInv, TodoOK, ListsType
<1>12. Owned'
  BY <1>1, <1>2, <1>3, <1>4, <1>5 DEF IInv, Owned
<1>13. CurOK'
  BY <1>1, <1>2, <1>3, <1>4, <1>5 DEF IInv, CurOK
<1>14. PortServedOnce'
  BY <1>1, <1>2, <1>3, <1>4, <1>5 DEF IInv, PortServedOnce
<1>15. OwedOK'
  BY <1>1, <1>2, <1>3, <1>4, <1>5 DEF IInv, OwedOK
<1>16. PendingsOK'
  BY <1>1, <1>2, <1>3, <1>4, <1>5 DEF IInv, PendingsOK
<1> QED  BY <1>6, <1>7, <1>8, <1>9, <1>10, <1>11, <1>12, <1>13, <1>14, <1>15,
    <1>16 DEF IInv

\* The walks are over.
LEMMA PendingsDoneInv ==
  ASSUME IInv, PendingsDone
  PROVE  IInv'
<1>1. pc = "pends" /\ Where = "pends"
  BY DEF PendingsDone, Where
<1>2. <<>> \in Seq(Fd) /\ ToSet(<<>>) = {} /\ IsInjective(<<>>)
  BY EmptyList
<1>3. LoopType' /\ Where' = "beat" /\ todo' = <<>> /\ pc' = "beat"
  BY <1>1, <1>2, GoesTo DEF IInv, ListsType, PendingsDone, Pc
<1>4. /\ connections' = connections /\ servers' = servers
      /\ pendings' = pendings /\ open' = open /\ conn' = conn
      /\ server' = server /\ pend' = pend /\ running' = running
      /\ owed' = owed
  BY DEF PendingsDone, lists, recs
<1>5. todo = <<>>
  BY DEF PendingsDone
<1>6. ListsType'
  BY <1>1, <1>2, <1>3, <1>4, <1>5 DEF IInv, ListsType
<1>7. ConnType'
  BY <1>1, <1>2, <1>3, <1>4, <1>5 DEF IInv, ConnType
<1>8. ServerType'
  BY <1>1, <1>2, <1>3, <1>4, <1>5 DEF IInv, ServerType
<1>9. PendType'
  BY <1>1, <1>2, <1>3, <1>4, <1>5 DEF IInv, PendType
<1>10. LoopType'
  BY <1>1, <1>2, <1>3, <1>4, <1>5 DEF IInv, LoopType
<1>11. TodoOK'
  BY <1>1, <1>2, <1>3, <1>4 DEF IInv, TodoOK, ListsType
<1>12. Owned'
  BY <1>1, <1>2, <1>3, <1>4, <1>5 DEF IInv, Owned
<1>13. CurOK'
  BY <1>1, <1>2, <1>3, <1>4, <1>5 DEF IInv, CurOK
<1>14. PortServedOnce'
  BY <1>1, <1>2, <1>3, <1>4, <1>5 DEF IInv, PortServedOnce
<1>15. OwedOK'
  BY <1>1, <1>2, <1>3, <1>4, <1>5 DEF IInv, OwedOK
<1>16. PendingsOK'
  BY <1>1, <1>2, <1>3, <1>4, <1>5 DEF IInv, PendingsOK
<1> QED  BY <1>6, <1>7, <1>8, <1>9, <1>10, <1>11, <1>12, <1>13, <1>14, <1>15,
    <1>16 DEF IInv

\* The turn ends, with a task or without.
LEMMA HeartbeatInv ==
  ASSUME IInv, Heartbeat
  PROVE  IInv'
<1>1. pc = "beat" /\ Where = "beat"
  BY DEF Heartbeat, Where
<1>2. <<>> \in Seq(Fd) /\ ToSet(<<>>) = {} /\ IsInjective(<<>>)
  BY EmptyList
<1>3. LoopType' /\ Where' = "top" /\ todo' = <<>> /\ (pc' = "task" => cur_conn' = NoFd)
  <2>1. LoopType /\ UNCHANGED <<running, heartbeat_freq>>
    BY DEF IInv, Heartbeat
  <2>2. CASE StartTask(NoFd, "top", <<>>)
    BY <1>1, <1>2, <2>1, <2>2, Starts DEF Places
  <2>3. CASE GoTo("top", <<>>)
    <3>1. "top" \in Pc \ {"task"}
      BY DEF Pc
    <3> QED  BY <1>2, <2>1, <2>3, <3>1, GoesTo
  <2> QED  BY <2>2, <2>3 DEF Heartbeat
<1>4. /\ connections' = connections /\ servers' = servers
      /\ pendings' = pendings /\ open' = open /\ conn' = conn
      /\ server' = server /\ pend' = pend /\ running' = running
      /\ owed' = owed
  BY DEF Heartbeat, lists, recs
<1>5. ListsType'
  BY <1>1, <1>2, <1>3, <1>4 DEF IInv, ListsType
<1>6. ConnType'
  BY <1>1, <1>2, <1>3, <1>4 DEF IInv, ConnType
<1>7. ServerType'
  BY <1>1, <1>2, <1>3, <1>4 DEF IInv, ServerType
<1>8. PendType'
  BY <1>1, <1>2, <1>3, <1>4 DEF IInv, PendType
<1>9. LoopType'
  BY <1>1, <1>2, <1>3, <1>4 DEF IInv, LoopType
<1>10. TodoOK'
  BY <1>1, <1>2, <1>3, <1>4 DEF IInv, TodoOK
<1>11. Owned'
  BY <1>1, <1>2, <1>3, <1>4 DEF IInv, Owned
<1>12. CurOK'
  BY <1>1, <1>2, <1>3, <1>4 DEF IInv, CurOK
<1>13. PortServedOnce'
  BY <1>1, <1>2, <1>3, <1>4 DEF IInv, PortServedOnce
<1>14. OwedOK'
  BY <1>1, <1>2, <1>3, <1>4 DEF IInv, OwedOK
<1>15. PendingsOK'
  BY <1>1, <1>2, <1>3, <1>4 DEF IInv, PendingsOK
<1> QED  BY <1>5, <1>6, <1>7, <1>8, <1>9, <1>10, <1>11, <1>12, <1>13, <1>14,
    <1>15 DEF IInv

\* The connection stays in the list, whatever read() said.
LEMMA ReadInv ==
  ASSUME IInv, Read
  PROVE  IInv'
<1>1. pc = "conns" /\ Where = "conns" /\ todo # <<>>
  BY DEF Read, Where
<1>2. /\ Head(todo) \in Fd /\ Head(todo) \in ToSet(connections) /\ Tail(todo) \in Seq(Fd)
      /\ ToSet(todo) = ToSet(Tail(todo)) \cup {Head(todo)}
      /\ Head(todo) \notin ToSet(Tail(todo)) /\ IsInjective(Tail(todo))
      /\ todo \in Seq(Fd) /\ IsInjective(todo) /\ ToSet(todo) \subseteq ToSet(connections)
  <2>1. todo \in Seq(Fd) /\ todo # <<>> /\ IsInjective(todo)
        /\ ToSet(todo) \subseteq ToSet(connections)
    BY <1>1 DEF Read, IInv, LoopType, TodoOK
  <2> QED  BY <2>1, TailProperties
<1>3. /\ ToSet(connections) \subseteq Fd /\ ToSet(servers) \subseteq Fd
      /\ ToSet(pendings) \subseteq Fd /\ open \subseteq Fd
  BY ListSubset DEF IInv, ListsType
<1>4. /\ connections' = connections /\ servers' = servers
      /\ pendings' = pendings /\ open' = open /\ server' = server
      /\ pend' = pend /\ running' = running /\ owed' = owed
  BY DEF Read, lists, recs
<1>5. LoopType' /\ Where' = "write" /\ todo' = todo
      /\ (pc' = "task" => cur_conn' = Head(todo))
  <2>1. LoopType /\ UNCHANGED <<running, heartbeat_freq>>
    BY DEF IInv, Read
  <2>2. CASE StartTask(Head(todo), "write", todo)
    BY <1>1, <1>2, <2>1, <2>2, Starts DEF Places
  <2>3. CASE GoTo("write", todo)
    <3>1. "write" \in Pc \ {"task"}
      BY DEF Pc
    <3> QED  BY <1>2, <2>1, <2>3, <3>1, GoesTo
  <2> QED  BY <2>2, <2>3 DEF Read
<1>6. conn' = conn \/ \E v \in Conn :
        v.output = conn[Head(todo)].output /\ conn' = [conn EXCEPT ![Head(todo)] = v]
  <2> DEFINE h == Head(todo)
  <2>1. conn[h] \in Conn
    BY <1>2 DEF IInv, ConnType
  <2>2. CASE conn' = [conn EXCEPT ![h].readable = FALSE, ![h].dead = TRUE]
    <3> DEFINE v == [conn[h] EXCEPT !.readable = FALSE, !.dead = TRUE]
    <3>1. v \in Conn /\ v.output = conn[h].output
      BY <2>1 DEF Conn
    <3>2. conn' = [conn EXCEPT ![h] = v]
      BY <1>2, <2>2 DEF IInv, ConnType
    <3> HIDE DEF v
    <3> QED  BY <3>1, <3>2
  <2>3. CASE conn' = [conn EXCEPT ![h].readable = FALSE]
    <3> DEFINE v == [conn[h] EXCEPT !.readable = FALSE]
    <3>1. v \in Conn /\ v.output = conn[h].output
      BY <2>1 DEF Conn
    <3>2. conn' = [conn EXCEPT ![h] = v]
      BY <1>2, <2>3 DEF IInv, ConnType
    <3> HIDE DEF v
    <3> QED  BY <3>1, <3>2
  <2> QED  BY <2>2, <2>3 DEF Read
<1>7. ListsType'
  BY <1>1, <1>2, <1>3, <1>4, <1>5, <1>6 DEF IInv, ListsType
<1>8. ConnType'
  BY <1>2, <1>4, <1>6 DEF IInv, ConnType
<1>9. ServerType'
  BY <1>1, <1>2, <1>3, <1>4, <1>5, <1>6 DEF IInv, ServerType
<1>10. PendType'
  BY <1>1, <1>2, <1>3, <1>4, <1>5, <1>6 DEF IInv, PendType
<1>11. LoopType'
  BY <1>1, <1>2, <1>3, <1>4, <1>5, <1>6 DEF IInv, LoopType
<1>12. TodoOK'
  BY <1>1, <1>2, <1>3, <1>4, <1>5, <1>6 DEF IInv, TodoOK
<1>13. Owned'
  BY <1>1, <1>2, <1>3, <1>4, <1>5, <1>6 DEF IInv, Owned
<1>14. CurOK'
  BY <1>1, <1>2, <1>3, <1>4, <1>5, <1>6 DEF IInv, CurOK
<1>15. PortServedOnce'
  BY <1>1, <1>2, <1>3, <1>4, <1>5, <1>6 DEF IInv, PortServedOnce
<1>16. OwedOK'
  <2>1. \A c \in ToSet(connections) : conn'[c].output = conn[c].output
    BY <1>2, <1>3, <1>6 DEF IInv, ConnType
  <2> QED  BY <1>1, <1>4, <2>1 DEF IInv, OwedOK
<1>17. PendingsOK'
  BY <1>1, <1>2, <1>3, <1>4, <1>5, <1>6 DEF IInv, PendingsOK
<1> QED  BY <1>7, <1>8, <1>9, <1>10, <1>11, <1>12, <1>13, <1>14, <1>15, <1>16,
    <1>17 DEF IInv

\* A connection after write()
LEMMA Written ==
  ASSUME NEW c \in Conn
  PROVE  /\ \A r \in 1 .. c.output :
              LET v == [c EXCEPT !.output = @ - r, !.writable = FALSE]
              IN  v \in Conn /\ v.output = c.output - r
         /\ LET v == [c EXCEPT !.output = 0, !.writable = FALSE, !.dead = TRUE]
            IN  v \in Conn /\ v.output = 0
<1>1. c.output \in 0 .. MaxOutput
  BY DEF Conn
<1>2. 0 \in 0 .. MaxOutput /\ \A r \in 1 .. c.output : c.output - r \in 0 .. MaxOutput
  BY <1>1, MaxOutputAssumption
<1>3. \A o \in 0 .. MaxOutput :
        LET v == [c EXCEPT !.output = o, !.writable = FALSE]
        IN  v \in Conn /\ v.output = o
  BY DEF Conn
<1>4. LET v == [c EXCEPT !.output = 0, !.writable = FALSE, !.dead = TRUE]
      IN  v \in Conn /\ v.output = 0
  BY <1>2 DEF Conn
<1> QED  BY <1>2, <1>3, <1>4

\* What is written is owed no more.
LEMMA WriteInv ==
  ASSUME IInv, Write
  PROVE  IInv'
<1>1. pc = "write" /\ Where = "write" /\ todo # <<>>
  BY DEF Write, Where, IInv, TodoOK
<1>2. /\ Head(todo) \in Fd /\ Head(todo) \in ToSet(connections) /\ Tail(todo) \in Seq(Fd)
      /\ ToSet(todo) = ToSet(Tail(todo)) \cup {Head(todo)}
      /\ Head(todo) \notin ToSet(Tail(todo)) /\ IsInjective(Tail(todo))
      /\ todo \in Seq(Fd) /\ IsInjective(todo) /\ ToSet(todo) \subseteq ToSet(connections)
  <2>1. todo \in Seq(Fd) /\ todo # <<>> /\ IsInjective(todo)
        /\ ToSet(todo) \subseteq ToSet(connections)
    BY <1>1 DEF Write, IInv, LoopType, TodoOK
  <2> QED  BY <2>1, TailProperties
<1>3. /\ ToSet(connections) \subseteq Fd /\ ToSet(servers) \subseteq Fd
      /\ ToSet(pendings) \subseteq Fd /\ open \subseteq Fd
  BY ListSubset DEF IInv, ListsType
<1>4. /\ connections' = connections /\ servers' = servers
      /\ pendings' = pendings /\ open' = open /\ server' = server
      /\ pend' = pend /\ running' = running
  BY DEF Write, lists, recs
<1>5. LoopType' /\ Where' = "conns" /\ todo' = Tail(todo) /\ pc' = "conns"
  BY <1>1, <1>2, GoesTo DEF IInv, ListsType, Write, Pc
<1>6. \/ conn' = conn /\ owed' = owed
      \/ \E v \in Conn : /\ conn' = [conn EXCEPT ![Head(todo)] = v]
                         /\ owed' = [owed EXCEPT ![Head(todo)] = v.output]
  <2> DEFINE h == Head(todo)
  <2>1. conn[h] \in Conn /\ owed[h] = conn[h].output
    BY <1>1, <1>2 DEF IInv, ConnType, OwedOK
  <2>2. conn \in [Fd -> Conn] /\ h \in Fd
    BY <1>2 DEF IInv, ConnType
  <2>3. ASSUME NEW r \in 1 .. conn[h].output,
               conn' = [conn EXCEPT ![h].output = @ - r, ![h].writable = FALSE],
               owed' = [owed EXCEPT ![h] = @ - r]
        PROVE  \E v \in Conn : /\ conn' = [conn EXCEPT ![h] = v]
                            /\ owed' = [owed EXCEPT ![h] = v.output]
    <3> DEFINE v == [conn[h] EXCEPT !.output = @ - r, !.writable = FALSE]
    <3>1. v \in Conn /\ v.output = owed[h] - r
      BY <2>1, Written
    <3>2. conn' = [conn EXCEPT ![h] = v]
      BY <2>2, <2>3
    <3> HIDE DEF v
    <3> QED  BY <2>3, <3>1, <3>2
  <2>4. ASSUME conn' = [conn EXCEPT ![h].output = 0, ![h].writable = FALSE,
                                    ![h].dead = TRUE],
               owed' = [owed EXCEPT ![h] = 0]
        PROVE  \E v \in Conn : /\ conn' = [conn EXCEPT ![h] = v]
                            /\ owed' = [owed EXCEPT ![h] = v.output]
    <3> DEFINE v == [conn[h] EXCEPT !.output = 0, !.writable = FALSE, !.dead = TRUE]
    <3>1. v \in Conn /\ v.output = 0
      BY <2>1, Written
    <3>2. conn' = [conn EXCEPT ![h] = v]
      BY <2>2, <2>4
    <3> HIDE DEF v
    <3> QED  BY <2>4, <3>1, <3>2
  <2> QED  BY <2>3, <2>4 DEF Write
<1>7. ListsType'
  BY <1>1, <1>2, <1>3, <1>4, <1>5, <1>6 DEF IInv, ListsType
<1>8. ConnType'
  BY <1>2, <1>6, MaxOutputAssumption DEF IInv, ConnType, Conn
<1>9. ServerType'
  BY <1>1, <1>2, <1>3, <1>4, <1>5, <1>6 DEF IInv, ServerType
<1>10. PendType'
  BY <1>1, <1>2, <1>3, <1>4, <1>5, <1>6 DEF IInv, PendType
<1>11. LoopType'
  BY <1>1, <1>2, <1>3, <1>4, <1>5, <1>6 DEF IInv, LoopType
<1>12. TodoOK'
  BY <1>1, <1>2, <1>4, <1>5 DEF IInv, TodoOK
<1>13. Owned'
  BY <1>4, <1>5 DEF IInv, Owned
<1>14. CurOK'
  BY <1>1, <1>2, <1>3, <1>4, <1>5, <1>6 DEF IInv, CurOK
<1>15. PortServedOnce'
  BY <1>1, <1>2, <1>3, <1>4, <1>5, <1>6 DEF IInv, PortServedOnce
<1>16. OwedOK'
  <2>1. \A c \in ToSet(connections) : owed[c] = conn[c].output
    BY <1>1 DEF IInv, OwedOK
  <2>2. conn \in [Fd -> Conn] /\ owed \in [Fd -> 0 .. MaxOutput]
    BY DEF IInv, ConnType
  <2>3. \A c \in ToSet(connections) : owed'[c] = conn'[c].output
    BY <1>2, <1>3, <1>6, <2>1, <2>2
  <2> QED  BY <1>4, <2>3 DEF OwedOK
<1>17. PendingsOK'
  BY <1>1, <1>4, <1>5 DEF IInv, PendingsOK
<1> QED  BY <1>7, <1>8, <1>9, <1>10, <1>11, <1>12, <1>13, <1>14, <1>15, <1>16,
    <1>17 DEF IInv

\* connection_add() of a descriptor nobody has
LEMMA Adds ==
  ASSUME IInv, NEW f \in open \ ToSet(connections), NEW d \in Dbref, Add(f, d)
  PROVE  /\ connections' \in Seq(Fd) /\ IsInjective(connections')
         /\ ToSet(connections') = ToSet(connections) \cup {f}
         /\ ConnType' /\ owed'[f] = conn'[f].output
         /\ \A c \in ToSet(connections) : conn'[c] = conn[c] /\ owed'[c] = owed[c]
<1>1. /\ connections \in Seq(Fd) /\ IsInjective(connections) /\ f \in Fd
      /\ f \notin ToSet(connections)
  BY DEF IInv, ListsType
<1>2. /\ connections' \in Seq(Fd) /\ IsInjective(connections')
      /\ ToSet(connections') = ToSet(connections) \cup {f}
  BY <1>1, AddedProperties DEF Add
<1>3. NewConn(d) \in Conn /\ NewConn(d).output = 0 /\ 0 \in 0 .. MaxOutput
  BY MaxOutputAssumption DEF NewConn, Conn
<1>4. /\ conn' = [conn EXCEPT ![f] = NewConn(d)]
      /\ owed' = [owed EXCEPT ![f] = 0]
      /\ conn \in [Fd -> Conn] /\ owed \in [Fd -> 0 .. MaxOutput]
  BY DEF Add, IInv, ConnType
<1>5. ConnType' /\ owed'[f] = conn'[f].output
  BY <1>1, <1>3, <1>4 DEF ConnType
<1>6. \A c \in ToSet(connections) : conn'[c] = conn[c] /\ owed'[c] = owed[c]
  BY <1>1, <1>4, ListSubset
<1> QED  BY <1>2, <1>5, <1>6

\* The client's descriptor goes from the server to a connection.
LEMMA AcceptInv ==
  ASSUME IInv, Accept
  PROVE  IInv'
<1>1. pc = "servers" /\ Where = "servers" /\ todo # <<>>
  BY DEF Accept, Where
<1>2. /\ Head(todo) \in Fd /\ Head(todo) \in ToSet(servers) /\ Tail(todo) \in Seq(Fd)
      /\ ToSet(todo) = ToSet(Tail(todo)) \cup {Head(todo)}
      /\ Head(todo) \notin ToSet(Tail(todo)) /\ IsInjective(Tail(todo))
      /\ todo \in Seq(Fd) /\ IsInjective(todo) /\ ToSet(todo) \subseteq ToSet(servers)
  <2>1. todo \in Seq(Fd) /\ todo # <<>> /\ IsInjective(todo)
        /\ ToSet(todo) \subseteq ToSet(servers)
    BY <1>1 DEF Accept, IInv, LoopType, TodoOK
  <2> QED  BY <2>1, TailProperties
<1>3. /\ ToSet(connections) \subseteq Fd /\ ToSet(servers) \subseteq Fd
      /\ ToSet(pendings) \subseteq Fd /\ open \subseteq Fd
  BY ListSubset DEF IInv, ListsType
<1>4. /\ servers' = servers /\ pendings' = pendings /\ open' = open
      /\ pend' = pend /\ running' = running
  BY DEF Accept, lists, recs
<1>5. server[Head(todo)] \in Server /\ server \in [Fd -> Server] /\ NoFd \notin Fd
      /\ Owned /\ LoopType /\ UNCHANGED <<running, heartbeat_freq>>
      /\ server[Head(todo)].dbref \in Dbref
  BY <1>2, NoFdAssumption DEF IInv, ServerType, Accept, Fd, Server
<1>6. /\ LoopType' /\ Where' = "servers" /\ todo' = Tail(todo)
      /\ \/ /\ pc' # "task" /\ connections' = connections /\ conn' = conn
            /\ server' = server /\ owed' = owed
         \/ \E f \in open \ (ToSet(connections) \cup ToSet(servers)) :
              /\ f = server[Head(todo)].client_socket /\ f # NoFd
              /\ Add(f, server[Head(todo)].dbref)
              /\ server' = [server EXCEPT ![Head(todo)] =
                             [server[Head(todo)] EXCEPT !.client_socket = NoFd]]
              /\ pc' = "task" => cur_conn' = f
  <2> DEFINE s == Head(todo)
             f == server[s].client_socket
  <2>1. CASE /\ GoTo("servers", Tail(todo))
             /\ UNCHANGED <<connections, conn, server, owed>>
    <3>1. "servers" \in Pc \ {"task"}
      BY DEF Pc
    <3>2. LoopType' /\ Where' = "servers" /\ todo' = Tail(todo) /\ pc' = "servers"
      BY <1>2, <1>5, <2>1, <3>1, GoesTo
    <3> QED  BY <2>1, <3>2
  <2>2. CASE /\ f # NoFd
             /\ Add(f, server[s].dbref)
             /\ server' = [server EXCEPT ![s].client_socket = NoFd]
             /\ StartTask(f, "servers", Tail(todo))
    <3>1. f \in open \ (ToSet(connections) \cup ToSet(servers)) /\ f \in Fd
      BY <1>2, <1>3, <1>5, <2>2 DEF Owned
    <3>2. /\ LoopType' /\ Where' = "servers" /\ todo' = Tail(todo)
          /\ pc' = "task" => cur_conn' = f
      BY <1>1, <1>2, <1>5, <2>2, <3>1, Starts DEF Places
    <3>3. server' = [server EXCEPT ![s] = [server[s] EXCEPT !.client_socket = NoFd]]
      BY <1>2, <1>5, <2>2
    <3> DEFINE v == [server[s] EXCEPT !.client_socket = NoFd]
    <3>4. f # NoFd /\ Add(f, server[s].dbref) /\ server' = [server EXCEPT ![s] = v]
      BY <2>2, <3>3
    <3> HIDE DEF v
    <3>5. \E g \in open \ (ToSet(connections) \cup ToSet(servers)) :
            /\ g = f /\ g # NoFd /\ Add(g, server[s].dbref)
            /\ server' = [server EXCEPT ![s] = v]
            /\ pc' = "task" => cur_conn' = g
      BY <3>1, <3>2, <3>4
    <3> QED  BY <3>2, <3>5 DEF v
  <2> QED  BY <2>1, <2>2 DEF Accept
<1>7. \/ /\ pc' # "task" /\ connections' = connections /\ conn' = conn
         /\ server' = server /\ owed' = owed
      \/ \E f \in open \ (ToSet(connections) \cup ToSet(servers)) :
           /\ f = server[Head(todo)].client_socket /\ f # NoFd
           /\ ServerType' /\ server'[Head(todo)].client_socket = NoFd
           /\ \A s \in Fd : server'[s].port = server[s].port
           /\ \A s \in Fd : s # Head(todo) => server'[s] = server[s]
           /\ pc' = "task" => cur_conn' = f
           /\ connections' \in Seq(Fd) /\ IsInjective(connections')
           /\ ToSet(connections') = ToSet(connections) \cup {f}
           /\ ConnType' /\ owed'[f] = conn'[f].output
           /\ \A c \in ToSet(connections) :
                conn'[c] = conn[c] /\ owed'[c] = owed[c]
  <2> SUFFICES ASSUME NEW f \in open \ (ToSet(connections) \cup ToSet(servers)),
                      Add(f, server[Head(todo)].dbref),
                      server' = [server EXCEPT ![Head(todo)] =
                             [server[Head(todo)] EXCEPT !.client_socket = NoFd]]
               PROVE  /\ ServerType' /\ server'[Head(todo)].client_socket = NoFd
                      /\ \A s \in Fd : server'[s].port = server[s].port
                      /\ \A s \in Fd : s # Head(todo) => server'[s] = server[s]
                      /\ connections' \in Seq(Fd) /\ IsInjective(connections')
                      /\ ToSet(connections') = ToSet(connections) \cup {f}
                      /\ ConnType' /\ owed'[f] = conn'[f].output
                      /\ \A c \in ToSet(connections) :
                           conn'[c] = conn[c] /\ owed'[c] = owed[c]
    BY <1>6
  <2> DEFINE v == [server[Head(todo)] EXCEPT !.client_socket = NoFd]
  <2>1. v \in Server /\ v.client_socket = NoFd /\ v.port = server[Head(todo)].port
    BY <1>5 DEF Server
  <2>2. server' = [server EXCEPT ![Head(todo)] = v]
    OBVIOUS
  <2> HIDE DEF v
  <2>3. /\ ServerType' /\ server'[Head(todo)].client_socket = NoFd
        /\ \A s \in Fd : server'[s].port = server[s].port
        /\ \A s \in Fd : s # Head(todo) => server'[s] = server[s]
    BY <1>2, <1>5, <2>1, <2>2 DEF ServerType
  <2> QED  BY <1>5, <2>3, Adds
<1>8. ListsType'
  BY <1>4, <1>7 DEF IInv, ListsType
<1>9. ConnType'
  BY <1>7 DEF IInv, ConnType
<1>10. ServerType'
  BY <1>7 DEF IInv, ServerType
<1>11. PendType'
  BY <1>4 DEF IInv, PendType
<1>12. LoopType'
  BY <1>6
<1>13. TodoOK'
  BY <1>1, <1>2, <1>4, <1>6 DEF IInv, TodoOK
<1>14. Owned'
  <2>1. CASE connections' = connections /\ server' = server
    BY <1>4, <1>5, <1>6, <2>1 DEF Owned
  <2>2. ASSUME NEW f \in open \ (ToSet(connections) \cup ToSet(servers)),
               f = server[Head(todo)].client_socket, f # NoFd,
               server'[Head(todo)].client_socket = NoFd,
               \A s \in Fd : s # Head(todo) => server'[s] = server[s],
               ToSet(connections') = ToSet(connections) \cup {f}
        PROVE  Owned'
    <3>1. \A s \in ToSet(servers) : server'[s].client_socket # NoFd =>
            /\ server'[s] = server[s] /\ server[s].client_socket # f
            /\ s # Head(todo)
      BY <1>2, <1>3, <1>5, <2>2 DEF Owned
    <3>2. \A p \in ToSet(pendings) : ~pend[p].handled => pend[p].fd # f
      BY <1>2, <1>5, <2>2 DEF Owned
    <3> QED  BY <1>4, <1>5, <1>6, <2>2, <3>1, <3>2 DEF Owned
  <2> QED  BY <1>7, <2>1, <2>2
<1>15. CurOK'
  BY <1>7 DEF CurOK
<1>16. PortServedOnce'
  BY <1>3, <1>4, <1>7 DEF IInv, PortServedOnce
<1>17. OwedOK'
  BY <1>1, <1>6, <1>7 DEF IInv, OwedOK
<1>18. PendingsOK'
  BY <1>1, <1>4, <1>6 DEF IInv, PendingsOK
<1> QED  BY <1>8, <1>9, <1>10, <1>11, <1>12, <1>13, <1>14, <1>15, <1>16,
    <1>17, <1>18 DEF IInv

\* The descriptor goes from the attempt to a connection, or is closed.
LEMMA AnswerInv ==
  ASSUME IInv, Answer
  PROVE  IInv'
<1>1. pc = "pends" /\ Where = "pends" /\ todo # <<>>
  BY DEF Answer, Where
<1>2. /\ Head(todo) \in Fd /\ Head(todo) \in ToSet(pendings) /\ Tail(todo) \in Seq(Fd)
      /\ ToSet(todo) = ToSet(Tail(todo)) \cup {Head(todo)}
      /\ Head(todo) \notin ToSet(Tail(todo)) /\ IsInjective(Tail(todo))
      /\ todo \in Seq(Fd) /\ IsInjective(todo) /\ ToSet(todo) \subseteq ToSet(pendings)
  <2>1. todo \in Seq(Fd) /\ todo # <<>> /\ IsInjective(todo)
        /\ ToSet(todo) \subseteq ToSet(pendings)
    BY <1>1 DEF Answer, IInv, LoopType, TodoOK
  <2> QED  BY <2>1, TailProperties
<1>3. /\ ToSet(connections) \subseteq Fd /\ ToSet(servers) \subseteq Fd
      /\ ToSet(pendings) \subseteq Fd /\ open \subseteq Fd
  BY ListSubset DEF IInv, ListsType
<1>4. /\ servers' = servers /\ pendings' = pendings
      /\ server' = server /\ running' = running
  BY DEF Answer, lists, recs
<1>5. /\ pend[Head(todo)] \in Pending /\ pend \in [Fd -> Pending] /\ running \in BOOLEAN
      /\ Owned /\ LoopType /\ UNCHANGED <<running, heartbeat_freq>>
      /\ ~pend[Head(todo)].handled /\ pend[Head(todo)].dbref \in Dbref
      /\ pend[Head(todo)].fd \in open \ (ToSet(connections) \cup ToSet(servers))
      /\ pend[Head(todo)].fd \in Fd /\ NoFd \in Fd \cup {NoFd}
  <2>1. /\ pend[Head(todo)] \in Pending /\ pend \in [Fd -> Pending] /\ running \in BOOLEAN
        /\ Owned /\ LoopType /\ UNCHANGED <<running, heartbeat_freq>>
    BY <1>2 DEF IInv, PendType, LoopType, Answer
  <2>2. ~pend[Head(todo)].handled
    BY <1>1, <1>2 DEF IInv, PendingsOK
  <2>3. pend[Head(todo)].dbref \in Dbref /\ pend[Head(todo)].fd \in Fd
    BY <2>1 DEF Pending
  <2>4. pend[Head(todo)].fd \in open \ (ToSet(connections) \cup ToSet(servers))
    BY <1>2, <2>1, <2>2 DEF Owned
  <2> QED  BY <2>1, <2>2, <2>3, <2>4
<1>6. pend' = [pend EXCEPT ![Head(todo)].handled = TRUE, ![Head(todo)].answered = running]
        /\ pend[Head(todo)].finished
      => /\ PendType' /\ pend'[Head(todo)].handled /\ pend'[Head(todo)].finished
         /\ pend'[Head(todo)].answered = running
         /\ \A p \in Fd : p # Head(todo) => pend'[p] = pend[p]
  <2> DEFINE v == [pend[Head(todo)] EXCEPT !.handled = TRUE, !.answered = running]
  <2>1. v \in Pending /\ v.handled /\ v.answered = running
        /\ v.finished = pend[Head(todo)].finished
    BY <1>5 DEF Pending
  <2>2. [pend EXCEPT ![Head(todo)].handled = TRUE, ![Head(todo)].answered = running]
          = [pend EXCEPT ![Head(todo)] = v]
    BY <1>2, <1>5
  <2> HIDE DEF v
  <2> QED  BY <1>2, <1>5, <2>1, <2>2 DEF PendType
<1>7. /\ LoopType' /\ Where' = "pends" /\ todo' = Tail(todo)
      /\ \/ /\ ~pend[Head(todo)].finished /\ pc' # "task"
            /\ connections' = connections /\ conn' = conn /\ pend' = pend
            /\ open' = open /\ owed' = owed
         \/ /\ Add(pend[Head(todo)].fd, pend[Head(todo)].dbref)
            /\ pend[Head(todo)].finished
            /\ pend' = [pend EXCEPT ![Head(todo)].handled = TRUE,
                                    ![Head(todo)].answered = running]
            /\ open' = open
            /\ pc' = "task" => cur_conn' = pend[Head(todo)].fd
         \/ /\ open' = open \ {pend[Head(todo)].fd}
            /\ pend[Head(todo)].finished
            /\ pend' = [pend EXCEPT ![Head(todo)].handled = TRUE,
                                    ![Head(todo)].answered = running]
            /\ connections' = connections /\ conn' = conn /\ owed' = owed
            /\ pc' = "task" => cur_conn' = NoFd
  <2> DEFINE f == pend[Head(todo)].fd
  <2>1. ASSUME GoTo("pends", Tail(todo))
        PROVE  LoopType' /\ Where' = "pends" /\ todo' = Tail(todo) /\ pc' # "task"
    <3>1. "pends" \in Pc \ {"task"}
      BY DEF Pc
    <3> QED  BY <1>2, <1>5, <2>1, <3>1, GoesTo
  <2>2. ASSUME StartTask(f, "pends", Tail(todo))
        PROVE  /\ LoopType' /\ Where' = "pends" /\ todo' = Tail(todo)
               /\ pc' = "task" => cur_conn' = f
    BY <1>1, <1>2, <1>5, <2>2, Starts DEF Places
  <2>3. ASSUME StartTask(NoFd, "pends", Tail(todo))
        PROVE  /\ LoopType' /\ Where' = "pends" /\ todo' = Tail(todo)
               /\ pc' = "task" => cur_conn' = NoFd
    BY <1>1, <1>2, <1>5, <2>3, Starts DEF Places
  <2> QED  BY <2>1, <2>2, <2>3 DEF Answer
<1>8. \/ /\ ~pend[Head(todo)].finished /\ pc' # "task"
         /\ connections' = connections /\ conn' = conn /\ pend' = pend
         /\ open' = open /\ owed' = owed
      \/ /\ PendType' /\ pend'[Head(todo)].handled /\ pend'[Head(todo)].finished
         /\ pend'[Head(todo)].answered = running
         /\ \A p \in Fd : p # Head(todo) => pend'[p] = pend[p]
         /\ \/ /\ open' = open
               /\ pc' = "task" => cur_conn' = pend[Head(todo)].fd
               /\ connections' \in Seq(Fd) /\ IsInjective(connections')
               /\ ToSet(connections') = ToSet(connections) \cup {pend[Head(todo)].fd}
               /\ ConnType'
               /\ owed'[pend[Head(todo)].fd] = conn'[pend[Head(todo)].fd].output
               /\ \A c \in ToSet(connections) :
                    conn'[c] = conn[c] /\ owed'[c] = owed[c]
            \/ /\ open' = open \ {pend[Head(todo)].fd}
               /\ connections' = connections /\ conn' = conn /\ owed' = owed
               /\ pc' = "task" => cur_conn' = NoFd
  BY <1>5, <1>6, <1>7, Adds
<1>9. ListsType'
  BY <1>3, <1>4, <1>8 DEF IInv, ListsType
<1>10. ConnType'
  BY <1>8 DEF IInv, ConnType
<1>11. ServerType'
  BY <1>4 DEF IInv, ServerType
<1>12. PendType'
  BY <1>8 DEF IInv, PendType
<1>13. LoopType'
  BY <1>7
<1>14. TodoOK'
  BY <1>1, <1>2, <1>4, <1>7 DEF IInv, TodoOK
<1>15. Owned'
  <2> DEFINE h == Head(todo)
             f == pend[h].fd
  <2>1. CASE connections' = connections /\ open' = open /\ pend' = pend
    BY <1>4, <1>5, <1>7, <2>1 DEF Owned
  <2>2. ASSUME pend'[h].handled, \A p \in Fd : p # h => pend'[p] = pend[p]
        PROVE  /\ \A p \in ToSet(pendings) : ~pend'[p].handled =>
                    pend'[p] = pend[p] /\ pend[p].fd # f
               /\ \A s \in ToSet(servers) : server[s].client_socket # NoFd =>
                    server[s].client_socket # f
    BY <1>2, <1>3, <1>5, <2>2 DEF Owned
  <2>3. CASE /\ pend'[h].handled /\ \A p \in Fd : p # h => pend'[p] = pend[p]
             /\ open' = open /\ ToSet(connections') = ToSet(connections) \cup {f}
    BY <1>4, <1>5, <1>7, <2>2, <2>3 DEF Owned
  <2>4. CASE /\ pend'[h].handled /\ \A p \in Fd : p # h => pend'[p] = pend[p]
             /\ open' = open \ {f} /\ connections' = connections
    BY <1>4, <1>5, <1>7, <2>2, <2>4 DEF Owned
  <2> QED  BY <1>8, <2>1, <2>3, <2>4
<1>16. CurOK'
  BY <1>8 DEF CurOK
<1>17. PortServedOnce'
  BY <1>4 DEF IInv, PortServedOnce
<1>18. OwedOK'
  BY <1>1, <1>7, <1>8 DEF IInv, OwedOK
<1>19. PendingsOK'
  <2>1. \A p \in ToSet(pendings) :
          pend'[p] = pend[p] \/ (p = Head(todo) /\ pend'[p].handled
                                 /\ pend'[p].finished /\ pend'[p].answered = running)
    BY <1>3, <1>8
  <2>2. ~pend[Head(todo)].finished => pend' = pend
    BY <1>7
  <2> QED  BY <1>1, <1>2, <1>4, <1>5, <1>7, <1>8, <2>1, <2>2 DEF IInv, PendingsOK
<1> QED  BY <1>9, <1>10, <1>11, <1>12, <1>13, <1>14, <1>15, <1>16, <1>17,
    <1>18, <1>19 DEF IInv

---------------------------------------------------------------------------
(* The theorems                                                            *)

\* The loop starts with nothing open.
LEMMA InitInv == Init => IInv
<1> SUFFICES ASSUME Init PROVE IInv
  OBVIOUS
<1>1. <<>> \in Seq(Fd) /\ ToSet(<<>>) = {} /\ IsInjective(<<>>)
  BY EmptyList
<1>2. FreeConn \in Conn /\ FreeServer \in Server /\ (Fd # {} => FreePending \in Pending)
  BY MaxFdAssumption, MaxOutputAssumption, PortAssumption, DbrefAssumption
     DEF FreeConn, NewConn, FreeServer, NewServer, FreePending, NewPending,
         SomeDbref, Conn, Server, Pending, Fd
<1>3. Where = "top" /\ pc = "task" /\ cur_conn = NoFd /\ todo = <<>>
  BY DEF Init, Where
<1>4. ListsType
  BY <1>1 DEF Init, ListsType
<1>5. ConnType /\ ServerType /\ PendType
  BY <1>2, MaxOutputAssumption DEF Init, ConnType, ServerType, PendType
<1>6. LoopType
  <2>1. MaxCalls \in 0 .. MaxCalls /\ "top" \in Pc /\ "task" \in Pc
    BY MaxCallsAssumption DEF Pc
  <2>2. task \in [calls : 0 .. MaxCalls, ret : Pc]
    BY <2>1 DEF Init
  <2> QED  BY <1>1, <2>1, <2>2 DEF Init, LoopType
<1>7. TodoOK /\ CurOK
  BY <1>1, <1>3 DEF TodoOK, CurOK
<1>8. Owned /\ PortServedOnce /\ OwedOK /\ PendingsOK
  BY <1>1, <1>3 DEF Init, Owned, PortServedOnce, OwedOK, PendingsOK
<1> QED  BY <1>4, <1>5, <1>6, <1>7, <1>8 DEF IInv

\* One case for each disjunct of Next
LEMMA NextInv == IInv /\ [Next]_vars => IInv'
<1> SUFFICES ASSUME IInv, [Next]_vars PROVE IInv'
  OBVIOUS
<1>1. CASE Task
  BY <1>1, EchoInv, DisconnectInv, ConnAssignInv, BindInv, UnbindInv, ConnectInv,
     SetHeartbeatFreqInv, ShutdownInv, TaskEndsInv DEF Task
<1>2. CASE Loop
  BY <1>2, TaskEndsInv, LoopTopInv, FlushConnectionInv, CloseConnectionInv,
     FlushSocketsInv, NoEventInv, ReadInv, WriteInv, ConnectionsDoneInv,
     AcceptInv, ServersDoneInv, AnswerInv, PendingsDoneInv, HeartbeatInv
     DEF Loop, Timeout
<1>3. CASE NoEvent
  BY <1>3, NoEventInv
<1>4. CASE SomeEvents
  BY <1>4, SomeEventsInv
<1>5. CASE UNCHANGED vars
  <2>1. Where' = Where
    BY <1>5 DEF vars, Where
  <2> QED  BY <1>5, <2>1 DEF vars, IInv, ListsType, ConnType, ServerType, PendType,
              LoopType, TodoOK, Owned, CurOK, PortServedOnce, OwedOK, PendingsOK
<1> QED  BY <1>1, <1>2, <1>3, <1>4, <1>5 DEF Next

\* The inductive invariant holds in every state, with the steps of tasks, loop,
\* kernel and peers in any order.
THEOREM IoInvariance == Spec => []IInv
<1>1. Init => IInv
  BY InitInv
<1>2. IInv /\ [Next]_vars => IInv'
  BY NextInv
<1> QED  BY <1>1, <1>2, PTL DEF Spec

\* Every variable keeps its type, and no list has a record twice.
THEOREM IoTypeCorrect == Spec => []TypeOK
<1>1. IInv => TypeOK
  BY IInvImplies
<1> QED  BY <1>1, IoInvariance, PTL

\* The sockets of the records are open and nobody else's: a close() in one list
\* never takes the socket of a record in another.
THEOREM SocketsOwned == Spec => []DescriptorsOwned
<1>1. IInv => DescriptorsOwned
  BY IInvImplies
<1> QED  BY <1>1, IoInvariance, PTL

\* No walk of handle_io_events() or flush_defunct() comes to a freed record.
THEOREM WalksSafe == Spec => []WalkedRecordsLive
<1>1. IInv => WalkedRecordsLive
  BY IInvImplies
<1> QED  BY <1>1, IoInvariance, PTL

\* cur_conn never points to freed memory while a task runs.
THEOREM CurConnSafe == Spec => []CurConnLives
<1>1. IInv => CurConnLives
  BY IInvImplies
<1> QED  BY <1>1, IoInvariance, PTL

\* No two servers on one port.
THEOREM PortsUnique == Spec => []PortServedOnce
<1>1. IInv => PortServedOnce
  BY IInvImplies
<1> QED  BY <1>1, IoInvariance, PTL

\* Only FlushConnection takes a connection out of the list ...
LEMMA ConnectionsKept ==
  ASSUME IInv, [Next]_vars,
         NEW c \in ToSet(connections), c \notin ToSet(connections')
  PROVE  owed[c] = 0
<1>1. CASE FlushConnection
  <2>1. connections' = WithoutFd(connections, Head(todo)) /\ Defunct(Head(todo))
        /\ pc = "flush"
    BY <1>1 DEF FlushConnection
  <2>2. connections \in Seq(Fd) /\ ToSet(connections) \subseteq Fd
    BY ListSubset DEF IInv, ListsType
  <2>3. ToSet(connections') = ToSet(connections) \cap (Fd \ {Head(todo)})
    BY <2>1, <2>2, KeptProperties DEF WithoutFd
  <2>4. c = Head(todo)
    BY <2>2, <2>3
  <2> QED  BY <2>1, <2>4 DEF IInv, OwedOK, Defunct
<1>2. ASSUME NEW f, NEW d, Add(f, d)
      PROVE  ToSet(connections) \subseteq ToSet(connections')
  <2>1. connections \in Seq(Fd \cup {f}) /\ f \in Fd \cup {f}
    <3>1. connections \in Seq(Fd)
      BY DEF IInv, ListsType
    <3> QED  BY <3>1
  <2> QED  BY <1>2, <2>1, AddedProperties DEF Add
<1>3. CASE Accept
  BY <1>2, <1>3 DEF Accept
<1>4. CASE Answer
  BY <1>2, <1>4 DEF Answer
<1>5. CASE connections' = connections
  BY <1>5
<1>6. connections' = connections \/ FlushConnection \/ Accept \/ Answer
  BY DEF Next, Task, Loop, vars, lists, Echo, Disconnect, Boot, ConnAssign, Bind,
         Unbind, Connect, SetHeartbeatFreq, Shutdown, TaskEnds, LoopTop,
         CloseConnection, FlushSockets, Timeout, NoEvent, Read, Write,
         ConnectionsDone, ServersDone, PendingsDone, Heartbeat, SomeEvents, Events
<1> QED  BY <1>1, <1>3, <1>4, <1>5, <1>6

\* A connection leaves the list with nothing owed to it.
THEOREM NothingOwed == Spec => ClosedOwesNothing
<1>1. IInv /\ [Next]_vars =>
        [\A c \in ToSet(connections) \ ToSet(connections') : owed[c] = 0]_vars
  BY ConnectionsKept
<1> QED  BY <1>1, IoInvariance, PTL DEF Spec, ClosedOwesNothing

\* ... and only FlushSockets a pending connection.
LEMMA PendingsKept ==
  ASSUME IInv, [Next]_vars,
         NEW p \in ToSet(pendings), p \notin ToSet(pendings')
  PROVE  pend[p].answered \/ pend[p].atonce
<1>1. pendings \in Seq(Fd) /\ ToSet(pendings) \subseteq Fd
  BY ListSubset DEF IInv, ListsType
<1>2. CASE FlushSockets
  <2>1. ToSet(pendings') = ToSet(pendings) \cap {q \in Fd : ~pend[q].finished}
    BY <1>1, <1>2, KeptProperties DEF FlushSockets
  <2>2. pend[p].finished /\ Where = "flush"
    BY <1>1, <1>2, <2>1 DEF FlushSockets, Where
  <2> QED  BY <2>2 DEF IInv, PendingsOK
<1>3. CASE Connect
  <2>1. PICK r : pendings' = <<r>> \o pendings
    BY <1>3 DEF Connect, MakeConnection
  <2>2. pendings \in Seq(Fd \cup {r}) /\ r \in Fd \cup {r}
    BY <1>1
  <2> QED  BY <2>1, <2>2, AddedProperties
<1>4. CASE pendings' = pendings
  BY <1>4
<1>5. pendings' = pendings \/ FlushSockets \/ Connect
  BY DEF Next, Task, Loop, vars, lists, Echo, Disconnect, ConnAssign, Bind,
         Unbind, SetHeartbeatFreq, Shutdown, TaskEnds, LoopTop, FlushConnection,
         CloseConnection, Timeout, NoEvent, Read, Write, ConnectionsDone, Accept,
         ServersDone, Answer, PendingsDone, Heartbeat, SomeEvents, Events
<1> QED  BY <1>2, <1>3, <1>4, <1>5

\* No connect() that was under way is forgotten: its record is freed after its
\* message.
THEOREM ConnectsAnswered == Spec => ConnectAnswered
<1>1. IInv /\ [Next]_vars =>
        [\A p \in ToSet(pendings) \ ToSet(pendings') :
           pend[p].answered \/ pend[p].atonce]_vars
  BY PendingsKept
<1> QED  BY <1>1, IoInvariance, PTL DEF Spec, ConnectAnswered

=============================================================================

---------------------------- MODULE TablesProofs ----------------------------
(***************************************************************************)
(* What the operators of Tables and Assemble do to the four tables of an   *)
(* object, for every size of the tables and every hash: the method and the *)
(* variable table stay linked, each slot on the thread of its hash or on   *)
(* the one of blanks, and the string and identifier tables count what the  *)
(* methods use.  ProgramProofs takes it from here to TablesExact.          *)
(*                                                                         *)
(* Threads are seen as lists with ranks that fall along them: a slot that  *)
(* is put in front of a list, or taken from it, leaves the other lists     *)
(* alone, and a list with falling ranks comes to its end.                  *)
(***************************************************************************)
EXTENDS Program, SequenceTheorems, FiniteSetTheorems, FunctionTheorems,
        WellFoundedInduction, TLAPS

---------------------------------------------------------------------------
(* Induction without operators: over sets of numbers                       *)

\* A set of numbers has a least element.
LEMMA LeastOf ==
  ASSUME NEW B \in SUBSET Nat, B # {}
  PROVE  \E m \in B : \A k \in B : m <= k
<1> DEFINE R == OpToRel(<, Nat)
<1>1. IsWellFoundedOn(R, Nat)
  BY NatLessThanWellFounded
<1>2. PICK m \in B : \A k \in B : ~ (<<k, m>> \in R)
  <2> HIDE DEF R
  <2> QED  BY <1>1, WFMin
<1>3. \A k \in B : m <= k
  <2> TAKE k \in B
  <2>1. <<k, m>> \in Nat \X Nat /\ <<k, m>> \notin R
    BY <1>2
  <2>2. ~(k < m)
    BY <2>1 DEF OpToRel
  <2> QED  BY <2>2
<1> QED  BY <1>3

\* A set with 0 that has i + 1 whenever it has i has all numbers up to n.
LEMMA Induct ==
  ASSUME NEW n \in Nat, NEW P, 0 \in P, \A i \in 0 .. n - 1 : i \in P => i + 1 \in P
  PROVE  \A i \in 0 .. n : i \in P
<1> DEFINE Wrong == {i \in 0 .. n : i \notin P}
<1> SUFFICES ASSUME Wrong # {} PROVE FALSE
  OBVIOUS
<1>1. PICK m \in Wrong : \A k \in Wrong : m <= k
  <2>1. Wrong \in SUBSET Nat
    OBVIOUS
  <2> HIDE DEF Wrong
  <2> QED  BY <2>1, LeastOf
<1>2. m \in 0 .. n /\ m \notin P /\ m # 0
  OBVIOUS
<1>3. m - 1 \in 0 .. n - 1 /\ m - 1 \in 0 .. n /\ ~(m <= m - 1)
  BY <1>2
<1>4. m - 1 \notin Wrong
  <2> HIDE DEF Wrong
  <2> QED  BY <1>1, <1>3
<1>5. m - 1 \in P
  BY <1>3, <1>4
<1>6. (m - 1) + 1 \in P
  BY <1>3, <1>5
<1> QED  BY <1>2, <1>6

\* Downwards from n to 1.
LEMMA InductDown ==
  ASSUME NEW n \in Nat, NEW P,
         \A i \in 1 .. n : (\A j \in i + 1 .. n : j \in P) => i \in P
  PROVE  \A i \in 1 .. n : i \in P
<1> DEFINE Q == {k \in 0 .. n : \A j \in n - k + 1 .. n : j \in P}
<1>1. 0 \in Q
  BY SMT
<1>2. \A k \in 0 .. n - 1 : k \in Q => k + 1 \in Q
  <2> SUFFICES ASSUME NEW k \in 0 .. n - 1, k \in Q PROVE k + 1 \in Q
    OBVIOUS
  <2>1. n - k \in 1 .. n /\ \A j \in (n - k) + 1 .. n : j \in P
    OBVIOUS
  <2>2. n - k \in P
    BY <2>1
  <2>3. \A j \in n - (k + 1) + 1 .. n : j = n - k \/ j \in n - k + 1 .. n
    OBVIOUS
  <2> QED
    BY <2>1, <2>2, <2>3
<1>3. n \in Q
  <2> HIDE DEF Q
  <2>1. \A k \in 0 .. n : k \in Q
    BY <1>1, <1>2, Induct
  <2> QED
    BY <2>1
<1> QED
  BY <1>3

---------------------------------------------------------------------------
(* Recursive functions exist                                               *)

\* What one step after the other gives, from the base on
Steps(n, S, base, step, f) ==
  /\ f \in [0 .. n -> S]
  /\ f[0] = base /\ \A i \in 1 .. n : f[i] = step[i][f[i - 1]]

CanStep(n, S, base, step) == \E f : Steps(n, S, base, step, f)

\* Whatever each step does, there is a sequence of that many steps: the
\* recursive functions of Tables have values.
LEMMA StepsExist ==
  ASSUME NEW n \in Nat, NEW S, NEW base \in S, NEW step \in [1 .. n -> [S -> S]]
  PROVE  CanStep(n, S, base, step)
<1> DEFINE Good(k, f) == f[0] = base /\ \A i \in 1 .. k : f[i] = step[i][f[i - 1]]
           P == {k \in 0 .. n : \E f \in [0 .. k -> S] : Good(k, f)}
<1>1. 0 \in P
  <2> DEFINE f == [i \in 0 .. 0 |-> base]
  <2>1. f \in [0 .. 0 -> S] /\ Good(0, f)
    OBVIOUS
  <2> HIDE DEF f
  <2>2. \E g \in [0 .. 0 -> S] : Good(0, g)
    BY <2>1
  <2> QED
    BY <2>2
<1>2. \A k \in 0 .. n - 1 : k \in P => k + 1 \in P
  <2> SUFFICES ASSUME NEW k \in 0 .. n - 1, k \in P PROVE k + 1 \in P
    OBVIOUS
  <2>1. PICK f \in [0 .. k -> S] : Good(k, f)
    OBVIOUS
  <2> DEFINE g == [i \in 0 .. k + 1 |-> IF i = k + 1 THEN step[k + 1][f[k]] ELSE f[i]]
  <2>2. f[k] \in S /\ step[k + 1] \in [S -> S] /\ step[k + 1][f[k]] \in S
    OBVIOUS
  <2>3. g \in [0 .. k + 1 -> S]
    BY <2>2
  <2>4. \A i \in 0 .. k : g[i] = f[i]
    OBVIOUS
  <2>5. g[k + 1] = step[k + 1][g[k]]
    OBVIOUS
  <2> HIDE DEF g
  <2>6. Good(k + 1, g)
    <3>1. g[0] = base
      BY <2>1, <2>4
    <3>2. ASSUME NEW i \in 1 .. k + 1 PROVE g[i] = step[i][g[i - 1]]
      <4>1. CASE i = k + 1
        BY <4>1, <2>5
      <4>2. CASE i # k + 1
        <5>1. i \in 1 .. k /\ i \in 0 .. k /\ i - 1 \in 0 .. k
          BY <4>2
        <5> QED
          BY <5>1, <2>1, <2>4
      <4> QED
        BY <4>1, <4>2
    <3> QED
      BY <3>1, <3>2
  <2> HIDE DEF Good
  <2>7. \E h \in [0 .. k + 1 -> S] : Good(k + 1, h)
    BY <2>3, <2>6
  <2>8. k + 1 \in 0 .. n
    OBVIOUS
  <2> QED
    BY <2>7, <2>8
<1> HIDE DEF P
<1>3. n \in P
  <2>1. \A k \in 0 .. n : k \in P
    BY <1>1, <1>2, Induct
  <2> QED
    BY <2>1
<1> QED
  BY <1>3 DEF P, Good, Steps, CanStep

\* What OpPositions and ArgsOf compute from each position on.
Gathers(n, head, next, f) ==
  f = [i \in 1 .. n + 3 |-> IF i > n THEN <<>> ELSE head[i] \o f[next[i]]]

\* There is a function that gathers the pieces from each place on, when every
\* place leads to one of the next three.
LEMMA GathersExist ==
  ASSUME NEW n \in Nat, NEW head, NEW next,
         \A i \in 1 .. n : next[i] \in i + 1 .. i + 3
  PROVE  \E f : Gathers(n, head, next, f)
<1> DEFINE Piece(f, i) == IF i > n THEN <<>> ELSE head[i] \o f[next[i]]
           From(m, f) == f = [i \in m .. n + 3 |-> f[i]]
                         /\ \A i \in m .. n + 3 : f[i] = Piece(f, i)
           P == {k \in 0 .. n : \E f : From(n - k + 1, f)}
<1>1. 0 \in P
  <2> DEFINE f == [i \in n + 1 .. n + 3 |-> <<>>]
  <2>1. f = [i \in n + 1 .. n + 3 |-> f[i]] /\ \A i \in n + 1 .. n + 3 : i > n /\ f[i] = <<>>
    OBVIOUS
  <2> HIDE DEF f
  <2>2. n - 0 + 1 = n + 1 /\ 0 \in 0 .. n
    OBVIOUS
  <2>3. From(n + 1, f)
    BY <2>1
  <2> HIDE DEF From
  <2> QED  BY <2>2, <2>3
<1>2. \A k \in 0 .. n - 1 : k \in P => k + 1 \in P
  <2> SUFFICES ASSUME NEW k \in 0 .. n - 1, k \in P PROVE k + 1 \in P
    OBVIOUS
  <2> DEFINE m == n - k
  <2>1. PICK f : From(m + 1, f)
    OBVIOUS
  <2>2. m \in 1 .. n /\ n - (k + 1) + 1 = m /\ k + 1 \in 0 .. n
    OBVIOUS
  <2> DEFINE v == head[m] \o f[next[m]]
             g == [i \in m .. n + 3 |-> IF i = m THEN v ELSE f[i]]
  <2> HIDE DEF m, v, P, From
  <2>3. /\ g = [i \in m .. n + 3 |-> g[i]]
        /\ g[m] = v
        /\ \A i \in m + 1 .. n + 3 : g[i] = f[i]
    BY <2>2
  <2> HIDE DEF g
  <2>4. \A i \in m .. n : next[i] \in m + 1 .. n + 3
    BY <2>2
  <2>0. \A i \in m + 1 .. n + 3 : f[i] = Piece(f, i)
    BY <2>1 DEF From
  <2>5. ASSUME NEW i \in m .. n + 3 PROVE g[i] = Piece(g, i)
    <3>1. CASE i = m
      <4>1. next[m] \in m + 1 .. n + 3 /\ ~(m > n)
        BY <2>2, <2>4
      <4>2. f[next[m]] = g[next[m]]
        BY <4>1, <2>3
      <4> QED  BY <3>1, <4>1, <4>2, <2>3 DEF v
    <3>2. CASE i # m /\ i > n
      <4>1. i \in m + 1 .. n + 3
        BY <3>2, <2>2
      <4> QED  BY <4>1, <3>2, <2>0, <2>3
    <3>3. CASE i # m /\ ~(i > n)
      <4>1. i \in m + 1 .. n + 3 /\ i \in m .. n
        BY <3>3, <2>2
      <4>2. f[next[i]] = g[next[i]]
        BY <4>1, <2>3, <2>4
      <4> QED  BY <4>1, <4>2, <3>3, <2>0, <2>3
    <3> QED  BY <3>1, <3>2, <3>3
  <2>6. From(m, g)
    BY <2>3, <2>5 DEF From
  <2> QED  BY <2>2, <2>6 DEF P
<1> HIDE DEF P
<1>3. n \in P
  <2>1. \A k \in 0 .. n : k \in P
    BY <1>1, <1>2, Induct
  <2> QED
    BY <2>1
<1>4. PICK f : From(n - n + 1, f)
  <2> HIDE DEF From
  <2> QED  BY <1>3 DEF P
<1>5. n - n + 1 = 1
  OBVIOUS
<1>6. f = [i \in 1 .. n + 3 |-> f[i]] /\ \A i \in 1 .. n + 3 : f[i] = Piece(f, i)
  BY <1>4, <1>5
<1>7. f = [i \in 1 .. n + 3 |-> Piece(f, i)]
  BY <1>6, Zenon
<1> QED
  BY <1>7 DEF Gathers

---------------------------------------------------------------------------
(* Linked lists, each from the head of its home.  D has the cells that are *)
(* on a list, and r falls along each list.                                 *)

Chained(n, head, next, home, r, D) ==
  /\ n \in Nat /\ D \subseteq 1 .. n
  /\ head \in [0 .. n -> 0 .. n] /\ next \in [1 .. n -> 0 .. n]
  /\ home \in [1 .. n -> 0 .. n] /\ r \in [1 .. n -> Nat]
  /\ \A h \in 0 .. n : head[h] # 0 => head[h] \in D /\ home[head[h]] = h
  /\ \A i \in D : next[i] # 0 =>
       /\ next[i] \in D /\ home[next[i]] = home[i]
       /\ r[next[i]] < r[i] /\ head[home[i]] # next[i]
  /\ \A i \in D : head[home[i]] = i \/ \E j \in D : next[j] = i
  /\ \A i, j \in D : next[i] = next[j] /\ next[i] # 0 => i = j

\* What a cell that is on no list calls its home makes no difference.
LEMMA Rehomed ==
  ASSUME NEW n, NEW head, NEW next, NEW home, NEW r, NEW D,
         Chained(n, head, next, home, r, D),
         NEW i \in (1 .. n) \ D, NEW h \in 0 .. n
  PROVE  Chained(n, head, next, [home EXCEPT ![i] = h], r, D)
<1> DEFINE home2 == [home EXCEPT ![i] = h]
<1>1. home2 \in [1 .. n -> 0 .. n] /\ \A j \in D : home2[j] = home[j]
  BY DEF Chained
<1> HIDE DEF home2
<1>2. \A g \in 0 .. n : head[g] # 0 => head[g] \in D /\ home2[head[g]] = g
  BY <1>1 DEF Chained
<1>3. \A j \in D : next[j] # 0 =>
        /\ next[j] \in D /\ home2[next[j]] = home2[j]
        /\ r[next[j]] < r[j] /\ head[home2[j]] # next[j]
  BY <1>1 DEF Chained
<1>4. \A j \in D : head[home2[j]] = j \/ \E k \in D : next[k] = j
  BY <1>1 DEF Chained
<1>5. /\ n \in Nat /\ D \subseteq 1 .. n
      /\ head \in [0 .. n -> 0 .. n] /\ next \in [1 .. n -> 0 .. n]
      /\ r \in [1 .. n -> Nat]
      /\ \A j, k \in D : next[j] = next[k] /\ next[j] # 0 => j = k
  BY DEF Chained
<1>6. Chained(n, head, next, home2, r, D)
  BY ONLY <1>1, <1>2, <1>3, <1>4, <1>5, Zenon DEF Chained
<1> QED
  BY <1>6 DEF home2

\* A cell goes to the front of the list of its home.
LEMMA Pushed ==
  ASSUME NEW n, NEW head, NEW next, NEW home, NEW r, NEW D,
         Chained(n, head, next, home, r, D), NEW i \in (1 .. n) \ D
  PROVE  \E q : Chained(n, [head EXCEPT ![home[i]] = i],
                        [next EXCEPT ![i] = head[home[i]]], home, q, D \cup {i})
<1> DEFINE h == home[i]
           f == head[h]
           head2 == [head EXCEPT ![h] = i]
           next2 == [next EXCEPT ![i] = f]
           q == [r EXCEPT ![i] = IF f = 0 THEN 0 ELSE r[f] + 1]
           E == D \cup {i}
<1>1. h \in 0 .. n /\ f \in 0 .. n /\ i \in 1 .. n /\ i \notin D
  BY DEF Chained
<1>2. (f # 0 => f \in D /\ home[f] = h)
  BY <1>1 DEF Chained
<1>3. /\ head2 \in [0 .. n -> 0 .. n] /\ head2[h] = i
      /\ \A k \in 0 .. n : k # h => head2[k] = head[k]
  BY <1>1 DEF Chained
<1>4. /\ next2 \in [1 .. n -> 0 .. n] /\ next2[i] = f
      /\ \A k \in D : next2[k] = next[k]
  BY <1>1 DEF Chained
<1>5. /\ q \in [1 .. n -> Nat] /\ (f # 0 => q[i] = r[f] + 1)
      /\ \A k \in D : q[k] = r[k]
  <2> DEFINE v == IF f = 0 THEN 0 ELSE r[f] + 1
  <2>1. v \in Nat /\ (f # 0 => v = r[f] + 1) /\ r \in [1 .. n -> Nat] /\ D \subseteq 1 .. n
    <3>1. r \in [1 .. n -> Nat] /\ D \subseteq 1 .. n
      BY DEF Chained
    <3>2. f # 0 => r[f] \in Nat
      BY <3>1, <1>2
    <3> HIDE DEF f
    <3> QED
      BY <3>1, <3>2
  <2>2. q = [r EXCEPT ![i] = v]
    OBVIOUS
  <2> HIDE DEF v, f, q
  <2> QED
    BY <2>1, <2>2, <1>1
<1>6. E \subseteq 1 .. n
  BY DEF Chained
<1>7. \A k \in D : r[k] \in Nat /\ home[k] \in 0 .. n /\ k # 0
  BY DEF Chained
<1> HIDE DEF h, f, head2, next2, q
<1>8. \A k \in 0 .. n : head2[k] # 0 => head2[k] \in E /\ home[head2[k]] = k
  BY <1>1, <1>3 DEF Chained, h
<1>9. ASSUME NEW k \in E, next2[k] # 0
      PROVE  /\ next2[k] \in E /\ home[next2[k]] = home[k]
             /\ q[next2[k]] < q[k] /\ head2[home[k]] # next2[k]
  <2>1. CASE k = i
    <3>1. next2[k] = f /\ f \in D /\ home[f] = h /\ home[k] = h /\ f # i
      BY <1>1, <1>2, <1>4, <1>9, <2>1 DEF h
    <3> QED
      BY <1>1, <1>3, <1>5, <1>7, <2>1, <3>1
  <2>2. CASE k \in D
    <3>1. /\ next2[k] = next[k] /\ next[k] \in D /\ home[next[k]] = home[k]
          /\ r[next[k]] < r[k] /\ head[home[k]] # next[k]
      BY <1>4, <1>9, <2>2 DEF Chained
    <3>2. q[next2[k]] < q[k]
      BY <1>5, <2>2, <3>1
    <3>3. head2[home[k]] # next2[k]
      BY <1>1, <1>3, <1>7, <2>2, <3>1
    <3> QED
      BY <3>1, <3>2, <3>3
  <2> QED
    BY <2>1, <2>2
<1>10. ASSUME NEW k \in E PROVE head2[home[k]] = k \/ \E j \in E : next2[j] = k
  <2>1. CASE k = i
    BY <2>1, <1>3 DEF h
  <2>2. CASE k \in D /\ head[home[k]] = k
    <3>1. CASE home[k] = h
      BY <2>2, <3>1, <1>4 DEF f
    <3>2. CASE home[k] # h
      BY <2>2, <3>2, <1>3, <1>7
    <3> QED
      BY <3>1, <3>2
  <2>3. CASE k \in D /\ \E j \in D : next[j] = k
    BY <2>3, <1>4
  <2> QED
    BY <2>1, <2>2, <2>3 DEF Chained
<1>11. ASSUME NEW k \in E, NEW j \in E, next2[k] = next2[j], next2[k] # 0
       PROVE  k = j
  <2>1. \A l \in D : next[l] # 0 => next[l] # f
    <3>1. \A l \in D : next[l] # 0 =>
            home[next[l]] = home[l] /\ head[home[l]] # next[l]
      BY DEF Chained
    <3> QED
      BY <3>1, <1>2 DEF f
  <2>2. CASE k \in D /\ j \in D
    BY <2>2, <1>4, <1>11 DEF Chained
  <2>3. CASE k = i \/ j = i
    BY <2>1, <2>3, <1>4, <1>11
  <2> QED
    BY <2>2, <2>3
<1>12. Chained(n, head2, next2, home, q, E)
  <2>1. n \in Nat /\ home \in [1 .. n -> 0 .. n]
    BY DEF Chained
  <2> QED
    BY <2>1, <1>3, <1>4, <1>5, <1>6, <1>8, <1>9, <1>10, <1>11 DEF Chained
<1> QED
  BY <1>12 DEF head2, next2, f, h

\* The head of a list goes.
LEMMA HeadUnlinked ==
  ASSUME NEW n, NEW head, NEW next, NEW home, NEW r, NEW D,
         Chained(n, head, next, home, r, D), NEW i \in D, head[home[i]] = i
  PROVE  Chained(n, [head EXCEPT ![home[i]] = next[i]], next, home, r, D \ {i})
<1> DEFINE h == home[i]
           head2 == [head EXCEPT ![h] = next[i]]
           E == D \ {i}
<1>1. h \in 0 .. n /\ i \in 1 .. n /\ next[i] \in 0 .. n
  BY DEF Chained
<1>2. \A k \in D : /\ r[k] \in Nat /\ home[k] \in 0 .. n
                   /\ next[k] # 0 => r[next[k]] < r[k]
  BY DEF Chained
<1>3. /\ head2 \in [0 .. n -> 0 .. n] /\ head2[h] = next[i]
      /\ \A k \in 0 .. n : k # h => head2[k] = head[k]
  BY <1>1 DEF Chained
<1> HIDE DEF head2
<1>4. next[i] # 0 => next[i] \in E /\ home[next[i]] = h
  <2>1. next[i] # 0 => next[i] \in D /\ home[next[i]] = home[i] /\ r[next[i]] < r[i]
    BY DEF Chained
  <2> QED
    BY <2>1, <1>2
<1>5. \A k \in 0 .. n : head2[k] # 0 => head2[k] \in E /\ home[head2[k]] = k
  <2>1. \A k \in 0 .. n : head[k] # 0 => head[k] \in D /\ home[head[k]] = k
    BY DEF Chained
  <2> QED
    BY <2>1, <1>1, <1>3, <1>4
<1>6. ASSUME NEW k \in E, next[k] # 0
      PROVE  /\ next[k] \in E /\ home[next[k]] = home[k]
             /\ r[next[k]] < r[k] /\ head2[home[k]] # next[k]
  <2>1. /\ next[k] \in D /\ home[next[k]] = home[k]
        /\ r[next[k]] < r[k] /\ head[home[k]] # next[k]
    BY <1>6 DEF Chained
  <2>2. next[k] # i
    BY <2>1
  <2>3. next[k] # next[i]
    BY <1>6 DEF Chained
  <2> QED
    BY <2>1, <2>2, <2>3, <1>2, <1>3
<1>7. ASSUME NEW k \in E PROVE head2[home[k]] = k \/ \E j \in E : next[j] = k
  <2>1. CASE head[home[k]] = k
    BY <2>1, <1>2, <1>3
  <2>2. CASE \E j \in D : next[j] = k
    <3>1. PICK j \in D : next[j] = k
      BY <2>2
    <3>2. k # 0
      BY DEF Chained
    <3>3. home[k] = home[j]
      BY <3>1, <3>2 DEF Chained
    <3> QED
      BY <3>1, <3>3, <1>3
  <2> QED
    BY <2>1, <2>2 DEF Chained
<1>8. Chained(n, head2, next, home, r, E)
  BY <1>3, <1>5, <1>6, <1>7 DEF Chained
<1> QED
  BY <1>8 DEF head2

\* A cell behind another goes.
LEMMA CellUnlinked ==
  ASSUME NEW n, NEW head, NEW next, NEW home, NEW r, NEW D,
         Chained(n, head, next, home, r, D), NEW i \in D, NEW p \in D, next[p] = i
  PROVE  Chained(n, head, [next EXCEPT ![p] = next[i]], home, r, D \ {i})
<1> DEFINE next2 == [next EXCEPT ![p] = next[i]]
           E == D \ {i}
<1>1. i \in 1 .. n /\ p \in 1 .. n /\ next[i] \in 0 .. n
  BY DEF Chained
<1>2. /\ next2 \in [1 .. n -> 0 .. n] /\ next2[p] = next[i]
      /\ \A k \in D : k # p => next2[k] = next[k]
  BY <1>1 DEF Chained
<1> HIDE DEF next2
<1>3. \A k \in D : /\ r[k] \in Nat /\ home[k] \in 0 .. n
                   /\ next[k] # 0 =>
                        /\ next[k] \in D /\ home[next[k]] = home[k]
                        /\ r[next[k]] < r[k] /\ head[home[k]] # next[k]
  BY DEF Chained
<1>4. home[i] = home[p] /\ r[i] < r[p] /\ head[home[i]] # i /\ p # i
  BY <1>1, <1>3
<1>5. \A k \in 0 .. n : head[k] # 0 => head[k] \in E /\ home[head[k]] = k
  <2>1. \A k \in 0 .. n : head[k] # 0 => head[k] \in D /\ home[head[k]] = k
    BY DEF Chained
  <2> QED
    BY <2>1, <1>4
<1>6. \A k \in D : k # p => next[k] # i
  <2>1. \A l, m \in D : next[l] = next[m] /\ next[l] # 0 => l = m
    BY DEF Chained
  <2> QED
    BY <2>1, <1>1
<1>7. ASSUME NEW k \in E, next2[k] # 0
      PROVE  /\ next2[k] \in E /\ home[next2[k]] = home[k]
             /\ r[next2[k]] < r[k] /\ head[home[k]] # next2[k]
  <2>1. CASE k = p
    <3>1. next2[k] = next[i]
      BY <1>2, <2>1
    <3>2. /\ next[i] \in D /\ home[next[i]] = home[i]
          /\ r[next[i]] < r[i] /\ head[home[i]] # next[i]
      BY <3>1, <1>3, <1>7
    <3>3. next[i] # i /\ r[next[i]] < r[p]
      BY <3>2, <1>3, <1>4
    <3> QED
      BY <2>1, <3>1, <3>2, <3>3, <1>4
  <2>2. CASE k # p
    BY <2>2, <1>2, <1>3, <1>6, <1>7
  <2> QED
    BY <2>1, <2>2
<1>8. ASSUME NEW k \in E PROVE head[home[k]] = k \/ \E j \in E : next2[j] = k
  <2>1. CASE head[home[k]] = k
    BY <2>1
  <2>2. CASE \E j \in D : next[j] = k
    <3>1. PICK j \in D : next[j] = k
      BY <2>2
    <3>2. CASE j = i
      BY <3>1, <3>2, <1>2, <1>4
    <3>3. CASE j # i
      <4>1. j # p
        BY <3>1
      <4> QED
        BY <3>1, <3>3, <4>1, <1>2
    <3> QED
      BY <3>2, <3>3
  <2> QED
    BY <2>1, <2>2 DEF Chained
<1>9. ASSUME NEW k \in E, NEW j \in E, next2[k] = next2[j], next2[k] # 0
      PROVE  k = j
  <2>1. \A l, m \in D : next[l] = next[m] /\ next[l] # 0 => l = m
    BY DEF Chained
  <2> QED
    BY <2>1, <1>2, <1>9
<1>10. Chained(n, head, next2, home, r, E)
  BY <1>2, <1>5, <1>7, <1>8, <1>9 DEF Chained
<1> QED
  BY <1>10 DEF next2

---------------------------------------------------------------------------
(* Walking along a list                                                    *)

\* Finitely many ranks have a bound.
LEMMA BoundOf ==
  ASSUME NEW n \in Nat, NEW r \in [1 .. n -> Nat]
  PROVE  \E M \in Nat : \A i \in 1 .. n : r[i] <= M
<1> DEFINE P == {k \in 0 .. n : \E M \in Nat : \A i \in 1 .. k : r[i] <= M}
<1>1. 0 \in P
  OBVIOUS
<1>2. \A k \in 0 .. n - 1 : k \in P => k + 1 \in P
  <2> SUFFICES ASSUME NEW k \in 0 .. n - 1, k \in P PROVE k + 1 \in P
    OBVIOUS
  <2>1. PICK M \in Nat : \A i \in 1 .. k : r[i] <= M
    OBVIOUS
  <2> DEFINE L == M + r[k + 1]
  <2>2. r[k + 1] \in Nat /\ k + 1 \in 0 .. n
    OBVIOUS
  <2>3. L \in Nat /\ M <= L /\ r[k + 1] <= L
    BY <2>2
  <2> HIDE DEF L
  <2>4. \A i \in 1 .. k + 1 : r[i] \in Nat /\ (i = k + 1 \/ i \in 1 .. k)
    OBVIOUS
  <2>5. \A i \in 1 .. k + 1 : r[i] <= L
    BY <2>1, <2>3, <2>4
  <2> QED
    BY <2>2, <2>3, <2>5
<1>3. \A k \in 0 .. n : k \in P
  <2> HIDE DEF P
  <2> QED
    BY <1>1, <1>2, Induct
<1>4. n \in P
  <2> HIDE DEF P
  <2> QED
    BY <1>3
<1> QED
  BY <1>4

\* A walk from the head of a list, along its cells
Walk(n, a, first, next) ==
  /\ a \in [1 .. n + 1 -> 0 .. n] /\ a[1] = first
  /\ \A k \in 1 .. n : a[k + 1] = IF a[k] = 0 THEN 0 ELSE next[a[k]]

\* It meets cells of the list, in the order of their ranks.
LEMMA WalkFalls ==
  ASSUME NEW n, NEW head, NEW next, NEW home, NEW r,
         Chained(n, head, next, home, r, 1 .. n),
         NEW h \in 0 .. n, NEW a, Walk(n, a, head[h], next)
  PROVE  /\ \A k \in 1 .. n + 1 : a[k] # 0 => home[a[k]] = h
         /\ \A k \in 1 .. n + 1 : a[k] # 0 =>
              \A p \in 1 .. k - 1 : a[p] # 0 /\ r[a[k]] < r[a[p]]
<1> DEFINE P == {k \in 0 .. n : a[k + 1] # 0 =>
                    /\ home[a[k + 1]] = h
                    /\ \A p \in 1 .. k : a[p] # 0 /\ r[a[k + 1]] < r[a[p]]}
<1>0. n \in Nat /\ \A k \in 0 .. n - 1 : k + 1 \in 1 .. n /\ k + 1 \in 0 .. n
  BY DEF Chained
<1>1. 0 \in P
  BY <1>0 DEF Chained, Walk
<1>2. \A k \in 0 .. n - 1 : k \in P => k + 1 \in P
  <2> SUFFICES ASSUME NEW k \in 0 .. n - 1, k \in P, a[k + 1 + 1] # 0
               PROVE  /\ home[a[k + 1 + 1]] = h
                      /\ \A p \in 1 .. k + 1 : a[p] # 0 /\ r[a[k + 1 + 1]] < r[a[p]]
    BY <1>0
  <2>1. k + 1 \in 1 .. n /\ k + 1 \in 1 .. n + 1 /\ k + 2 \in 1 .. n + 1
    BY <1>0
  <2>2. a[k + 1] # 0 /\ a[k + 1 + 1] = next[a[k + 1]] /\ a[k + 1] \in 1 .. n
    BY <1>0, <2>1 DEF Walk
  <2>3. /\ home[next[a[k + 1]]] = home[a[k + 1]] /\ r[next[a[k + 1]]] < r[a[k + 1]]
        /\ next[a[k + 1]] \in 1 .. n
    BY <2>2 DEF Chained
  <2>4. home[a[k + 1]] = h /\ \A p \in 1 .. k : a[p] # 0 /\ r[a[k + 1]] < r[a[p]]
    BY <2>2
  <2>5. home[a[k + 1 + 1]] = h
    BY <2>2, <2>3, <2>4
  <2>6. ASSUME NEW p \in 1 .. k + 1 PROVE a[p] # 0 /\ r[a[k + 1 + 1]] < r[a[p]]
    <3>1. CASE p = k + 1
      BY <3>1, <2>2, <2>3
    <3>2. CASE p # k + 1
      <4>1. p \in 1 .. k /\ p \in 1 .. n + 1
        BY <3>2, <1>0
      <4>2. a[p] # 0 /\ r[a[k + 1]] < r[a[p]] /\ a[p] \in 1 .. n
        BY <4>1, <2>4, <1>0 DEF Walk
      <4>3. r[a[p]] \in Nat /\ r[a[k + 1]] \in Nat /\ r[next[a[k + 1]]] \in Nat
        BY <4>2, <2>2, <2>3 DEF Chained
      <4> QED
        BY <4>2, <4>3, <2>2, <2>3
    <3> QED
      BY <3>1, <3>2
  <2> QED
    BY <2>5, <2>6
<1>3. \A k \in 0 .. n : k \in P
  <2> HIDE DEF P
  <2> QED
    BY <1>0, <1>1, <1>2, Induct
<1>4. ASSUME NEW k \in 1 .. n + 1, a[k] # 0
      PROVE  /\ home[a[k]] = h
             /\ \A p \in 1 .. k - 1 : a[p] # 0 /\ r[a[k]] < r[a[p]]
  <2>1. k - 1 \in 0 .. n /\ k - 1 + 1 = k
    BY <1>0
  <2> QED
    BY <1>3, <1>4, <2>1
<1> QED
  BY <1>4

\* It ends, for no cell is met twice.
LEMMA WalkEnds ==
  ASSUME NEW n, NEW head, NEW next, NEW home, NEW r,
         Chained(n, head, next, home, r, 1 .. n),
         NEW h \in 0 .. n, NEW a, Walk(n, a, head[h], next)
  PROVE  a[n + 1] = 0
<1> SUFFICES ASSUME a[n + 1] # 0 PROVE FALSE
  OBVIOUS
<1>0. n \in Nat /\ n + 1 \in 1 .. n + 1 /\ r \in [1 .. n -> Nat]
  BY DEF Chained
<1>1. \A p \in 1 .. n + 1 : a[p] # 0
  <2>1. \A p \in 1 .. n : a[p] # 0
    <3>1. \A p \in 1 .. n + 1 - 1 : a[p] # 0
      BY <1>0, WalkFalls
    <3> QED
      BY <1>0, <3>1
  <2> QED
    BY <1>0, <2>1
<1>2. a \in [1 .. n + 1 -> 1 .. n]
  BY <1>0, <1>1 DEF Walk
<1>3. PICK p, q \in 1 .. n + 1 : p # q /\ a[p] = a[q]
  <2>1. /\ IsFiniteSet(1 .. n) /\ IsFiniteSet(1 .. n + 1)
        /\ Cardinality(1 .. n) = n /\ Cardinality(1 .. n + 1) = n + 1
    BY <1>0, FS_Interval
  <2> DEFINE S == 1 .. n + 1
             T == 1 .. n
  <2>2. /\ Cardinality(T) = n /\ Cardinality(S) = n + 1
        /\ IsFiniteSet(S) /\ IsFiniteSet(T) /\ a \in [S -> T]
    BY <1>2, <2>1, Zenon
  <2> HIDE DEF S, T
  <2>3. \E x, y \in S : x # y /\ a[x] = a[y]
    <3>1. Cardinality(T) < Cardinality(S)
      BY <1>0, <2>2
    <3> QED
      BY <2>2, <3>1, FS_PigeonHole
  <2> QED
    BY <2>3 DEF S
<1>4. \A k \in 1 .. n + 1 : \A l \in 1 .. k - 1 : r[a[k]] < r[a[l]]
  BY <1>1, WalkFalls
<1>5. p \in 1 .. q - 1 \/ q \in 1 .. p - 1
  BY <1>0, <1>3
<1>6. r[a[p]] \in Nat
  BY <1>0, <1>2
<1> QED
  BY <1>3, <1>4, <1>5, <1>6

\* It meets every cell that has the list for its home.
LEMMA WalkCovers ==
  ASSUME NEW n, NEW head, NEW next, NEW home, NEW r,
         Chained(n, head, next, home, r, 1 .. n),
         NEW h \in 0 .. n, NEW a, Walk(n, a, head[h], next),
         NEW i \in 1 .. n, home[i] = h
  PROVE  \E p \in 1 .. n : a[p] = i
<1> DEFINE Wrong == {j \in 1 .. n : home[j] = h /\ \A p \in 1 .. n : a[p] # j}
<1> SUFFICES ASSUME i \in Wrong PROVE FALSE
  OBVIOUS
<1>0. n \in Nat /\ r \in [1 .. n -> Nat]
  BY DEF Chained
<1>1. PICK M \in Nat : \A j \in 1 .. n : r[j] <= M
  BY <1>0, BoundOf
<1> DEFINE B == {M - r[j] : j \in Wrong}
<1>2. B \in SUBSET Nat /\ B # {}
  <2>1. \A j \in Wrong : r[j] \in Nat /\ r[j] <= M
    BY <1>0, <1>1
  <2> QED
    BY <2>1
<1>3. PICK m \in B : \A k \in B : m <= k
  <2> HIDE DEF B
  <2> QED
    BY <1>2, LeastOf
<1>4. PICK j \in Wrong : m = M - r[j]
  BY <1>3
<1>5. \A k \in Wrong : r[k] <= r[j]
  <2>1. \A k \in Wrong : M - r[k] \in B /\ r[k] \in Nat
    BY <1>0
  <2> HIDE DEF B, Wrong
  <2> QED
    BY <1>3, <1>4, <2>1
<1>6. j \in 1 .. n /\ home[j] = h /\ \A p \in 1 .. n : a[p] # j
  OBVIOUS
<1>7. head[h] # j
  BY <1>0, <1>6 DEF Walk
<1>8. PICK k \in 1 .. n : next[k] = j
  BY <1>6, <1>7 DEF Chained
<1>9. home[k] = h /\ r[j] < r[k]
  <2>1. j # 0 /\ next[k] # 0
    BY <1>0, <1>6, <1>8
  <2>2. home[next[k]] = home[k] /\ r[next[k]] < r[k]
    BY <2>1 DEF Chained
  <2> QED
    BY <2>2, <1>6, <1>8
<1>10. k \notin Wrong
  <2>1. r[k] \in Nat /\ r[j] \in Nat
    BY <1>0, <1>6
  <2> HIDE DEF Wrong
  <2> QED
    BY <1>5, <1>9, <2>1
<1>11. PICK p \in 1 .. n : a[p] = k
  BY <1>9, <1>10
<1>12. a[p + 1] = j
  <2>1. a[p] # 0
    BY <1>0, <1>11
  <2> QED
    BY <2>1, <1>8, <1>11 DEF Walk
<1>13. p # n
  BY <1>0, <1>6, <1>12, WalkEnds
<1>14. p + 1 \in 1 .. n
  BY <1>0, <1>13
<1> QED
  BY <1>6, <1>12, <1>14

---------------------------------------------------------------------------
(* Threaded tables of n slots, with names in N and items in V              *)

\* The hash of a name is a number.
HashOK == \A name : Hash(name) \in Nat

\* A slot, and a table, of n slots with names in N and items in V
SlotOf(n, N, V) == [name : N, item : V, next : 0 .. n]
TableOf(n, N, V) ==
  [blanks : 0 .. n, hashtab : [1 .. n -> 0 .. n], tab : [1 .. n -> SlotOf(n, N, V)]]

\* The heads of the threads, the one of blanks at 0; the next fields; and the
\* thread that each slot belongs on
Heads(t, n) == [h \in 0 .. n |-> IF h = 0 THEN t.blanks ELSE t.hashtab[h]]
Nexts(t, n) == [i \in 1 .. n |-> t.tab[i].next]
Homes(t, n) ==
  [i \in 1 .. n |-> IF t.tab[i].item = NoItem THEN 0 ELSE 1 + (Hash(t.tab[i].name) % n)]

\* The slots in D are on their threads.
LinkedOn(t, n, D) ==
  \E r : Chained(n, Heads(t, n), Nexts(t, n), Homes(t, n), r, D)

\* A function on 1 .. n is a sequence of length n.
LEMMA LenOf ==
  ASSUME NEW n \in Nat, NEW S, NEW s \in [1 .. n -> S]
  PROVE  Len(s) = n /\ s \in Seq(S)
<1>1. s \in Seq(S)
  BY SeqDef
<1>2. DOMAIN s = 1 .. Len(s) /\ Len(s) \in Nat /\ DOMAIN s = 1 .. n
  BY <1>1
<1> QED
  BY <1>1, <1>2

\* The sizes of a table, and the home of a name in it.
LEMMA TableHas ==
  ASSUME NEW n \in Nat \ {0}, NEW N, NEW V, NEW t \in TableOf(n, N, V)
  PROVE  /\ Len(t.tab) = n /\ Len(t.hashtab) = n
         /\ DOMAIN t.tab = 1 .. n /\ DOMAIN t.hashtab = 1 .. n
         /\ \A name : Bucket(t, name) = 1 + (Hash(name) % n)
         /\ HashOK => \A name : 1 + (Hash(name) % n) \in 1 .. n
<1>1. Len(t.tab) = n /\ Len(t.hashtab) = n
  BY LenOf DEF TableOf
<1>2. HashOK => \A name : 1 + (Hash(name) % n) \in 1 .. n
  <2> SUFFICES ASSUME HashOK, NEW name PROVE 1 + (Hash(name) % n) \in 1 .. n
    OBVIOUS
  <2>1. Hash(name) \in Nat
    BY DEF HashOK
  <2> DEFINE k == Hash(name)
  <2> HIDE DEF k
  <2>2. k \in Nat => 1 + (k % n) \in 1 .. n
    OBVIOUS
  <2> QED
    BY <2>1, <2>2 DEF k
<1> QED
  BY <1>1, <1>2 DEF TableOf, Bucket

\* The types of heads, links and homes
LEMMA LinksAre ==
  ASSUME HashOK, NEW n \in Nat \ {0}, NEW N, NEW V, NEW t \in TableOf(n, N, V)
  PROVE  /\ Heads(t, n) \in [0 .. n -> 0 .. n]
         /\ Nexts(t, n) \in [1 .. n -> 0 .. n]
         /\ Homes(t, n) \in [1 .. n -> 0 .. n]
<1>1. t.blanks \in 0 .. n /\ t.hashtab \in [1 .. n -> 0 .. n]
      /\ \A i \in 1 .. n : t.tab[i].next \in 0 .. n
  BY DEF TableOf, SlotOf
<1>2. \A name : 1 + (Hash(name) % n) \in 0 .. n
  BY TableHas
<1>3. \A i \in 1 .. n : Homes(t, n)[i] \in 0 .. n
  BY <1>2 DEF Homes
<1>4. Homes(t, n) \in [1 .. n -> 0 .. n]
  BY <1>3 DEF Homes
<1> QED
  BY <1>1, <1>4 DEF Heads, Nexts

\* Slot i goes in front of the thread of its name.
LEMMA ThreadedIs ==
  ASSUME HashOK, NEW n \in Nat \ {0}, NEW N, NEW V, NEW t \in TableOf(n, N, V),
         NEW i \in 1 .. n
  PROVE  LET u == Threaded(t, i)
             h == 1 + (Hash(t.tab[i].name) % n)
         IN
         /\ u \in TableOf(n, N, V) /\ u.blanks = t.blanks
         /\ \A j \in 1 .. n : u.tab[j].name = t.tab[j].name
                              /\ u.tab[j].item = t.tab[j].item
         /\ Heads(u, n) = [Heads(t, n) EXCEPT ![h] = i]
         /\ Nexts(u, n) = [Nexts(t, n) EXCEPT ![i] = Heads(t, n)[h]]
         /\ Homes(u, n) = Homes(t, n)
<1> DEFINE u == Threaded(t, i)
           b == Bucket(t, t.tab[i].name)
           f == t.hashtab[b]
<1>1. b \in 1 .. n /\ b = 1 + (Hash(t.tab[i].name) % n)
  BY TableHas
<1>2. f \in 0 .. n /\ f = Heads(t, n)[b]
  BY <1>1 DEF TableOf, Heads
<1>3. u = [t EXCEPT !.tab = [t.tab EXCEPT ![i] = [t.tab[i] EXCEPT !.next = f]],
                    !.hashtab = [t.hashtab EXCEPT ![b] = i]]
  BY DEF Threaded
<1>4. /\ t.tab \in [1 .. n -> SlotOf(n, N, V)] /\ t.hashtab \in [1 .. n -> 0 .. n]
      /\ DOMAIN t = {"blanks", "hashtab", "tab"} /\ t.blanks \in 0 .. n
  BY DEF TableOf
<1> HIDE DEF b, f, u
<1> DEFINE s == [t.tab[i] EXCEPT !.next = f]
           tab2 == [t.tab EXCEPT ![i] = s]
           hash2 == [t.hashtab EXCEPT ![b] = i]
<1>5. /\ s \in SlotOf(n, N, V) /\ s.next = f /\ s.name = t.tab[i].name
      /\ s.item = t.tab[i].item
  BY <1>2, <1>4 DEF SlotOf
<1> HIDE DEF s
<1>6. /\ tab2 \in [1 .. n -> SlotOf(n, N, V)] /\ tab2[i] = s
      /\ \A j \in 1 .. n : j # i => tab2[j] = t.tab[j]
  BY <1>4, <1>5
<1>7. /\ hash2 \in [1 .. n -> 0 .. n] /\ hash2[b] = i
      /\ \A h \in 1 .. n : h # b => hash2[h] = t.hashtab[h]
  BY <1>1, <1>4
<1>8. u = [t EXCEPT !.tab = tab2, !.hashtab = hash2]
  BY <1>3 DEF s
<1> HIDE DEF tab2, hash2
<1>9. u \in TableOf(n, N, V) /\ u.blanks = t.blanks /\ u.tab = tab2 /\ u.hashtab = hash2
  BY <1>4, <1>6, <1>7, <1>8 DEF TableOf
<1>10. \A j \in 1 .. n : u.tab[j].name = t.tab[j].name /\ u.tab[j].item = t.tab[j].item
  BY <1>5, <1>6, <1>9
<1>11. Heads(u, n) = [Heads(t, n) EXCEPT ![b] = i]
  <2>1. \A h \in 0 .. n : Heads(u, n)[h] = IF h = b THEN i ELSE Heads(t, n)[h]
    BY <1>1, <1>7, <1>9 DEF Heads
  <2>2. Heads(u, n) = [h \in 0 .. n |-> IF h = b THEN i ELSE Heads(t, n)[h]]
    BY <2>1 DEF Heads
  <2>3. DOMAIN Heads(t, n) = 0 .. n
    BY DEF Heads
  <2> QED
    BY <2>2, <2>3
<1>12. Nexts(u, n) = [Nexts(t, n) EXCEPT ![i] = f]
  BY <1>5, <1>6, <1>9 DEF Nexts
<1>13. Homes(u, n) = Homes(t, n)
  BY <1>10 DEF Homes
<1> QED
  BY <1>1, <1>2, <1>9, <1>10, <1>11, <1>12, <1>13 DEF u

\* Put at the head of its hash thread, a slot that was on no thread is on one.
LEMMA ThreadedLinks ==
  ASSUME HashOK, NEW n \in Nat \ {0}, NEW N, NEW V, NEW t \in TableOf(n, N, V),
         NEW D, LinkedOn(t, n, D), NEW i \in (1 .. n) \ D, t.tab[i].item # NoItem
  PROVE  LinkedOn(Threaded(t, i), n, D \cup {i})
<1> DEFINE u == Threaded(t, i)
           h == 1 + (Hash(t.tab[i].name) % n)
<1>1. /\ Heads(u, n) = [Heads(t, n) EXCEPT ![h] = i]
      /\ Nexts(u, n) = [Nexts(t, n) EXCEPT ![i] = Heads(t, n)[h]]
      /\ Homes(u, n) = Homes(t, n)
  BY ThreadedIs
<1>2. h = Homes(t, n)[i]
  BY DEF Homes
<1> HIDE DEF u, h
<1>3. PICK r : Chained(n, Heads(t, n), Nexts(t, n), Homes(t, n), r, D)
  BY DEF LinkedOn
<1>4. \E q : Chained(n, [Heads(t, n) EXCEPT ![Homes(t, n)[i]] = i],
                     [Nexts(t, n) EXCEPT ![i] = Heads(t, n)[Homes(t, n)[i]]],
                     Homes(t, n), q, D \cup {i})
  BY <1>3, Pushed
<1> QED
  BY <1>1, <1>2, <1>4 DEF LinkedOn, u

\* A blank slot is taken: the slot leaves the thread of blanks, gets its name and
\* item and goes on the thread of the name.
Filled(t, i, name, item) ==
  [t EXCEPT !.blanks = t.tab[i].next, !.tab[i].name = name, !.tab[i].item = item]

\* A blank slot of t has become slot i of u.
TakesSlot(t, u, n, i, name, item) ==
  /\ i \in 1 .. n /\ t.tab[i].item = NoItem
  /\ u.tab[i].name = name /\ u.tab[i].item = item
  /\ \A j \in 1 .. n : j # i => u.tab[j] = t.tab[j]

\* The first blank slot, filled, is on no thread.
LEMMA FilledLinks ==
  ASSUME HashOK, NEW n \in Nat \ {0}, NEW N, NEW V, NEW t \in TableOf(n, N, V),
         NEW D, LinkedOn(t, n, D), NEW i, i = t.blanks, i # 0,
         NEW name \in N, NEW item \in V, item # NoItem
  PROVE  /\ i \in D
         /\ Filled(t, i, name, item) \in TableOf(n, N, V)
         /\ LinkedOn(Filled(t, i, name, item), n, D \ {i})
         /\ TakesSlot(t, Filled(t, i, name, item), n, i, name, item)
<1> DEFINE u == Filled(t, i, name, item)
           f == t.tab[i].next
<1>1. PICK r : Chained(n, Heads(t, n), Nexts(t, n), Homes(t, n), r, D)
  BY DEF LinkedOn
<1>2. Heads(t, n)[0] = i /\ 0 \in 0 .. n
  BY DEF Heads
<1>3. i \in D /\ i \in 1 .. n /\ Homes(t, n)[i] = 0
  BY <1>1, <1>2 DEF Chained
<1>4. t.tab[i].item = NoItem
  <2>1. 1 + (Hash(t.tab[i].name) % n) \in 1 .. n
    BY TableHas
  <2> QED
    BY <1>3, <2>1 DEF Homes
<1>5. /\ t.tab \in [1 .. n -> SlotOf(n, N, V)] /\ t.hashtab \in [1 .. n -> 0 .. n]
      /\ DOMAIN t = {"blanks", "hashtab", "tab"} /\ t.blanks \in 0 .. n
  BY DEF TableOf
<1> DEFINE s == [[t.tab[i] EXCEPT !.name = name] EXCEPT !.item = item]
           tab2 == [t.tab EXCEPT ![i] = s]
<1>6. u = [t EXCEPT !.blanks = f, !.tab = tab2]
  BY <1>3, <1>5 DEF Filled
<1> HIDE DEF u
<1>7. /\ s \in SlotOf(n, N, V) /\ s.next = f /\ s.name = name /\ s.item = item
      /\ f \in 0 .. n
  <2> DEFINE old == t.tab[i]
  <2>1. /\ old \in SlotOf(n, N, V) /\ f = old.next
        /\ s = [[old EXCEPT !.name = name] EXCEPT !.item = item]
    BY <1>3, <1>5
  <2> HIDE DEF old, s, f
  <2> QED
    BY <2>1 DEF SlotOf
<1> HIDE DEF s, f
<1>8. /\ tab2 \in [1 .. n -> SlotOf(n, N, V)] /\ tab2[i] = s
      /\ \A j \in 1 .. n : j # i => tab2[j] = t.tab[j]
  BY <1>3, <1>5, <1>7
<1> HIDE DEF tab2
<1>9. u \in TableOf(n, N, V) /\ u.blanks = f /\ u.tab = tab2 /\ u.hashtab = t.hashtab
  BY <1>5, <1>6, <1>7, <1>8 DEF TableOf
<1> DEFINE h == 1 + (Hash(name) % n)
<1>10. h \in 0 .. n
  BY TableHas
<1>11. Heads(u, n) = [Heads(t, n) EXCEPT ![0] = f]
  BY <1>9 DEF Heads
<1>12. Nexts(u, n) = Nexts(t, n) /\ Nexts(t, n)[i] = f
  BY <1>3, <1>7, <1>8, <1>9 DEF Nexts, f
<1>13. Homes(u, n) = [Homes(t, n) EXCEPT ![i] = h]
  <2>1. \A j \in 1 .. n : Homes(u, n)[j] = IF j = i THEN h ELSE Homes(t, n)[j]
    BY <1>7, <1>8, <1>9 DEF Homes
  <2> HIDE DEF h
  <2>2. Homes(u, n) = [j \in 1 .. n |-> IF j = i THEN h ELSE Homes(t, n)[j]]
    BY <2>1 DEF Homes
  <2>3. DOMAIN Homes(t, n) = 1 .. n
    BY DEF Homes
  <2> QED
    BY <2>2, <2>3
<1> HIDE DEF h
<1>14. Chained(n, Heads(u, n), Nexts(t, n), Homes(t, n), r, D \ {i})
  <2> DEFINE head == Heads(t, n)
             next == Nexts(t, n)
             home == Homes(t, n)
  <2>1. Chained(n, head, next, home, r, D) /\ i \in D /\ head[home[i]] = i
    BY <1>1, <1>2, <1>3
  <2>2. Heads(u, n) = [head EXCEPT ![home[i]] = next[i]]
    BY <1>3, <1>11, <1>12
  <2> HIDE DEF head, next, home
  <2>3. Chained(n, [head EXCEPT ![home[i]] = next[i]], next, home, r, D \ {i})
    BY <2>1, HeadUnlinked
  <2> QED
    BY <2>2, <2>3 DEF next, home
<1>15. Chained(n, Heads(u, n), Nexts(u, n), Homes(u, n), r, D \ {i})
  <2> DEFINE head == Heads(u, n)
             next == Nexts(t, n)
             home == Homes(t, n)
             E == D \ {i}
  <2>1. Chained(n, head, next, home, r, E) /\ i \in (1 .. n) \ E
    BY <1>3, <1>14
  <2> HIDE DEF head, next, home, E
  <2>2. Chained(n, head, next, [home EXCEPT ![i] = h], r, E)
    BY <1>10, <2>1, Rehomed
  <2> QED
    BY <2>2, <1>12, <1>13 DEF head, next, home, E
<1> QED
  <2>1. LinkedOn(u, n, D \ {i})
    BY <1>15 DEF LinkedOn
  <2>2. TakesSlot(t, u, n, i, name, item)
    BY <1>3, <1>4, <1>7, <1>8, <1>9 DEF TakesSlot
  <2> QED
    BY <1>3, <1>9, <2>1, <2>2 DEF u

\* Thread() follows the next fields.
LEMMA ThreadWalks ==
  ASSUME NEW n \in Nat \ {0}, NEW N, NEW V, NEW t \in TableOf(n, N, V),
         NEW first \in 0 .. n
  PROVE  Walk(n, Thread(t, first), first, Nexts(t, n))
<1> DEFINE At(at) ==
             at = [m \in 1 .. Len(t.tab) + 1 |->
                     IF m = 1 THEN first
                     ELSE IF at[m - 1] = 0 THEN 0 ELSE t.tab[at[m - 1]].next]
           S == 0 .. n
           go == [x \in S |-> IF x = 0 THEN 0 ELSE Nexts(t, n)[x]]
           step == [i \in 1 .. n |-> go]
<1>1. go \in [S -> S]
  <2>1. \A x \in 1 .. n : Nexts(t, n)[x] \in 0 .. n
    BY DEF Nexts, TableOf, SlotOf
  <2> QED
    BY <2>1
<1> HIDE DEF go
<1>2. step \in [1 .. n -> [S -> S]] /\ n \in Nat /\ first \in S
  BY <1>1
<1> HIDE DEF step, S, At
<1>3. PICK g : Steps(n, S, first, step, g)
  BY <1>2, StepsExist DEF CanStep
<1> DEFINE a == [m \in 1 .. n + 1 |-> g[m - 1]]
<1>4. /\ a \in [1 .. n + 1 -> 0 .. n] /\ a[1] = first
      /\ \A k \in 1 .. n : a[k] = g[k - 1] /\ a[k + 1] = g[k]
  <2>1. g \in [0 .. n -> 0 .. n] /\ g[0] = first
    BY <1>3 DEF S, Steps
  <2>2. 1 \in 1 .. n + 1 /\ \A m \in 1 .. n + 1 : m - 1 \in 0 .. n
    OBVIOUS
  <2>3. \A m \in 1 .. n + 1 : g[m - 1] \in 0 .. n
    BY <2>1, <2>2
  <2>4. a \in [1 .. n + 1 -> 0 .. n] /\ a[1] = first
    BY <2>1, <2>2, <2>3
  <2>5. \A k \in 1 .. n : k + 1 \in 1 .. n + 1 /\ k \in 1 .. n + 1 /\ (k + 1) - 1 = k
    OBVIOUS
  <2> QED
    BY <2>4, <2>5
<1>5. \A k \in 1 .. n : g[k] = IF g[k - 1] = 0 THEN 0 ELSE Nexts(t, n)[g[k - 1]]
  <2> TAKE k \in 1 .. n
  <2>1. g[k] = step[k][g[k - 1]] /\ step[k] = go /\ g[k - 1] \in S
    BY <1>3 DEF step, Steps
  <2> QED
    BY <2>1 DEF go
<1> HIDE DEF a
<1>6. \A k \in 1 .. n : a[k + 1] = IF a[k] = 0 THEN 0 ELSE Nexts(t, n)[a[k]]
  BY <1>4, <1>5
<1>7. \A x \in 1 .. n : Nexts(t, n)[x] = t.tab[x].next
  BY DEF Nexts
<1>8. At(a)
  <2>1. \A m \in 1 .. n + 1 :
          a[m] = IF m = 1 THEN first
                 ELSE IF a[m - 1] = 0 THEN 0 ELSE t.tab[a[m - 1]].next
    <3> TAKE m \in 1 .. n + 1
    <3>1. CASE m = 1
      BY <1>4, <3>1
    <3>2. CASE m # 1
      <4>1. m - 1 \in 1 .. n /\ m - 1 + 1 = m /\ m - 1 \in 1 .. n + 1
        BY <3>2
      <4>2. a[m] = IF a[m - 1] = 0 THEN 0 ELSE Nexts(t, n)[a[m - 1]]
        BY <1>6, <4>1
      <4>3. a[m - 1] # 0 => a[m - 1] \in 1 .. n
        BY <1>4, <4>1
      <4> QED
        BY <1>7, <3>2, <4>2, <4>3
    <3> QED
      BY <3>1, <3>2
  <2>2. a = [m \in 1 .. n + 1 |-> a[m]]
    BY <1>4
  <2>3. Len(t.tab) = n
    BY TableHas
  <2>4. a = [m \in 1 .. n + 1 |->
               IF m = 1 THEN first
               ELSE IF a[m - 1] = 0 THEN 0 ELSE t.tab[a[m - 1]].next]
    BY <2>1, <2>2, Zenon
  <2> QED
    BY <2>3, <2>4 DEF At
<1>9. Thread(t, first) = CHOOSE at : At(at)
  BY DEF Thread, At
<1> DEFINE b == Thread(t, first)
<1>10. At(b)
  <2> HIDE DEF At
  <2> QED
    BY <1>8, <1>9
<1> HIDE DEF b
<1>11. \A k \in 1 .. n + 1 : b[k] = a[k]
  <2> DEFINE P == {k \in 0 .. n : b[k + 1] = a[k + 1]}
  <2>0. \A m \in 1 .. Len(t.tab) + 1 :
          b[m] = IF m = 1 THEN first
                 ELSE IF b[m - 1] = 0 THEN 0 ELSE t.tab[b[m - 1]].next
    BY <1>10 DEF At
  <2>00. Len(t.tab) = n
    BY TableHas
  <2>1. 0 \in P
    BY <1>4, <2>0, <2>00
  <2>2. \A k \in 0 .. n - 1 : k \in P => k + 1 \in P
    <3> SUFFICES ASSUME NEW k \in 0 .. n - 1, b[k + 1] = a[k + 1]
                 PROVE  b[k + 1 + 1] = a[k + 1 + 1]
      <4>1. \A k \in 0 .. n - 1 : k + 1 \in 0 .. n
        OBVIOUS
      <4>2. \A k \in P : b[k + 1] = a[k + 1]
        BY Zenon
      <4>3. \A k \in 0 .. n : b[k + 1] = a[k + 1] => k \in P
        BY Zenon
      <4> HIDE DEF P
      <4> QED
        BY <4>1, <4>2, <4>3, Zenon
    <3>1. k + 1 + 1 \in 1 .. n + 1 /\ k + 1 + 1 # 1 /\ k + 1 + 1 - 1 = k + 1
      OBVIOUS
    <3>2. b[k + 1 + 1] = IF b[k + 1] = 0 THEN 0 ELSE t.tab[b[k + 1]].next
      BY <2>0, <2>00, <3>1
    <3>3. a[k + 1 + 1] = IF a[k + 1] = 0 THEN 0 ELSE t.tab[a[k + 1]].next
      BY <1>8, <2>00, <3>1 DEF At
    <3> QED
      BY <3>2, <3>3
  <2>3. \A k \in 0 .. n : k \in P
    <3> HIDE DEF P
    <3> QED
      BY <2>1, <2>2, Induct
  <2> TAKE k \in 1 .. n + 1
  <2>4. k - 1 \in 0 .. n /\ k - 1 + 1 = k
    OBVIOUS
  <2> QED
    BY <2>3, <2>4
<1>12. b = [m \in 1 .. n + 1 |-> b[m]]
  <2>1. Len(t.tab) = n
    BY TableHas
  <2> QED
    BY <1>10, <2>1 DEF At
<1>13. b = a
  BY <1>4, <1>11, <1>12
<1> QED
  BY <1>4, <1>6, <1>13 DEF Walk, b

\* a is the thread of home h: it has each slot of that home once, and no other.
IsThread(t, n, h, a) ==
  /\ Walk(n, a, Heads(t, n)[h], Nexts(t, n))
  /\ DOMAIN a = 1 .. n + 1 /\ Len(a) = n + 1
  /\ \A k \in 1 .. n + 1 :
       a[k] # 0 => a[k] \in 1 .. n /\ Homes(t, n)[a[k]] = h
  /\ \A k, p \in 1 .. n + 1 : a[k] # 0 /\ a[k] = a[p] => k = p
  /\ \A i \in 1 .. n : Homes(t, n)[i] = h => \E p \in 1 .. n : a[p] = i

\* The thread of a home
LEMMA ThreadOf ==
  ASSUME HashOK, NEW n \in Nat \ {0}, NEW N, NEW V, NEW t \in TableOf(n, N, V),
         LinkedOn(t, n, 1 .. n), NEW h \in 0 .. n
  PROVE  IsThread(t, n, h, Thread(t, Heads(t, n)[h]))
<1> DEFINE first == Heads(t, n)[h]
           a == Thread(t, first)
<1>1. PICK r : Chained(n, Heads(t, n), Nexts(t, n), Homes(t, n), r, 1 .. n)
  BY DEF LinkedOn
<1>2. first \in 0 .. n
  BY LinksAre
<1>3. Walk(n, a, first, Nexts(t, n))
  <2> HIDE DEF first
  <2> QED
    BY <1>2, ThreadWalks
<1>4. a \in [1 .. n + 1 -> 0 .. n] /\ DOMAIN a = 1 .. n + 1 /\ Len(a) = n + 1
  <2>1. a \in [1 .. n + 1 -> 0 .. n] /\ n + 1 \in Nat
    BY <1>3 DEF Walk
  <2> HIDE DEF a
  <2> QED
    BY <2>1, LenOf
<1> HIDE DEF a
<1>5. /\ \A k \in 1 .. n + 1 : a[k] # 0 => Homes(t, n)[a[k]] = h
      /\ \A k \in 1 .. n + 1 : a[k] # 0 =>
           \A p \in 1 .. k - 1 : a[p] # 0 /\ r[a[k]] < r[a[p]]
  BY <1>1, <1>3, WalkFalls
<1>6. \A k \in 1 .. n + 1 : a[k] # 0 => a[k] \in 1 .. n
  BY <1>4
<1>7. ASSUME NEW k \in 1 .. n + 1, NEW p \in 1 .. n + 1, a[k] # 0, a[k] = a[p]
      PROVE  k = p
  <2>1. r[a[k]] \in Nat
    BY <1>1, <1>6, <1>7 DEF Chained
  <2>2. ~(p \in 1 .. k - 1) /\ ~(k \in 1 .. p - 1)
    BY <1>5, <1>7, <2>1
  <2> QED
    BY <2>2
<1>8. ASSUME NEW i \in 1 .. n, Homes(t, n)[i] = h PROVE \E p \in 1 .. n : a[p] = i
  BY <1>1, <1>3, <1>8, WalkCovers
<1> QED
  BY <1>3, <1>4, <1>5, <1>6, <1>7, <1>8 DEF a, IsThread

\* A set of numbers has a minimum.
LEMMA MinOf ==
  ASSUME NEW B \in SUBSET Nat, B # {}
  PROVE  Min(B) \in B /\ \A k \in B : Min(B) <= k
  BY LeastOf DEF Min

\* Find() finds the slot with the name, if there is one.
LEMMA FindFinds ==
  ASSUME HashOK, NEW n \in Nat \ {0}, NEW N, NEW V, NEW t \in TableOf(n, N, V),
         LinkedOn(t, n, 1 .. n), NEW name
  PROVE  LET f == Find(t, name) IN
         \/ /\ f = 0
            /\ \A i \in 1 .. n : t.tab[i].item # NoItem => t.tab[i].name # name
         \/ f \in 1 .. n /\ t.tab[f].item # NoItem /\ t.tab[f].name = name
<1> DEFINE h == 1 + (Hash(name) % n)
           a == Thread(t, Heads(t, n)[h])
           B == {i \in 1 .. Len(a) : a[i] # 0 /\ t.tab[a[i]].name = name}
<1>1. h \in 1 .. n /\ Bucket(t, name) = h
  BY TableHas
<1>2. Heads(t, n)[h] = t.hashtab[Bucket(t, name)]
  BY <1>1 DEF Heads
<1>3. Find(t, name) = IF B = {} THEN 0 ELSE a[Min(B)]
  <2>1. SelectInSeq(a, LAMBDA i : i # 0 /\ t.tab[i].name = name)
          = IF B # {} THEN Min(B) ELSE 0
    BY DEF SelectInSeq
  <2>2. B # {} => Min(B) # 0
    <3>1. B \in SUBSET Nat
      OBVIOUS
    <3>2. \A k \in B : k # 0
      OBVIOUS
    <3> HIDE DEF B
    <3> QED
      BY <3>1, <3>2, MinOf
  <2> HIDE DEF B
  <2> QED
    BY <1>2, <2>1, <2>2 DEF Find
<1>4. /\ Len(a) = n + 1
      /\ \A k \in 1 .. n + 1 : a[k] # 0 => a[k] \in 1 .. n /\ Homes(t, n)[a[k]] = h
      /\ \A i \in 1 .. n : Homes(t, n)[i] = h => \E p \in 1 .. n : a[p] = i
  <2> HIDE DEF h
  <2>1. IsThread(t, n, h, a)
    BY <1>1, ThreadOf
  <2> HIDE DEF a
  <2> QED
    BY <2>1 DEF IsThread
<1> HIDE DEF a
<1>5. CASE B = {}
  <2>1. ASSUME NEW i \in 1 .. n, t.tab[i].item # NoItem, t.tab[i].name = name
        PROVE  FALSE
    <3>1. Homes(t, n)[i] = h
      BY <2>1 DEF Homes
    <3>2. PICK p \in 1 .. n : a[p] = i
      BY <1>4, <3>1
    <3>3. p \in B
      BY <1>4, <2>1, <3>2
    <3> QED
      BY <1>5, <3>3
  <2> QED
    BY <1>3, <1>5, <2>1
<1>6. CASE B # {}
  <2>1. Min(B) \in B
    <3>1. B \in SUBSET Nat
      OBVIOUS
    <3> HIDE DEF B
    <3> QED
      BY <1>6, <3>1, MinOf
  <2> DEFINE f == a[Min(B)]
  <2>2. Find(t, name) = f
    BY <1>3, <1>6
  <2>3. f \in 1 .. n /\ Homes(t, n)[f] = h /\ t.tab[f].name = name
    BY <1>4, <2>1
  <2>4. t.tab[f].item # NoItem
    <3> HIDE DEF h, f
    <3> QED
      BY <1>1, <2>3 DEF Homes
  <2> QED
    BY <2>2, <2>3, <2>4
<1> QED
  BY <1>5, <1>6

---------------------------------------------------------------------------
(* Slots are freed                                                         *)

\* Slot i becomes blank and goes on the thread of blanks.
Freed(t, i) == [t EXCEPT !.tab[i] = BlankSlot(t.blanks), !.blanks = i]

\* Table u is t with slot i, which was on no thread, on the thread of blanks.
SlotFreed(t, u, n, N, V, D, i) ==
  /\ u \in TableOf(n, N, V) /\ LinkedOn(u, n, D \cup {i})
  /\ u.tab[i].item = NoItem
  /\ \A j \in 1 .. n : j # i => u.tab[j] = t.tab[j]

\* A slot that is on no thread, when freed, is on the thread of blanks.
LEMMA FreedLinks ==
  ASSUME HashOK, NEW n \in Nat \ {0}, NEW N, NEW V, NEW t \in TableOf(n, N, V),
         NEW D, LinkedOn(t, n, D), NEW i \in (1 .. n) \ D,
         NoIdent \in N, NoItem \in V
  PROVE  SlotFreed(t, Freed(t, i), n, N, V, D, i)
<1> DEFINE u == Freed(t, i)
           f == t.blanks
           s == BlankSlot(f)
           tab2 == [t.tab EXCEPT ![i] = s]
<1>1. /\ t.tab \in [1 .. n -> SlotOf(n, N, V)] /\ t.hashtab \in [1 .. n -> 0 .. n]
      /\ DOMAIN t = {"blanks", "hashtab", "tab"} /\ f \in 0 .. n
  BY DEF TableOf
<1>2. u = [t EXCEPT !.tab = tab2, !.blanks = i]
  BY DEF Freed
<1>3. s \in SlotOf(n, N, V) /\ s.next = f /\ s.item = NoItem
  BY <1>1 DEF BlankSlot, SlotOf
<1> HIDE DEF s, u
<1>4. /\ tab2 \in [1 .. n -> SlotOf(n, N, V)] /\ tab2[i] = s
      /\ \A j \in 1 .. n : j # i => tab2[j] = t.tab[j]
  BY <1>1, <1>3
<1> HIDE DEF tab2
<1>5. u \in TableOf(n, N, V) /\ u.blanks = i /\ u.tab = tab2 /\ u.hashtab = t.hashtab
  <2>1. i \in 0 .. n
    OBVIOUS
  <2> HIDE DEF f
  <2> QED
    BY <1>1, <1>2, <1>4, <2>1 DEF TableOf
<1>6. Heads(u, n) = [Heads(t, n) EXCEPT ![0] = i] /\ Heads(t, n)[0] = f
  <2>1. \A h \in 0 .. n : Heads(u, n)[h] = IF h = 0 THEN i ELSE Heads(t, n)[h]
    BY <1>5 DEF Heads
  <2>2. Heads(u, n) = [h \in 0 .. n |-> IF h = 0 THEN i ELSE Heads(t, n)[h]]
    BY <2>1 DEF Heads
  <2>3. DOMAIN Heads(t, n) = 0 .. n /\ 0 \in 0 .. n
    BY DEF Heads
  <2>4. Heads(t, n)[0] = f
    BY <2>3 DEF Heads
  <2> QED
    BY <2>2, <2>3, <2>4
<1>7. Nexts(u, n) = [Nexts(t, n) EXCEPT ![i] = f]
  BY <1>3, <1>4, <1>5 DEF Nexts
<1>8. Homes(u, n) = [Homes(t, n) EXCEPT ![i] = 0]
  <2>1. \A j \in 1 .. n : Homes(u, n)[j] = IF j = i THEN 0 ELSE Homes(t, n)[j]
    BY <1>3, <1>4, <1>5 DEF Homes
  <2>2. Homes(u, n) = [j \in 1 .. n |-> IF j = i THEN 0 ELSE Homes(t, n)[j]]
    BY <2>1 DEF Homes
  <2>3. DOMAIN Homes(t, n) = 1 .. n
    BY DEF Homes
  <2> QED
    BY <2>2, <2>3
<1>9. LinkedOn(u, n, D \cup {i})
  <2> DEFINE head == Heads(t, n)
             next == Nexts(t, n)
             home == [Homes(t, n) EXCEPT ![i] = 0]
  <2>1. PICK r : Chained(n, Heads(t, n), Nexts(t, n), Homes(t, n), r, D)
    BY DEF LinkedOn
  <2>2. Chained(n, head, next, home, r, D)
    BY <2>1, Rehomed
  <2>3. home[i] = 0 /\ head[0] = f
    BY <1>6 DEF Homes
  <2> HIDE DEF head, next, home
  <2>4. \E q : Chained(n, [head EXCEPT ![home[i]] = i],
                       [next EXCEPT ![i] = head[home[i]]], home, q, D \cup {i})
    BY <2>2, Pushed
  <2>5. \E q : Chained(n, [head EXCEPT ![0] = i], [next EXCEPT ![i] = f], home, q,
                       D \cup {i})
    BY <2>3, <2>4
  <2> QED
    BY <2>5, <1>6, <1>7, <1>8 DEF LinkedOn, head, next, home
<1> QED
  BY <1>3, <1>4, <1>5, <1>9 DEF u, SlotFreed

\* Slot i leaves its thread, at the head or behind slot p.
Headless(t, b, i) == [t EXCEPT !.hashtab[b] = t.tab[i].next]
Skipping(t, p, i) == [t EXCEPT !.tab[p].next = t.tab[i].next]

\* The first slot of a hash thread leaves it.
LEMMA HeadLeaves ==
  ASSUME HashOK, NEW n \in Nat \ {0}, NEW N, NEW V, NEW t \in TableOf(n, N, V),
         LinkedOn(t, n, 1 .. n), NEW i \in 1 .. n, t.tab[i].item # NoItem,
         NEW b \in 1 .. n, b = Homes(t, n)[i], t.hashtab[b] = i
  PROVE  LET u == Headless(t, b, i) IN
         /\ u \in TableOf(n, N, V) /\ LinkedOn(u, n, (1 .. n) \ {i})
         /\ u.tab = t.tab /\ u.blanks = t.blanks
<1> DEFINE f == t.tab[i].next
           hash2 == [t.hashtab EXCEPT ![b] = f]
           u == [t EXCEPT !.hashtab = hash2]
<1>1. /\ t.tab \in [1 .. n -> SlotOf(n, N, V)] /\ t.hashtab \in [1 .. n -> 0 .. n]
      /\ DOMAIN t = {"blanks", "hashtab", "tab"} /\ t.blanks \in 0 .. n
      /\ f \in 0 .. n
  BY DEF TableOf, SlotOf
<1>2. /\ hash2 \in [1 .. n -> 0 .. n] /\ hash2[b] = f
      /\ \A h \in 1 .. n : h # b => hash2[h] = t.hashtab[h]
  BY <1>1
<1> HIDE DEF hash2
<1>3. /\ u \in TableOf(n, N, V) /\ u.tab = t.tab /\ u.blanks = t.blanks
      /\ u.hashtab = hash2
  BY <1>1, <1>2 DEF TableOf
<1> HIDE DEF u
<1>4. Heads(u, n) = [Heads(t, n) EXCEPT ![b] = f]
  <2>1. \A h \in 0 .. n : Heads(u, n)[h] = IF h = b THEN f ELSE Heads(t, n)[h]
    BY <1>2, <1>3 DEF Heads
  <2>2. Heads(u, n) = [h \in 0 .. n |-> IF h = b THEN f ELSE Heads(t, n)[h]]
    BY <2>1 DEF Heads
  <2>3. DOMAIN Heads(t, n) = 0 .. n
    BY DEF Heads
  <2> QED
    BY <2>2, <2>3
<1>5. Nexts(u, n) = Nexts(t, n) /\ Homes(u, n) = Homes(t, n) /\ Nexts(t, n)[i] = f
  BY <1>3 DEF Nexts, Homes
<1>6. Heads(t, n)[b] = i
  BY DEF Heads
<1>7. LinkedOn(u, n, (1 .. n) \ {i})
  <2> DEFINE head == Heads(t, n)
             next == Nexts(t, n)
             home == Homes(t, n)
             D == 1 .. n
  <2>1. PICK r : Chained(n, head, next, home, r, D)
    BY DEF LinkedOn
  <2>2. home[i] = b /\ head[home[i]] = i /\ next[i] = f /\ i \in D
    BY <1>5, <1>6
  <2> HIDE DEF head, next, home, D
  <2>3. Chained(n, [head EXCEPT ![home[i]] = next[i]], next, home, r, D \ {i})
    BY <2>1, <2>2, HeadUnlinked
  <2>4. Chained(n, [head EXCEPT ![b] = f], next, home, r, D \ {i})
    BY <2>2, <2>3
  <2> QED
    BY <2>4, <1>4, <1>5 DEF LinkedOn, head, next, home, D
<1> QED
  BY <1>3, <1>7 DEF u, hash2, Headless

\* Table u is t without slot i, which is on no thread.
SlotLeft(t, u, n, N, V, i) ==
  /\ u \in TableOf(n, N, V) /\ LinkedOn(u, n, (1 .. n) \ {i})
  /\ \A j \in 1 .. n : u.tab[j].name = t.tab[j].name
                       /\ u.tab[j].item = t.tab[j].item
  /\ u.blanks = t.blanks

\* Any other slot leaves its thread, when the one before it skips it.
LEMMA SlotLeaves ==
  ASSUME HashOK, NEW n \in Nat \ {0}, NEW N, NEW V, NEW t \in TableOf(n, N, V),
         LinkedOn(t, n, 1 .. n), NEW i \in 1 .. n, NEW p \in 1 .. n,
         t.tab[p].next = i
  PROVE  SlotLeft(t, Skipping(t, p, i), n, N, V, i)
<1> DEFINE f == t.tab[i].next
           s == [t.tab[p] EXCEPT !.next = f]
           tab2 == [t.tab EXCEPT ![p] = s]
           u == [t EXCEPT !.tab = tab2]
<1>1. /\ t.tab \in [1 .. n -> SlotOf(n, N, V)] /\ t.hashtab \in [1 .. n -> 0 .. n]
      /\ DOMAIN t = {"blanks", "hashtab", "tab"} /\ t.blanks \in 0 .. n
      /\ f \in 0 .. n
  BY DEF TableOf, SlotOf
<1>2. /\ s \in SlotOf(n, N, V) /\ s.next = f /\ s.name = t.tab[p].name
      /\ s.item = t.tab[p].item
  BY <1>1 DEF SlotOf
<1> HIDE DEF s
<1>3. /\ tab2 \in [1 .. n -> SlotOf(n, N, V)] /\ tab2[p] = s
      /\ \A j \in 1 .. n : j # p => tab2[j] = t.tab[j]
  BY <1>1, <1>2
<1> HIDE DEF tab2
<1>4. /\ u \in TableOf(n, N, V) /\ u.tab = tab2 /\ u.blanks = t.blanks
      /\ u.hashtab = t.hashtab
  BY <1>1, <1>3 DEF TableOf
<1> HIDE DEF u
<1>5. \A j \in 1 .. n : u.tab[j].name = t.tab[j].name /\ u.tab[j].item = t.tab[j].item
  BY <1>2, <1>3, <1>4
<1>6. Heads(u, n) = Heads(t, n) /\ Homes(u, n) = Homes(t, n)
  BY <1>4, <1>5 DEF Heads, Homes
<1>7. Nexts(u, n) = [Nexts(t, n) EXCEPT ![p] = f]
  BY <1>2, <1>3, <1>4 DEF Nexts
<1>8. Nexts(t, n)[p] = i /\ Nexts(t, n)[i] = f
  BY DEF Nexts
<1>9. LinkedOn(u, n, (1 .. n) \ {i})
  <2> DEFINE next == Nexts(t, n)
             D == 1 .. n
  <2>1. PICK r : Chained(n, Heads(t, n), next, Homes(t, n), r, D)
    BY DEF LinkedOn
  <2>2. next[p] = i /\ next[i] = f /\ p \in D /\ i \in D
    BY <1>8
  <2> HIDE DEF next, D
  <2>3. Chained(n, Heads(t, n), [next EXCEPT ![p] = next[i]], Homes(t, n), r, D \ {i})
    BY <2>1, <2>2, CellUnlinked
  <2>4. Chained(n, Heads(t, n), [next EXCEPT ![p] = f], Homes(t, n), r, D \ {i})
    BY <2>2, <2>3
  <2> QED
    BY <2>4, <1>6, <1>7 DEF LinkedOn, next, D
<1>10. u = Skipping(t, p, i)
  BY DEF u, tab2, s, Skipping
<1> QED
  BY <1>4, <1>5, <1>9, <1>10 DEF SlotLeft

\* FreeSlot(), of a name that has a slot
LEMMA FreeSlotLinks ==
  ASSUME HashOK, NEW n \in Nat \ {0}, NEW N, NEW V, NEW t \in TableOf(n, N, V),
         LinkedOn(t, n, 1 .. n), NoIdent \in N, NoItem \in V,
         NEW name, Find(t, name) # 0
  PROVE  LET u == FreeSlot(t, name)
             i == Find(t, name)
         IN
         /\ i \in 1 .. n /\ t.tab[i].item # NoItem /\ t.tab[i].name = name
         /\ u \in TableOf(n, N, V) /\ LinkedOn(u, n, 1 .. n)
         /\ u.tab[i].item = NoItem
         /\ \A j \in 1 .. n : j # i => u.tab[j].name = t.tab[j].name
                                       /\ u.tab[j].item = t.tab[j].item
<1> DEFINE i == Find(t, name)
           b == Bucket(t, name)
           p == CHOOSE j \in ToSet(Thread(t, t.hashtab[b])) \ {0} : t.tab[j].next = i
           out == IF t.hashtab[b] = i THEN [t EXCEPT !.hashtab[b] = t.tab[i].next]
                  ELSE [t EXCEPT !.tab[p].next = t.tab[i].next]
<1>1. i \in 1 .. n /\ t.tab[i].item # NoItem /\ t.tab[i].name = name
  BY FindFinds
<1>2. b \in 1 .. n /\ b = 1 + (Hash(name) % n)
  BY TableHas
<1>3. b = Homes(t, n)[i] /\ t.hashtab[b] = Heads(t, n)[b]
  BY <1>1, <1>2 DEF Homes, Heads
<1>4. FreeSlot(t, name) = [out EXCEPT !.tab[i] = BlankSlot(t.blanks), !.blanks = i]
  BY DEF FreeSlot
<1> HIDE DEF i, b
<1>7. /\ out \in TableOf(n, N, V) /\ LinkedOn(out, n, (1 .. n) \ {i})
      /\ \A j \in 1 .. n : out.tab[j].name = t.tab[j].name
                           /\ out.tab[j].item = t.tab[j].item
      /\ out.blanks = t.blanks
  <2>1. CASE t.hashtab[b] = i
    <3> DEFINE v == Headless(t, b, i)
    <3>1. out = v
      BY <2>1 DEF Headless
    <3>2. /\ v \in TableOf(n, N, V) /\ LinkedOn(v, n, (1 .. n) \ {i})
          /\ v.tab = t.tab /\ v.blanks = t.blanks
      BY <1>1, <1>2, <1>3, <2>1, HeadLeaves
    <3> HIDE DEF v, out
    <3> QED
      BY <3>1, <3>2
  <2>2. CASE t.hashtab[b] # i
    <3> DEFINE a == Thread(t, Heads(t, n)[b])
    <3>1. PICK j \in 1 .. n : Nexts(t, n)[j] = i /\ Homes(t, n)[j] = b
      <4>1. PICK r : Chained(n, Heads(t, n), Nexts(t, n), Homes(t, n), r, 1 .. n)
        BY DEF LinkedOn
      <4>2. \E j \in 1 .. n : Nexts(t, n)[j] = i
        BY <4>1, <1>1, <1>3, <2>2 DEF Chained
      <4>3. PICK j \in 1 .. n : Nexts(t, n)[j] = i
        BY <4>2
      <4>4. i # 0
        BY <1>1
      <4>5. Homes(t, n)[i] = Homes(t, n)[j]
        BY <4>1, <4>3, <4>4 DEF Chained
      <4> QED
        BY <4>3, <4>5, <1>3
    <3>2. /\ DOMAIN a = 1 .. n + 1
          /\ \A k \in 1 .. n + 1 : a[k] # 0 => a[k] \in 1 .. n
          /\ \E k \in 1 .. n : a[k] = j
      <4>1. b \in 0 .. n
        BY <1>2
      <4>2. IsThread(t, n, b, a)
        BY <4>1, ThreadOf
      <4> HIDE DEF a
      <4> QED
        BY <3>1, <4>2 DEF IsThread
    <3>3. a = Thread(t, t.hashtab[b])
      BY <1>3
    <3> HIDE DEF a
    <3>4. j \in ToSet(a) \ {0} /\ t.tab[j].next = i
      <4>1. \A k \in 1 .. n : k \in 1 .. n + 1
        OBVIOUS
      <4> QED
        BY <3>1, <3>2, <4>1 DEF ToSet, Nexts
    <3>5. p \in ToSet(a) \ {0} /\ t.tab[p].next = i
      BY <3>3, <3>4
    <3> DEFINE v == Skipping(t, p, i)
    <3>6. out = v
      BY <2>2 DEF Skipping
    <3> HIDE DEF out, p
    <3>7. p \in 1 .. n
      BY <3>2, <3>5 DEF ToSet
    <3>8. /\ v \in TableOf(n, N, V) /\ LinkedOn(v, n, (1 .. n) \ {i})
          /\ \A k \in 1 .. n : v.tab[k].name = t.tab[k].name
                               /\ v.tab[k].item = t.tab[k].item
          /\ v.blanks = t.blanks
      <4>1. t.tab[p].next = i /\ i \in 1 .. n /\ p \in 1 .. n
        BY <3>5, <3>7, <1>1
      <4> HIDE DEF a
      <4>2. SlotLeft(t, v, n, N, V, i)
        BY <4>1, SlotLeaves
      <4> HIDE DEF v
      <4> QED
        BY <4>2 DEF SlotLeft
    <3> HIDE DEF v
    <3> QED
      BY <3>6, <3>8
  <2> QED
    BY <2>1, <2>2
<1> HIDE DEF out
<1>8. FreeSlot(t, name) = Freed(out, i)
  BY <1>4, <1>7 DEF Freed
<1> DEFINE u == Freed(out, i)
           D == (1 .. n) \ {i}
<1>9. i \in (1 .. n) \ D /\ D \cup {i} = 1 .. n
  BY <1>1
<1>10. /\ u \in TableOf(n, N, V) /\ LinkedOn(u, n, D \cup {i})
       /\ u.tab[i].item = NoItem
       /\ \A j \in 1 .. n : j # i => u.tab[j] = out.tab[j]
  <2> HIDE DEF D
  <2>1. LinkedOn(out, n, D)
    BY <1>7 DEF D
  <2>2. SlotFreed(out, u, n, N, V, D, i)
    BY <1>7, <1>9, <2>1, FreedLinks
  <2> HIDE DEF u
  <2> QED
    BY <2>2 DEF SlotFreed
<1> HIDE DEF u, D
<1>11. LinkedOn(u, n, 1 .. n)
  BY <1>9, <1>10
<1> QED
  BY <1>1, <1>7, <1>8, <1>10, <1>11 DEF u, i

---------------------------------------------------------------------------
(* New and larger tables                                                   *)

\* A blank slot is a slot, without an item.
LEMMA BlankSlotIs ==
  ASSUME NEW n \in Nat, NEW f \in 0 .. n, NEW N, NEW V, NoIdent \in N, NoItem \in V
  PROVE  /\ BlankSlot(f) \in SlotOf(n, N, V)
         /\ BlankSlot(f).item = NoItem /\ BlankSlot(f).next = f
  BY DEF BlankSlot, SlotOf

\* Slots from k + 1 to the last are blank, on one thread.
LEMMA BlanksLinked ==
  ASSUME HashOK, NEW n \in Nat \ {0}, NEW N, NEW V, NEW t \in TableOf(n, N, V),
         NEW k \in 0 .. n - 1, t.blanks = k + 1,
         \A h \in 1 .. n : t.hashtab[h] = 0,
         \A i \in k + 1 .. n : /\ t.tab[i].item = NoItem
                               /\ t.tab[i].next = IF i = n THEN 0 ELSE i + 1
  PROVE  LinkedOn(t, n, k + 1 .. n)
<1> DEFINE D == k + 1 .. n
           r == [i \in 1 .. n |-> n - i]
           head == Heads(t, n)
           next == Nexts(t, n)
           home == Homes(t, n)
<1>1. /\ head \in [0 .. n -> 0 .. n] /\ next \in [1 .. n -> 0 .. n]
      /\ home \in [1 .. n -> 0 .. n]
  BY LinksAre
<1>2. \A h \in 0 .. n : head[h] = IF h = 0 THEN k + 1 ELSE 0
  BY DEF Heads
<1>3. \A i \in D : next[i] = (IF i = n THEN 0 ELSE i + 1) /\ home[i] = 0
  BY DEF Nexts, Homes
<1>4. r \in [1 .. n -> Nat] /\ D \subseteq 1 .. n /\ \A i \in D : r[i] = n - i
  OBVIOUS
<1> HIDE DEF head, next, home, r
<1>5. \A h \in 0 .. n : head[h] # 0 => head[h] \in D /\ home[head[h]] = h
  BY <1>2, <1>3
<1>6. ASSUME NEW i \in D, next[i] # 0
      PROVE  /\ next[i] \in D /\ home[next[i]] = home[i]
             /\ r[next[i]] < r[i] /\ head[home[i]] # next[i]
  <2>1. i # n /\ next[i] = i + 1 /\ i + 1 \in D
    BY <1>3, <1>6
  <2>2. home[i + 1] = 0 /\ home[i] = 0 /\ 0 \in 0 .. n /\ i # k
    BY <1>3, <2>1
  <2>3. r[i] = n - i /\ r[i + 1] = n - (i + 1)
    BY <1>4, <2>1
  <2>4. head[0] # i + 1
    BY <1>2, <2>2
  <2> QED
    BY <2>1, <2>2, <2>3, <2>4
<1>7. ASSUME NEW i \in D PROVE head[home[i]] = i \/ \E j \in D : next[j] = i
  <2>1. CASE i = k + 1
    BY <2>1, <1>2, <1>3
  <2>2. CASE i # k + 1
    <3>1. i - 1 \in D /\ i - 1 # n /\ i - 1 + 1 = i
      BY <2>2
    <3> QED
      BY <3>1, <1>3
  <2> QED
    BY <2>1, <2>2
<1>8. ASSUME NEW i \in D, NEW j \in D, next[i] = next[j], next[i] # 0 PROVE i = j
  BY <1>3, <1>8
<1>9. Chained(n, head, next, home, r, D)
  BY <1>1, <1>4, <1>5, <1>6, <1>7, <1>8 DEF Chained
<1> QED
  BY <1>9 DEF LinkedOn, head, next, home

\* All the slots of a new table are on the thread of blanks.
LEMMA NewTableLinks ==
  ASSUME HashOK
  PROVE  LET n == STARTING_SIZE IN
         /\ n \in Nat \ {0}
         /\ NewTable \in TableOf(n, {NoIdent}, {NoItem})
         /\ LinkedOn(NewTable, n, 1 .. n)
         /\ \A i \in 1 .. n : NewTable.tab[i].item = NoItem
<1> DEFINE n == STARTING_SIZE
           t == NewTable
<1>1. n \in Nat \ {0}
  BY SizesAssumption
<1> HIDE DEF n
<1>2. t.tab = [i \in 1 .. n |-> BlankSlot(IF i = n THEN 0 ELSE 1 + i)]
  <2>1. n - 1 + 1 = n
    BY <1>1
  <2>2. \A i \in 1 .. n : 1 + i - 1 = i
    BY <1>1
  <2>3. t.tab = [i \in 1 .. n - 1 + 1 |-> BlankSlot(IF 1 + i - 1 = n THEN 0 ELSE 1 + i)]
    BY DEF NewTable, BlankSlots, n
  <2> QED
    BY <2>1, <2>2, <2>3
<1>3. t.hashtab = [i \in 1 .. n |-> 0] /\ t.blanks = 1
      /\ t = [blanks |-> t.blanks, hashtab |-> t.hashtab, tab |-> t.tab]
  BY DEF NewTable, n
<1> HIDE DEF t
<1>4. \A i \in 1 .. n : t.tab[i] = BlankSlot(IF i = n THEN 0 ELSE 1 + i)
  BY <1>2
<1>5. \A i \in 1 .. n : /\ t.tab[i] \in SlotOf(n, {NoIdent}, {NoItem})
                        /\ t.tab[i].item = NoItem
                        /\ t.tab[i].next = IF i = n THEN 0 ELSE i + 1
  <2> TAKE i \in 1 .. n
  <2> DEFINE f == IF i = n THEN 0 ELSE 1 + i
  <2>1. f \in 0 .. n /\ n \in Nat /\ f = IF i = n THEN 0 ELSE i + 1
    BY <1>1
  <2>2. t.tab[i] = BlankSlot(f)
    BY <1>4
  <2> HIDE DEF f
  <2> QED
    BY <2>1, <2>2, BlankSlotIs
<1>6. t.tab \in [1 .. n -> SlotOf(n, {NoIdent}, {NoItem})]
  BY <1>2, <1>5
<1>7. t \in TableOf(n, {NoIdent}, {NoItem})
  <2>1. [i \in 1 .. n |-> 0] \in [1 .. n -> 0 .. n] /\ 1 \in 0 .. n
    BY <1>1
  <2> QED
    BY <1>3, <1>6, <2>1 DEF TableOf
<1>8. LinkedOn(t, n, 0 + 1 .. n)
  <2>1. 0 \in 0 .. n - 1 /\ t.blanks = 0 + 1 /\ \A h \in 1 .. n : t.hashtab[h] = 0
    BY <1>1, <1>3
  <2>2. \A i \in 0 + 1 .. n : /\ t.tab[i].item = NoItem
                              /\ t.tab[i].next = IF i = n THEN 0 ELSE i + 1
    BY <1>1, <1>5
  <2> QED
    BY <1>1, <1>7, <2>1, <2>2, BlanksLinked
<1>9. LinkedOn(t, n, 1 .. n)
  BY <1>8
<1> QED
  BY <1>1, <1>5, <1>7, <1>9 DEF t, n

\* A table without a thread of blanks has no blank slot.
LEMMA NoBlanks ==
  ASSUME HashOK, NEW n \in Nat \ {0}, NEW N, NEW V, NEW t \in TableOf(n, N, V),
         LinkedOn(t, n, 1 .. n), t.blanks = 0, NEW i \in 1 .. n
  PROVE  t.tab[i].item # NoItem
<1> SUFFICES ASSUME t.tab[i].item = NoItem PROVE FALSE
  OBVIOUS
<1>1. Homes(t, n)[i] = 0 /\ Heads(t, n)[0] = 0 /\ 0 \in 0 .. n
  BY DEF Homes, Heads
<1> DEFINE a == Thread(t, Heads(t, n)[0])
<1>2. Walk(n, a, Heads(t, n)[0], Nexts(t, n)) /\ \E p \in 1 .. n : a[p] = i
  <2>1. IsThread(t, n, 0, a)
    BY <1>1, ThreadOf
  <2> HIDE DEF a
  <2> QED
    BY <1>1, <2>1 DEF IsThread
<1> HIDE DEF a
<1>3. PICK p \in 1 .. n : a[p] = i
  BY <1>2
<1>4. \A k \in 1 .. n : a[k] = 0 => a[k + 1] = 0
  BY <1>2 DEF Walk
<1> DEFINE P == {k \in 0 .. n : a[k + 1] = 0}
<1>5. 0 \in P
  BY <1>1, <1>2 DEF Walk
<1>6. \A k \in 0 .. n - 1 : k \in P => k + 1 \in P
  <2>1. \A k \in 0 .. n - 1 : k + 1 \in 1 .. n /\ k + 1 \in 0 .. n
    OBVIOUS
  <2> QED
    BY <1>4, <2>1
<1>7. \A k \in 0 .. n : k \in P
  <2> HIDE DEF P
  <2> QED
    BY <1>5, <1>6, Induct
<1>8. p - 1 \in 0 .. n /\ p - 1 + 1 = p /\ i # 0
  OBVIOUS
<1> QED
  BY <1>3, <1>7, <1>8

\* Grown()'s empty table
Emptied(t) ==
  LET size == Len(t.tab)
      larger == size * 2 + MALLOC_DELTA + 1
  IN  [blanks |-> size + 1, hashtab |-> [i \in 1 .. larger |-> 0],
       tab |-> t.tab \o BlankSlots(size + 1, larger)]

\* The table that object_add_method() and object_add_var() make when no slot is
\* blank: the old slots keep their contents and are on no thread, and the new ones
\* are blank.
LEMMA EmptiedLinks ==
  ASSUME HashOK, NEW n \in Nat \ {0}, NEW N, NEW V, NEW t \in TableOf(n, N, V),
         NoIdent \in N, NoItem \in V
  PROVE  LET m == n * 2 + MALLOC_DELTA + 1
             u == Emptied(t)
         IN
         /\ m \in Nat \ {0} /\ n < m
         /\ u \in TableOf(m, N, V) /\ u.blanks = n + 1
         /\ LinkedOn(u, m, n + 1 .. m)
         /\ \A j \in 1 .. n : u.tab[j].name = t.tab[j].name
                              /\ u.tab[j].item = t.tab[j].item
         /\ \A j \in n + 1 .. m : u.tab[j].item = NoItem
<1> DEFINE m == n * 2 + MALLOC_DELTA + 1
           u == Emptied(t)
           S == SlotOf(m, N, V)
           new == BlankSlots(n + 1, m)
<1>1. m \in Nat \ {0} /\ n < m
  BY SizesAssumption
<1>2. Len(t.tab) = n
  BY TableHas
<1>3. u = [blanks |-> n + 1, hashtab |-> [i \in 1 .. m |-> 0], tab |-> t.tab \o new]
  BY <1>2 DEF Emptied
<1> HIDE DEF m, u, S
<1>4. t.tab \in Seq(S)
  <2>1. t.tab \in [1 .. n -> S]
    <3>1. \A i \in 1 .. n : t.tab[i] \in SlotOf(n, N, V)
      BY DEF TableOf
    <3>2. SlotOf(n, N, V) \subseteq S
      BY <1>1 DEF SlotOf, S
    <3>3. t.tab = [i \in 1 .. n |-> t.tab[i]]
      BY DEF TableOf
    <3> QED
      BY <3>1, <3>2, <3>3
  <2> QED
    BY <2>1, LenOf
<1>5. m - n \in Nat /\ m - (n + 1) + 1 = m - n
  BY <1>1
<1>6. /\ new \in [1 .. m - n -> S]
      /\ \A i \in 1 .. m - n : /\ new[i].item = NoItem
                               /\ new[i].next = IF n + i = m THEN 0 ELSE n + 1 + i
  <2>1. new = [i \in 1 .. m - n |->
                 BlankSlot(IF n + 1 + i - 1 = m THEN 0 ELSE n + 1 + i)]
    BY <1>5 DEF BlankSlots
  <2>2. \A i \in 1 .. m - n : (n + 1 + i - 1 = m <=> n + i = m)
                              /\ (n + i # m => n + 1 + i \in 0 .. m) /\ 0 \in 0 .. m
    BY <1>1
  <2> HIDE DEF new
  <2>3. \A i \in 1 .. m - n : new[i] = BlankSlot(IF n + i = m THEN 0 ELSE n + 1 + i)
    BY <2>1, <2>2
  <2>4. \A i \in 1 .. m - n : /\ new[i] \in S /\ new[i].item = NoItem
                              /\ new[i].next = IF n + i = m THEN 0 ELSE n + 1 + i
    <3> TAKE i \in 1 .. m - n
    <3> DEFINE f == IF n + i = m THEN 0 ELSE n + 1 + i
    <3>1. f \in 0 .. m /\ m \in Nat
      BY <1>1, <2>2
    <3>2. new[i] = BlankSlot(f)
      BY <2>3
    <3>3. /\ BlankSlot(f) \in SlotOf(m, N, V)
          /\ BlankSlot(f).item = NoItem /\ BlankSlot(f).next = f
      <4> HIDE DEF f
      <4> QED
        BY <3>1, BlankSlotIs
    <3> QED
      BY <3>2, <3>3 DEF S
  <2>5. new = [i \in 1 .. m - n |-> new[i]]
    BY <2>1
  <2> QED
    BY <2>4, <2>5
<1> HIDE DEF new
<1>7. new \in Seq(S) /\ Len(new) = m - n
  BY <1>5, <1>6, LenOf
<1>8. /\ u.tab \in Seq(S) /\ Len(u.tab) = m
      /\ \A i \in 1 .. m : u.tab[i] = IF i <= n THEN t.tab[i] ELSE new[i - n]
  <2>1. /\ t.tab \o new \in Seq(S) /\ Len(t.tab \o new) = Len(t.tab) + Len(new)
        /\ \A i \in 1 .. Len(t.tab) + Len(new) :
             (t.tab \o new)[i] = IF i <= Len(t.tab) THEN t.tab[i] ELSE new[i - Len(t.tab)]
    BY <1>4, <1>7, ConcatProperties
  <2>2. Len(t.tab) + Len(new) = m
    BY <1>1, <1>2, <1>7
  <2> QED
    BY <1>2, <1>3, <2>1, <2>2
<1>9. u \in TableOf(m, N, V)
  <2>1. u.tab \in [1 .. m -> S]
    BY <1>8, LenProperties
  <2>2. n + 1 \in 0 .. m /\ [i \in 1 .. m |-> 0] \in [1 .. m -> 0 .. m]
    BY <1>1
  <2> QED
    BY <1>3, <2>1, <2>2 DEF TableOf, S
<1>10. \A j \in 1 .. n : u.tab[j] = t.tab[j]
  BY <1>1, <1>8
<1>11. \A j \in n + 1 .. m : /\ u.tab[j].item = NoItem
                             /\ u.tab[j].next = IF j = m THEN 0 ELSE j + 1
  <2> TAKE j \in n + 1 .. m
  <2>1. /\ j - n \in 1 .. m - n /\ j \in 1 .. m /\ ~(j <= n)
        /\ n + (j - n) = j /\ n + 1 + (j - n) = j + 1
    BY <1>1
  <2> QED
    BY <2>1, <1>6, <1>8
<1>12. LinkedOn(u, m, n + 1 .. m)
  <2>1. n \in 0 .. m - 1 /\ u.blanks = n + 1 /\ \A h \in 1 .. m : u.hashtab[h] = 0
    BY <1>1, <1>3
  <2> QED
    BY <1>1, <1>9, <1>11, <2>1, BlanksLinked
<1>13. u.blanks = n + 1
  BY <1>3
<1>14. \A j \in 1 .. n : u.tab[j].name = t.tab[j].name /\ u.tab[j].item = t.tab[j].item
  BY <1>10
<1> QED
  BY <1>1, <1>9, <1>11, <1>12, <1>13, <1>14 DEF u, m

\* u has the names and the items of t.
SameSlots(t, u, n) ==
  \A j \in 1 .. n : u.tab[j].name = t.tab[j].name /\ u.tab[j].item = t.tab[j].item

\* Threading a slot changes no name and no item.
LEMMA ThreadedKeeps ==
  ASSUME HashOK, NEW n \in Nat \ {0}, NEW N, NEW V, NEW t \in TableOf(n, N, V),
         NEW i \in 1 .. n
  PROVE  /\ Threaded(t, i) \in TableOf(n, N, V)
         /\ Threaded(t, i).blanks = t.blanks
         /\ SameSlots(t, Threaded(t, i), n)
<1>1. LET u == Threaded(t, i) IN
      /\ u \in TableOf(n, N, V) /\ u.blanks = t.blanks
      /\ \A j \in 1 .. n : u.tab[j].name = t.tab[j].name
                           /\ u.tab[j].item = t.tab[j].item
  BY ThreadedIs
<1> QED
  BY <1>1 DEF SameSlots

\* Grown(), of a table without a blank slot
LEMMA GrownLinks ==
  ASSUME HashOK, NEW n \in Nat \ {0}, NEW N, NEW V, NEW t \in TableOf(n, N, V),
         LinkedOn(t, n, 1 .. n), t.blanks = 0, NoIdent \in N, NoItem \in V
  PROVE  LET m == n * 2 + MALLOC_DELTA + 1
             u == Grown(t)
         IN
         /\ m \in Nat \ {0} /\ n < m
         /\ u \in TableOf(m, N, V) /\ u.blanks = n + 1
         /\ LinkedOn(u, m, 1 .. m)
         /\ \A j \in 1 .. n : u.tab[j].name = t.tab[j].name
                              /\ u.tab[j].item = t.tab[j].item
         /\ \A j \in n + 1 .. m : u.tab[j].item = NoItem
<1> DEFINE m == n * 2 + MALLOC_DELTA + 1
           e == Emptied(t)
           S == TableOf(m, N, V)
           At(g) == g = [i \in 0 .. Len(t.tab) |->
                           IF i = 0 THEN e ELSE Threaded(g[i - 1], i)]
<1>1. /\ m \in Nat \ {0} /\ n < m
      /\ e \in S /\ e.blanks = n + 1
      /\ LinkedOn(e, m, n + 1 .. m)
      /\ \A j \in 1 .. n : e.tab[j].name = t.tab[j].name
                           /\ e.tab[j].item = t.tab[j].item
      /\ \A j \in n + 1 .. m : e.tab[j].item = NoItem
  BY EmptiedLinks
<1>2. Len(t.tab) = n
  BY TableHas
<1>3. Grown(t) = (CHOOSE g : At(g))[Len(t.tab)]
  BY DEF Grown, Emptied
<1> HIDE DEF m, e
<1>4. \E g : At(g)
  <2> DEFINE step == [i \in 1 .. n |-> [u \in S |-> Threaded(u, i)]]
  <2>1. \A i \in 1 .. n : \A u \in S : Threaded(u, i) \in S
    <3> TAKE i \in 1 .. n
    <3> TAKE u \in S
    <3>1. i \in 1 .. m
      BY <1>1
    <3> QED
      BY <1>1, <3>1, ThreadedIs
  <2>2. step \in [1 .. n -> [S -> S]] /\ n \in Nat
    <3> HIDE DEF S
    <3> QED
      BY <2>1
  <2> HIDE DEF step, S
  <2>3. PICK g : Steps(n, S, e, step, g)
    BY <1>1, <2>2, StepsExist DEF CanStep
  <2>4. g \in [0 .. n -> S] /\ g[0] = e /\ \A i \in 1 .. n : g[i] = step[i][g[i - 1]]
    BY <2>3 DEF Steps
  <2>5. \A i \in 1 .. n : g[i] = Threaded(g[i - 1], i)
    <3> TAKE i \in 1 .. n
    <3>1. g[i - 1] \in S /\ g[i] = step[i][g[i - 1]]
      BY <2>4
    <3> QED
      BY <3>1 DEF step
  <2>6. \A i \in 0 .. n : g[i] = IF i = 0 THEN e ELSE Threaded(g[i - 1], i)
    BY <2>4, <2>5
  <2>7. g = [i \in 0 .. n |-> g[i]]
    BY <2>4
  <2>8. g = [i \in 0 .. n |-> IF i = 0 THEN e ELSE Threaded(g[i - 1], i)]
    BY <2>6, <2>7, Zenon
  <2>9. At(g)
    BY <1>2, <2>8
  <2> QED
    BY <2>9
<1> DEFINE b == CHOOSE c : At(c)
<1>5. At(b)
  <2> HIDE DEF At
  <2> QED
    BY <1>4
<1> HIDE DEF b
<1>6. b[0] = e /\ \A i \in 1 .. n : b[i] = Threaded(b[i - 1], i)
  BY <1>2, <1>5
<1> HIDE DEF At
<1> DEFINE Good(u, i) ==
             /\ u \in S /\ u.blanks = n + 1
             /\ LinkedOn(u, m, (n + 1 .. m) \cup (1 .. i))
             /\ \A j \in 1 .. n : u.tab[j].name = t.tab[j].name
                                  /\ u.tab[j].item = t.tab[j].item
             /\ \A j \in n + 1 .. m : u.tab[j].item = NoItem
           P == {i \in 0 .. n : Good(b[i], i)}
<1>7. Good(e, 0)
  <2>1. (n + 1 .. m) \cup (1 .. 0) = n + 1 .. m
    OBVIOUS
  <2> QED
    BY <1>1, <2>1
<1>8. \A i \in 0 .. n - 1 : i \in P => i + 1 \in P
  <2> SUFFICES ASSUME NEW i \in 0 .. n - 1, Good(b[i], i) PROVE Good(b[i + 1], i + 1)
    <3>1. \A i \in 0 .. n - 1 : i + 1 \in 0 .. n
      OBVIOUS
    <3> HIDE DEF Good
    <3> QED
      BY <3>1
  <2> DEFINE u == b[i]
             k == i + 1
             D == (n + 1 .. m) \cup (1 .. i)
  <2>1. k \in 1 .. n /\ k \in 1 .. m /\ k \in (1 .. m) \ D /\ k - 1 = i
    BY <1>1
  <2>2. b[k] = Threaded(u, k)
    BY <1>6, <2>1
  <2>3. D \cup {k} = (n + 1 .. m) \cup (1 .. k)
    OBVIOUS
  <2>4. u.tab[k].item # NoItem
    <3>1. t.tab[k].item # NoItem
      BY <2>1, NoBlanks
    <3> QED
      BY <2>1, <3>1
  <2>5. u \in S /\ LinkedOn(u, m, D) /\ u.blanks = n + 1
    OBVIOUS
  <2>6. \A j \in 1 .. n : u.tab[j].name = t.tab[j].name
                          /\ u.tab[j].item = t.tab[j].item
    OBVIOUS
  <2>7. \A j \in n + 1 .. m : u.tab[j].item = NoItem
    OBVIOUS
  <2> DEFINE v == Threaded(u, k)
  <2> HIDE DEF u, k, D
  <2>8. /\ v \in S /\ v.blanks = u.blanks
        /\ \A j \in 1 .. m : v.tab[j].name = u.tab[j].name
                             /\ v.tab[j].item = u.tab[j].item
    <3>1. m \in Nat \ {0} /\ k \in 1 .. m /\ u \in TableOf(m, N, V)
      BY <1>1, <2>1, <2>5
    <3>2. /\ Threaded(u, k) \in TableOf(m, N, V)
          /\ Threaded(u, k).blanks = u.blanks
          /\ SameSlots(u, Threaded(u, k), m)
      BY ONLY HashOK, <3>1, ThreadedKeeps
    <3> QED
      BY <3>2 DEF SameSlots
  <2>9. LinkedOn(v, m, D \cup {k})
    BY <1>1, <2>1, <2>4, <2>5, ThreadedLinks
  <2> HIDE DEF v
  <2>10. \A j \in 1 .. n : v.tab[j].name = t.tab[j].name
                           /\ v.tab[j].item = t.tab[j].item
    BY <1>1, <2>6, <2>8
  <2>11. \A j \in n + 1 .. m : v.tab[j].item = NoItem
    BY <1>1, <2>7, <2>8
  <2>12. LinkedOn(v, m, (n + 1 .. m) \cup (1 .. k))
    BY <2>3, <2>9
  <2>13. Good(v, k)
    BY <2>5, <2>8, <2>10, <2>11, <2>12
  <2>14. b[i + 1] = v
    BY <2>2 DEF v, k
  <2> HIDE DEF Good
  <2> QED
    BY <2>13, <2>14 DEF k
<1>9. n \in P
  <2>1. 0 \in P
    <3>1. 0 \in 0 .. n
      OBVIOUS
    <3> HIDE DEF Good
    <3> QED
      BY <1>6, <1>7, <3>1
  <2>2. \A i \in 0 .. n : i \in P
    <3> HIDE DEF P
    <3> QED
      BY <1>8, <2>1, Induct
  <2> HIDE DEF P
  <2> QED
    BY <2>2
<1>10. Good(b[n], n) /\ Grown(t) = b[n]
  <2>1. Grown(t) = b[Len(t.tab)]
    BY <1>3 DEF b
  <2> HIDE DEF Good
  <2> QED
    BY <1>2, <1>9, <2>1
<1>11. (n + 1 .. m) \cup (1 .. n) = 1 .. m
  BY <1>1
<1> DEFINE u == b[n]
<1>12. /\ u \in S /\ u.blanks = n + 1
       /\ LinkedOn(u, m, (n + 1 .. m) \cup (1 .. n))
       /\ \A j \in 1 .. n : u.tab[j].name = t.tab[j].name
                            /\ u.tab[j].item = t.tab[j].item
       /\ \A j \in n + 1 .. m : u.tab[j].item = NoItem
  BY <1>10
<1> HIDE DEF u
<1>13. LinkedOn(u, m, 1 .. m)
  BY <1>11, <1>12
<1>14. Grown(t) = u
  BY <1>10 DEF u
<1> QED
  BY <1>1, <1>12, <1>13, <1>14 DEF m

\* What AddSlot() gives: a table of m slots with the name in a slot that was
\* blank or is new, and all else as it was
Adds(t, n, u, m, name, item) ==
  \E i \in 1 .. m :
    /\ u.tab[i].name = name /\ u.tab[i].item = item
    /\ i \in 1 .. n => t.tab[i].item = NoItem
    /\ \A j \in 1 .. n : j # i => u.tab[j].name = t.tab[j].name
                                  /\ u.tab[j].item = t.tab[j].item
    /\ \A j \in n + 1 .. m : j # i => u.tab[j].item = NoItem

\* AddSlot(), in a table that is full or not
LEMMA AddSlotLinks ==
  ASSUME HashOK, NEW n \in Nat \ {0}, NEW N, NEW V, NEW t \in TableOf(n, N, V),
         LinkedOn(t, n, 1 .. n), NoIdent \in N, NoItem \in V,
         NEW name \in N, NEW item \in V, item # NoItem
  PROVE  LET u == AddSlot(t, name, item) IN
         \E m \in Nat \ {0} :
           /\ n <= m /\ u \in TableOf(m, N, V) /\ LinkedOn(u, m, 1 .. m)
           /\ Adds(t, n, u, m, name, item)
<1> DEFINE room == IF t.blanks = 0 THEN Grown(t) ELSE t
           i == room.blanks
           v == Filled(room, i, name, item)
           u == Threaded(v, i)
<1>1. AddSlot(t, name, item) = u
  BY DEF AddSlot, Filled
<1>2. PICK m \in Nat \ {0} :
        /\ n <= m
        /\ room \in TableOf(m, N, V) /\ LinkedOn(room, m, 1 .. m) /\ room.blanks # 0
        /\ \A j \in 1 .. n : room.tab[j].name = t.tab[j].name
                             /\ room.tab[j].item = t.tab[j].item
        /\ \A j \in n + 1 .. m : room.tab[j].item = NoItem
  <2>1. CASE t.blanks = 0
    <3> DEFINE m == n * 2 + MALLOC_DELTA + 1
               g == Grown(t)
    <3>1. /\ m \in Nat \ {0} /\ n < m
          /\ g \in TableOf(m, N, V) /\ g.blanks = n + 1
          /\ LinkedOn(g, m, 1 .. m)
          /\ \A j \in 1 .. n : g.tab[j].name = t.tab[j].name
                               /\ g.tab[j].item = t.tab[j].item
          /\ \A j \in n + 1 .. m : g.tab[j].item = NoItem
      BY <2>1, GrownLinks
    <3>2. room = g
      BY <2>1
    <3> HIDE DEF m, g, room
    <3>3. n <= m /\ n + 1 # 0
      BY <3>1
    <3> QED
      BY <3>1, <3>2, <3>3
  <2>2. CASE t.blanks # 0
    <3>1. room = t
      BY <2>2
    <3>2. \A j \in n + 1 .. n : FALSE
      OBVIOUS
    <3> HIDE DEF room
    <3> QED
      BY <2>2, <3>1, <3>2
  <2> QED
    BY <2>1, <2>2
<1> HIDE DEF room
<1> DEFINE D == (1 .. m) \ {i}
<1>3. /\ i \in 1 .. m /\ room.tab[i].item = NoItem
      /\ v \in TableOf(m, N, V) /\ LinkedOn(v, m, D)
      /\ v.tab[i].name = name /\ v.tab[i].item = item
      /\ \A j \in 1 .. m : j # i => v.tab[j] = room.tab[j]
  <2> HIDE DEF i
  <2>1. i = room.blanks /\ i # 0 /\ item # NoItem
    BY <1>2 DEF i
  <2> DEFINE E == 1 .. m
  <2>3. LinkedOn(room, m, E) /\ D = E \ {i}
    BY <1>2
  <2> HIDE DEF E, D
  <2>4. m \in Nat \ {0} /\ room \in TableOf(m, N, V) /\ name \in N /\ item \in V
    BY <1>2
  <2>5. /\ Filled(room, i, name, item) \in TableOf(m, N, V)
        /\ LinkedOn(Filled(room, i, name, item), m, E \ {i})
        /\ TakesSlot(room, Filled(room, i, name, item), m, i, name, item)
    BY ONLY HashOK, <2>1, <2>3, <2>4, FilledLinks
  <2>2. /\ v \in TableOf(m, N, V) /\ LinkedOn(v, m, D)
        /\ TakesSlot(room, v, m, i, name, item)
    BY <2>3, <2>5
  <2> QED
    BY <1>2, <2>2 DEF TakesSlot
<1> HIDE DEF i, v
<1>4. i \in (1 .. m) \ D /\ D \cup {i} = 1 .. m
  BY <1>3
<1> HIDE DEF D
<1>5. /\ u \in TableOf(m, N, V)
      /\ \A j \in 1 .. m : u.tab[j].name = v.tab[j].name
                           /\ u.tab[j].item = v.tab[j].item
  BY <1>3, ThreadedKeeps DEF SameSlots
<1>6. LinkedOn(u, m, 1 .. m)
  <2>1. LinkedOn(u, m, D \cup {i})
    BY <1>3, <1>4, ThreadedLinks
  <2> HIDE DEF u
  <2> QED
    BY <1>4, <2>1
<1> HIDE DEF u
<1>7. u.tab[i].name = name /\ u.tab[i].item = item
  BY <1>3, <1>5
<1>8. \A j \in 1 .. n : j # i => u.tab[j].name = t.tab[j].name
                                 /\ u.tab[j].item = t.tab[j].item
  <2>1. \A j \in 1 .. n : j \in 1 .. m
    BY <1>2
  <2> QED
    BY <1>2, <1>3, <1>5, <2>1
<1>9. \A j \in n + 1 .. m : j # i => u.tab[j].item = NoItem
  <2>1. \A j \in n + 1 .. m : j \in 1 .. m
    OBVIOUS
  <2> QED
    BY <1>2, <1>3, <1>5, <2>1
<1>10. i \in 1 .. n => t.tab[i].item = NoItem
  BY <1>2, <1>3
<1>11. Adds(t, n, u, m, name, item)
  BY <1>3, <1>7, <1>8, <1>9, <1>10 DEF Adds
<1> QED
  BY <1>1, <1>2, <1>5, <1>6, <1>11

---------------------------------------------------------------------------
(* Threaded tables of any size *)

\* A table of whatever size with each slot on its thread
Linked(t, N, V) ==
  \E n \in Nat \ {0} : t \in TableOf(n, N, V) /\ LinkedOn(t, n, 1 .. n)
\* The slots that have an item, the pairs of name and item in them, and that no
\* name is there twice
Live(t) == {i \in DOMAIN t.tab : t.tab[i].item # NoItem}
Contents(t) == {<<t.tab[i].name, t.tab[i].item>> : i \in Live(t)}
Unique(t) == \A i, j \in Live(t) : t.tab[i].name = t.tab[j].name => i = j

\* A linked table is what TablesExact asks of one: each slot is on the thread that
\* the code looks for it on, and the threads come to an end.
LEMMA LinkedThreads ==
  ASSUME HashOK, NEW N, NEW V, NEW t, Linked(t, N, V)
  PROVE  Threads(t)
<1>1. PICK n \in Nat \ {0} : t \in TableOf(n, N, V) /\ LinkedOn(t, n, 1 .. n)
  BY DEF Linked
<1>2. /\ DOMAIN t.tab = 1 .. n /\ DOMAIN t.hashtab = 1 .. n
      /\ \A name : Bucket(t, name) = 1 + (Hash(name) % n)
      /\ \A name : 1 + (Hash(name) % n) \in 1 .. n
  BY <1>1, TableHas
<1> DEFINE thread(h) == Thread(t, Heads(t, n)[h])
<1>3. ASSUME NEW h \in 0 .. n
      PROVE  /\ DOMAIN thread(h) = 1 .. n + 1
             /\ \A i \in ToSet(thread(h)) \ {0} : i \in 1 .. n /\ Homes(t, n)[i] = h
             /\ \A i \in 1 .. n : Homes(t, n)[i] = h =>
                  Cardinality({k \in DOMAIN thread(h) : thread(h)[k] = i}) = 1
  <2> DEFINE a == thread(h)
  <2>1. /\ DOMAIN a = 1 .. n + 1
        /\ \A k \in 1 .. n + 1 :
             a[k] # 0 => a[k] \in 1 .. n /\ Homes(t, n)[a[k]] = h
        /\ \A k, p \in 1 .. n + 1 : a[k] # 0 /\ a[k] = a[p] => k = p
        /\ \A i \in 1 .. n : Homes(t, n)[i] = h => \E p \in 1 .. n : a[p] = i
    <3>1. IsThread(t, n, h, a)
      BY <1>1, ThreadOf
    <3> HIDE DEF a
    <3> QED
      BY <3>1 DEF IsThread
  <2> HIDE DEF a
  <2>2. \A i \in ToSet(a) \ {0} : i \in 1 .. n /\ Homes(t, n)[i] = h
    BY <2>1 DEF ToSet
  <2>3. ASSUME NEW i \in 1 .. n, Homes(t, n)[i] = h
        PROVE  Cardinality({k \in DOMAIN a : a[k] = i}) = 1
    <3>1. PICK p \in 1 .. n : a[p] = i
      BY <2>1, <2>3
    <3>2. {k \in DOMAIN a : a[k] = i} = {p}
      BY <2>1, <3>1
    <3> QED
      BY <3>2, FS_Singleton
  <2> QED
    BY <2>1, <2>2, <2>3 DEF a
<1> HIDE DEF thread
<1>4. \A h \in 1 .. n : t.hashtab[h] = Heads(t, n)[h]
  BY DEF Heads
<1>5. t.blanks = Heads(t, n)[0]
  BY DEF Heads
<1>6. \A i \in 1 .. n :
        Homes(t, n)[i] = IF t.tab[i].item = NoItem THEN 0
                         ELSE Bucket(t, t.tab[i].name)
  BY <1>2 DEF Homes
<1>7. \A name : Bucket(t, name) \in 1 .. n
  BY <1>2
<1>8. \A b \in DOMAIN t.hashtab : \A i \in ToSet(Thread(t, t.hashtab[b])) \ {0} :
        t.tab[i].item # NoItem /\ Bucket(t, t.tab[i].name) = b
  <2> TAKE b \in DOMAIN t.hashtab
  <2>1. b \in 1 .. n /\ b \in 0 .. n /\ Thread(t, t.hashtab[b]) = thread(b)
    BY <1>2, <1>4 DEF thread
  <2> QED
    BY <1>3, <1>6, <2>1
<1>9. \A i \in ToSet(Thread(t, t.blanks)) \ {0} : t.tab[i].item = NoItem
  <2>1. 0 \in 0 .. n /\ Thread(t, t.blanks) = thread(0)
    BY <1>5 DEF thread
  <2> QED
    BY <1>3, <1>6, <1>7, <2>1
<1>10. \A i \in DOMAIN t.tab :
         LET first == IF t.tab[i].item = NoItem THEN t.blanks
                      ELSE t.hashtab[Bucket(t, t.tab[i].name)]
         IN  Cardinality({k \in DOMAIN Thread(t, first) : Thread(t, first)[k] = i}) = 1
  <2> TAKE i \in DOMAIN t.tab
  <2> DEFINE first == IF t.tab[i].item = NoItem THEN t.blanks
                      ELSE t.hashtab[Bucket(t, t.tab[i].name)]
             h == Homes(t, n)[i]
  <2>1. i \in 1 .. n /\ h \in 0 .. n
    BY <1>2, <1>6, <1>7
  <2>2. first = Heads(t, n)[h]
    BY <1>4, <1>5, <1>6, <1>7, <2>1
  <2>3. Thread(t, first) = thread(h)
    BY <2>2 DEF thread
  <2> HIDE DEF first, h
  <2>4. Cardinality({k \in DOMAIN thread(h) : thread(h)[k] = i}) = 1
    BY <1>3, <2>1 DEF h
  <2> QED
    BY <2>3, <2>4 DEF first
<1> QED
  BY <1>8, <1>9, <1>10 DEF Threads

\* AddSlot() adds one pair of name and item, and the table stays linked.
LEMMA AddSlotKeeps ==
  ASSUME HashOK, NEW N, NEW V, NEW t, Linked(t, N, V), NoIdent \in N, NoItem \in V,
         NEW name \in N, NEW item \in V, item # NoItem
  PROVE  /\ Linked(AddSlot(t, name, item), N, V)
         /\ Contents(AddSlot(t, name, item)) = Contents(t) \cup {<<name, item>>}
         /\ Unique(t) /\ (\A c \in Contents(t) : c[1] # name) =>
              Unique(AddSlot(t, name, item))
<1>1. PICK n \in Nat \ {0} : t \in TableOf(n, N, V) /\ LinkedOn(t, n, 1 .. n)
  BY DEF Linked
<1> DEFINE u == AddSlot(t, name, item)
<1>2. PICK m \in Nat \ {0} :
        /\ n <= m /\ u \in TableOf(m, N, V) /\ LinkedOn(u, m, 1 .. m)
        /\ Adds(t, n, u, m, name, item)
  <2>1. item # NoItem
    OBVIOUS
  <2>2. \E m \in Nat \ {0} :
        /\ n <= m /\ u \in TableOf(m, N, V) /\ LinkedOn(u, m, 1 .. m)
        /\ Adds(t, n, u, m, name, item)
    BY <1>1, <2>1, AddSlotLinks
  <2> QED
    BY <2>2
<1>3. DOMAIN t.tab = 1 .. n /\ DOMAIN u.tab = 1 .. m
  BY <1>1, <1>2, TableHas
<1> HIDE DEF u
<1>4. PICK i \in 1 .. m :
        /\ u.tab[i].name = name /\ u.tab[i].item = item
        /\ i \in 1 .. n => t.tab[i].item = NoItem
        /\ \A j \in 1 .. n : j # i => u.tab[j].name = t.tab[j].name
                                      /\ u.tab[j].item = t.tab[j].item
        /\ \A j \in n + 1 .. m : j # i => u.tab[j].item = NoItem
  BY <1>2 DEF Adds
<1>5. Live(u) = Live(t) \cup {i} /\ i \notin Live(t)
  <2>1. \A j \in 1 .. m : j \in 1 .. n \/ j \in n + 1 .. m
    BY <1>2
  <2>2. \A j \in 1 .. n : j \in 1 .. m
    BY <1>2
  <2>3. i \notin Live(t) /\ i \in Live(u)
    BY <1>3, <1>4 DEF Live
  <2>4. \A j : j # i => (j \in Live(u) <=> j \in Live(t))
    BY <1>3, <1>4, <2>1, <2>2 DEF Live
  <2> QED
    BY <2>3, <2>4
<1>6. \A j \in Live(t) : u.tab[j].name = t.tab[j].name /\ u.tab[j].item = t.tab[j].item
  BY <1>3, <1>4, <1>5 DEF Live
<1>7. Contents(u) = Contents(t) \cup {<<name, item>>}
  BY <1>4, <1>5, <1>6 DEF Contents
<1>8. ASSUME Unique(t), \A c \in Contents(t) : c[1] # name
      PROVE  Unique(u)
  <2>1. \A j \in Live(t) : u.tab[j].name # name
    <3> TAKE j \in Live(t)
    <3>1. <<t.tab[j].name, t.tab[j].item>> \in Contents(t)
      BY DEF Contents
    <3> QED
      BY <1>6, <1>8, <3>1
  <2> QED
    BY <1>4, <1>5, <1>6, <1>8, <2>1 DEF Unique
<1>9. Linked(u, N, V)
  BY <1>2 DEF Linked
<1> QED
  BY <1>7, <1>8, <1>9 DEF u

\* FreeSlot() takes the pair of that name away, and the table stays linked.
LEMMA FreeSlotKeeps ==
  ASSUME HashOK, NEW N, NEW V, NEW t, Linked(t, N, V), NoIdent \in N, NoItem \in V,
         NEW name, Find(t, name) # 0, Unique(t)
  PROVE  LET u == FreeSlot(t, name)
             c == <<name, t.tab[Find(t, name)].item>>
         IN
         /\ Linked(u, N, V) /\ Unique(u)
         /\ c \in Contents(t) /\ Contents(u) = Contents(t) \ {c}
         /\ \A d \in Contents(u) : d[1] # name
<1>1. PICK n \in Nat \ {0} : t \in TableOf(n, N, V) /\ LinkedOn(t, n, 1 .. n)
  BY DEF Linked
<1> DEFINE u == FreeSlot(t, name)
           i == Find(t, name)
           c == <<name, t.tab[i].item>>
<1>2. /\ i \in 1 .. n /\ t.tab[i].item # NoItem /\ t.tab[i].name = name
      /\ u \in TableOf(n, N, V) /\ LinkedOn(u, n, 1 .. n)
      /\ u.tab[i].item = NoItem
      /\ \A j \in 1 .. n : j # i => u.tab[j].name = t.tab[j].name
                                    /\ u.tab[j].item = t.tab[j].item
  BY <1>1, FreeSlotLinks
<1>3. DOMAIN t.tab = 1 .. n /\ DOMAIN u.tab = 1 .. n
  BY <1>1, <1>2, TableHas
<1> HIDE DEF u, i
<1>4. i \in Live(t) /\ Live(u) = Live(t) \ {i}
  <2>1. i \in Live(t) /\ i \notin Live(u)
    BY <1>2, <1>3 DEF Live
  <2>2. \A j : j # i => (j \in Live(u) <=> j \in Live(t))
    BY <1>2, <1>3 DEF Live
  <2> QED
    BY <2>1, <2>2
<1>5. \A j \in Live(u) : /\ u.tab[j].name = t.tab[j].name
                         /\ u.tab[j].item = t.tab[j].item
                         /\ u.tab[j].name # name
  <2> TAKE j \in Live(u)
  <2>1. j \in 1 .. n /\ j # i /\ j \in Live(t)
    BY <1>3, <1>4 DEF Live
  <2> QED
    BY <1>2, <1>4, <2>1 DEF Unique
<1>6. Unique(u)
  BY <1>4, <1>5 DEF Unique
<1>7. c \in Contents(t)
  BY <1>2, <1>4 DEF Contents
<1>8. \A d \in Contents(u) : d[1] # name
  BY <1>5 DEF Contents
<1>9. Contents(u) = Contents(t) \ {c}
  <2>1. \A d \in Contents(u) : d \in Contents(t) \ {c}
    <3> TAKE d \in Contents(u)
    <3>1. PICK j \in Live(u) : d = <<u.tab[j].name, u.tab[j].item>>
      BY DEF Contents
    <3>2. d = <<t.tab[j].name, t.tab[j].item>> /\ j \in Live(t)
      BY <1>4, <1>5, <3>1
    <3>3. d[1] # name
      BY <1>8
    <3> QED
      BY <3>2, <3>3 DEF Contents
  <2>2. \A d \in Contents(t) \ {c} : d \in Contents(u)
    <3> TAKE d \in Contents(t) \ {c}
    <3>1. PICK j \in Live(t) : d = <<t.tab[j].name, t.tab[j].item>>
      BY DEF Contents
    <3>2. j # i
      BY <1>2, <3>1
    <3>3. j \in Live(u)
      BY <1>4, <3>2
    <3> QED
      BY <1>5, <3>1, <3>3 DEF Contents
  <2> QED
    BY <2>1, <2>2
<1>10. Linked(u, N, V)
  BY <1>2 DEF Linked
<1> QED
  BY <1>6, <1>7, <1>8, <1>9, <1>10 DEF u, i

\* Find() in terms of the contents
LEMMA FindInContents ==
  ASSUME HashOK, NEW N, NEW V, NEW t, Linked(t, N, V), NEW name
  PROVE  LET f == Find(t, name) IN
         \/ f = 0 /\ \A c \in Contents(t) : c[1] # name
         \/ /\ f # 0 /\ f \in Live(t) /\ t.tab[f].name = name
            /\ <<name, t.tab[f].item>> \in Contents(t)
<1>1. PICK n \in Nat \ {0} : t \in TableOf(n, N, V) /\ LinkedOn(t, n, 1 .. n)
  BY DEF Linked
<1>2. DOMAIN t.tab = 1 .. n
  BY <1>1, TableHas
<1> DEFINE f == Find(t, name)
<1>3. \/ /\ f = 0
         /\ \A i \in 1 .. n : t.tab[i].item # NoItem => t.tab[i].name # name
      \/ f \in 1 .. n /\ t.tab[f].item # NoItem /\ t.tab[f].name = name
  BY <1>1, FindFinds
<1> HIDE DEF f
<1> QED
  BY <1>2, <1>3 DEF Live, Contents, f

\* A new table is linked and has nothing in it.
LEMMA NewTableIs ==
  ASSUME HashOK, NEW N, NEW V, NoIdent \in N, NoItem \in V
  PROVE  Linked(NewTable, N, V) /\ Contents(NewTable) = {} /\ Unique(NewTable)
<1> DEFINE n == STARTING_SIZE
           t == NewTable
<1>1. /\ n \in Nat \ {0}
      /\ t \in TableOf(n, {NoIdent}, {NoItem})
      /\ LinkedOn(t, n, 1 .. n)
      /\ \A i \in 1 .. n : t.tab[i].item = NoItem
  BY NewTableLinks
<1>2. DOMAIN t.tab = 1 .. n
  BY <1>1, TableHas
<1> HIDE DEF t, n
<1>3. t \in TableOf(n, N, V)
  <2>1. SlotOf(n, {NoIdent}, {NoItem}) \subseteq SlotOf(n, N, V)
    BY DEF SlotOf
  <2> QED
    BY <1>1, <2>1 DEF TableOf
<1>4. Live(t) = {}
  BY <1>1, <1>2 DEF Live
<1> QED
  BY <1>1, <1>3, <1>4 DEF Linked, Contents, Unique, t

\* A live slot gets another item.
Reset(t, i, item) == [t EXCEPT !.tab[i].item = item]

\* A slot that has an item can be given another one.
LEMMA ResetKeeps ==
  ASSUME HashOK, NEW N, NEW V, NEW t, Linked(t, N, V), NEW i \in Live(t),
         NEW item, item # NoItem
  PROVE  Linked(Reset(t, i, item), N, V \cup {item})
<1>1. PICK n \in Nat \ {0} : t \in TableOf(n, N, V) /\ LinkedOn(t, n, 1 .. n)
  BY DEF Linked
<1> DEFINE W == V \cup {item}
           s == [t.tab[i] EXCEPT !.item = item]
           tab2 == [t.tab EXCEPT ![i] = s]
           u == Reset(t, i, item)
<1>2. i \in 1 .. n /\ t.tab[i].item # NoItem
  BY <1>1, TableHas DEF Live
<1>3. /\ t.tab \in [1 .. n -> SlotOf(n, N, V)] /\ t.hashtab \in [1 .. n -> 0 .. n]
      /\ DOMAIN t = {"blanks", "hashtab", "tab"} /\ t.blanks \in 0 .. n
  BY <1>1 DEF TableOf
<1>4. SlotOf(n, N, V) \subseteq SlotOf(n, N, W)
  BY DEF SlotOf
<1>5. s \in SlotOf(n, N, W) /\ s.next = t.tab[i].next /\ s.name = t.tab[i].name
      /\ s.item = item
  BY <1>2, <1>3 DEF SlotOf
<1>6. u = [t EXCEPT !.tab = tab2]
  BY DEF Reset
<1> HIDE DEF s, u, W
<1>7. /\ tab2 \in [1 .. n -> SlotOf(n, N, W)] /\ tab2[i] = s
      /\ \A j \in 1 .. n : j # i => tab2[j] = t.tab[j]
  BY <1>2, <1>3, <1>4, <1>5
<1> HIDE DEF tab2
<1>8. u \in TableOf(n, N, W) /\ u.blanks = t.blanks /\ u.hashtab = t.hashtab
      /\ u.tab = tab2
  BY <1>3, <1>6, <1>7 DEF TableOf
<1>9. Heads(u, n) = Heads(t, n)
  BY <1>8 DEF Heads
<1>10. Nexts(u, n) = Nexts(t, n)
  <2>1. \A j \in 1 .. n : u.tab[j].next = t.tab[j].next
    BY <1>5, <1>7, <1>8
  <2> QED
    BY <2>1 DEF Nexts
<1>11. Homes(u, n) = Homes(t, n)
  <2>1. \A j \in 1 .. n : u.tab[j].name = t.tab[j].name
                          /\ (u.tab[j].item = NoItem <=> t.tab[j].item = NoItem)
    BY <1>2, <1>5, <1>7, <1>8
  <2>2. \A j \in 1 .. n : Homes(u, n)[j] = Homes(t, n)[j]
    BY <2>1 DEF Homes
  <2> QED
    BY <2>2 DEF Homes
<1> QED
  BY <1>1, <1>8, <1>9, <1>10, <1>11 DEF Linked, LinkedOn, u, W

\* A variable is an item.
LEMMA VarIsItem == \A val : Var(val) # NoItem
<1> SUFFICES ASSUME NEW val PROVE Var(val) # NoItem
  OBVIOUS
<1>1. Var(val).kind = "var" /\ NoItem.kind = "none"
  BY DEF Var, NoItem
<1> QED
  BY <1>1

\* A table that is linked, whatever its names and items are
TableLinked(t) == \E N, V : NoIdent \in N /\ NoItem \in V /\ Linked(t, N, V)

\* object_assign_var()
LEMMA AssignVarKeeps ==
  ASSUME HashOK, NEW o, TableLinked(o.vars), NEW name, HasVar(o, name), NEW val
  PROVE  LET p == AssignVar(o, name, val) IN
         TableLinked(p.vars) /\ p = [o EXCEPT !.vars = p.vars]
<1> DEFINE i == Find(o.vars, name)
           t == Reset(o.vars, i, Var(val))
           p == AssignVar(o, name, val)
<1>1. PICK N, V : NoIdent \in N /\ NoItem \in V /\ Linked(o.vars, N, V)
  BY DEF TableLinked
<1>2. i \in Live(o.vars)
  <2>1. i # 0
    BY DEF HasVar
  <2> QED
    BY <1>1, <2>1, FindInContents
<1> HIDE DEF i
<1>3. Linked(t, N, V \cup {Var(val)})
  BY <1>1, <1>2, ResetKeeps, VarIsItem
<1>4. p = [o EXCEPT !.vars = t]
  BY DEF AssignVar, Reset, i
<1> HIDE DEF p, t
<1>5. TableLinked(t)
  BY <1>1, <1>3 DEF TableLinked
<1>6. p = o \/ p.vars = t
  BY <1>4
<1> QED
  BY <1>4, <1>5, <1>6 DEF p

---------------------------------------------------------------------------
(* The object that the programs start with                                 *)

\* Objects whose variables, named in N, have the values that they start with
Fresh == {NoItem, Var(Zero)}
VarTables(N) ==
  {t \in UNION {TableOf(n, N, Fresh) : n \in Nat \ {0}} : Linked(t, N, Fresh)}
Blanks(N) == {[NewObject EXCEPT !.vars = t] : t \in VarTables(N)}

\* What the tables of an object with fresh variables are
LEMMA InVarTables ==
  ASSUME NEW N, NEW t
  PROVE  t \in VarTables(N) <=> Linked(t, N, Fresh)
  BY DEF VarTables, Linked

\* object_add_param() on an object with fresh variables
LEMMA AddParamKeeps ==
  ASSUME HashOK, NEW N, NoIdent \in N, NEW o \in Blanks(N), NEW name \in N
  PROVE  AddParam(o, name) \in Blanks(N)
<1>1. PICK t \in VarTables(N) : o = [NewObject EXCEPT !.vars = t]
  BY DEF Blanks
<1>2. Linked(t, N, Fresh) /\ o.vars = t
  BY <1>1, InVarTables DEF NewObject
<1>3. CASE HasVar(o, name)
  BY <1>3 DEF AddParam
<1>4. CASE ~HasVar(o, name)
  <2> DEFINE u == AddSlot(t, name, Var(Zero))
  <2>1. Linked(u, N, Fresh)
    BY <1>2, AddSlotKeeps, VarIsItem DEF Fresh
  <2>2. AddParam(o, name) = [o EXCEPT !.vars = u]
    BY <1>2, <1>4 DEF AddParam
  <2> HIDE DEF u
  <2>3. AddParam(o, name) = [NewObject EXCEPT !.vars = u]
    BY <1>1, <2>2
  <2> QED
    BY <2>1, <2>3, InVarTables DEF Blanks
<1> QED
  BY <1>3, <1>4

\* object_add_param(), for each parameter in turn
LEMMA AddParamsKeeps ==
  ASSUME HashOK, NEW N, NoIdent \in N, NEW o \in Blanks(N), NEW names,
         Len(names) \in Nat, \A k \in 1 .. Len(names) : names[k] \in N
  PROVE  AddParams(o, names) \in Blanks(N)
<1> DEFINE n == Len(names)
           S == Blanks(N)
           At(g) == g = [k \in 0 .. Len(names) |->
                           IF k = 0 THEN o ELSE AddParam(g[k - 1], names[k])]
           step == [k \in 1 .. n |-> [p \in S |-> AddParam(p, names[k])]]
<1>1. AddParams(o, names) = (CHOOSE g : At(g))[Len(names)]
  BY DEF AddParams
<1>2. n \in Nat /\ o \in S /\ step \in [1 .. n -> [S -> S]]
  <2>1. \A k \in 1 .. n : \A p \in S : AddParam(p, names[k]) \in S
    BY AddParamKeeps
  <2>2. n \in Nat /\ o \in S
    OBVIOUS
  <2> HIDE DEF S
  <2>3. step \in [1 .. n -> [S -> S]]
    BY <2>1
  <2> QED
    BY <2>2, <2>3
<1> HIDE DEF S, step
<1>3. PICK g : Steps(n, S, o, step, g)
  <2> HIDE DEF n
  <2> QED
    BY <1>2, StepsExist DEF CanStep
<1>4. g \in [0 .. n -> S] /\ g[0] = o /\ \A k \in 1 .. n : g[k] = step[k][g[k - 1]]
  BY <1>3 DEF Steps
<1>5. At(g)
  <2>1. \A k \in 1 .. n : g[k] = AddParam(g[k - 1], names[k])
    <3> TAKE k \in 1 .. n
    <3>1. g[k - 1] \in S /\ g[k] = step[k][g[k - 1]]
      BY <1>2, <1>4
    <3> QED
      BY <3>1 DEF step
  <2>2. \A k \in 0 .. n : g[k] = IF k = 0 THEN o ELSE AddParam(g[k - 1], names[k])
    BY <1>2, <1>4, <2>1
  <2>3. g = [k \in 0 .. n |-> g[k]]
    BY <1>4
  <2> QED
    BY <2>2, <2>3, Zenon
<1> DEFINE b == CHOOSE c : At(c)
<1>6. At(b)
  <2> HIDE DEF At
  <2> QED
    BY <1>5
<1> HIDE DEF b
<1>7. b[0] = o /\ \A k \in 1 .. n : b[k] = AddParam(b[k - 1], names[k])
  BY <1>2, <1>6
<1> DEFINE P == {k \in 0 .. n : b[k] \in S}
<1>8. \A k \in 0 .. n - 1 : k \in P => k + 1 \in P
  <2> SUFFICES ASSUME NEW k \in 0 .. n - 1, k \in P PROVE k + 1 \in P
    OBVIOUS
  <2>1. k + 1 \in 1 .. n /\ k + 1 \in 0 .. n /\ k + 1 - 1 = k
    BY <1>2
  <2>2. b[k + 1] = AddParam(b[k], names[k + 1])
    BY <1>7, <2>1
  <2>3. b[k] \in S /\ names[k + 1] \in N
    BY <2>1
  <2>4. b[k + 1] \in S
    BY <2>2, <2>3, AddParamKeeps DEF S
  <2> QED
    BY <2>1, <2>4
<1>9. n \in P
  <2>1. 0 \in P
    BY <1>2, <1>7
  <2> HIDE DEF P, n
  <2>2. \A k \in 0 .. n : k \in P
    BY <1>2, <1>8, <2>1, Induct
  <2> QED
    BY <1>2, <2>2
<1>10. AddParams(o, names) = b[n]
  BY <1>1 DEF b
<1> QED
  BY <1>9, <1>10 DEF S

\* The object that Program begins with
LEMMA FirstObject ==
  ASSUME HashOK
  PROVE  LET o == AddParams(NewObject, PARAMS) IN
         \E N, t : /\ NoIdent \in N /\ Linked(t, N, Fresh)
                   /\ o = [NewObject EXCEPT !.vars = t]
<1> DEFINE N == {PARAMS[k] : k \in 1 .. Len(PARAMS)} \cup {NoIdent}
<1>1. Len(PARAMS) \in Nat
  BY ParamsAssumption DEF IsSequence
<1>2. NewObject \in Blanks(N)
  <2>1. Linked(NewTable, N, Fresh)
    BY NewTableIs DEF Fresh
  <2>2. NewObject = [NewObject EXCEPT !.vars = NewTable]
    BY DEF NewObject
  <2> HIDE DEF N
  <2> QED
    BY <2>1, <2>2, InVarTables DEF Blanks
<1>3. AddParams(NewObject, PARAMS) \in Blanks(N)
  <2>1. \A k \in 1 .. Len(PARAMS) : PARAMS[k] \in N
    OBVIOUS
  <2>2. NoIdent \in N
    OBVIOUS
  <2> HIDE DEF N
  <2> QED
    BY <1>1, <1>2, <2>1, <2>2, AddParamsKeeps
<1>4. NoIdent \in N
  OBVIOUS
<1> HIDE DEF N
<1> QED
  BY <1>3, <1>4, InVarTables DEF Blanks

---------------------------------------------------------------------------
(* Tables of counted entries with items in I *)

Entries(I) == Seq([item : I, refs : Nat])
\* The count at a place, zero after the end
RefsAt(t, i) == IF i \in 1 .. Len(t) THEN t[i].refs ELSE 0
\* The entries in use that have this item
Same(t, x) == {i \in 1 .. Len(t) : t[i].refs > 0 /\ t[i].item = x}

\* A set of places in a table has a maximum.
LEMMA MaxOf ==
  ASSUME NEW n \in Nat, NEW B \in SUBSET (1 .. n), B # {}
  PROVE  Max(B) \in B
<1> DEFINE C == {n - k : k \in B}
<1>1. C \in SUBSET Nat /\ C # {}
  <2>1. \A k \in B : n - k \in Nat
    OBVIOUS
  <2> QED
    BY <2>1
<1>2. PICK m \in C : \A k \in C : m <= k
  <2> HIDE DEF C
  <2> QED
    BY <1>1, LeastOf
<1>3. PICK b \in B : m = n - b
  BY <1>2
<1>4. \A k \in B : k <= b
  BY <1>2, <1>3
<1> QED
  BY <1>4 DEF Max

\* Where a string or an identifier goes: to the first entry in use that has it,
\* else to one that is not in use, else after the last.
LEMMA IndexForIs ==
  ASSUME NEW I, NEW t \in Entries(I), NEW x
  PROVE  /\ IndexFor(t, x) \in 1 .. Len(t) + 1
         /\ Same(t, x) # {} => /\ IndexFor(t, x) = Min(Same(t, x))
                               /\ IndexFor(t, x) \in Same(t, x)
         /\ Same(t, x) = {} /\ IndexFor(t, x) \in 1 .. Len(t) =>
              t[IndexFor(t, x)].refs = 0
<1> DEFINE n == Len(t)
           S == Same(t, x)
           Z == {i \in 1 .. Len(t) : t[i].refs = 0}
           j == IndexFor(t, x)
           same == SelectInSeq(t, LAMBDA e : e.refs > 0 /\ e.item = x)
           blank == SelectLastInSeq(t, LAMBDA e : e.refs = 0)
<1>1. n \in Nat
  BY DEF Entries
<1>2. same = IF S # {} THEN Min(S) ELSE 0
  BY DEF SelectInSeq, Same
<1>3. blank = IF Z # {} THEN Max(Z) ELSE 0
  BY DEF SelectLastInSeq
<1>4. j = IF same # 0 THEN same ELSE IF blank # 0 THEN blank ELSE n + 1
  BY DEF IndexFor
<1>5. S \in SUBSET (1 .. n) /\ Z \in SUBSET (1 .. n)
      /\ \A i \in Z : i \in 1 .. n /\ t[i].refs = 0
  BY DEF Same
<1> HIDE DEF S, Z, j, same, blank
<1>6. S # {} => Min(S) \in S
  <2>1. S \in SUBSET Nat
    BY <1>1, <1>5
  <2> QED
    BY <2>1, MinOf
<1>7. Z # {} => Max(Z) \in Z
  <2> HIDE DEF n
  <2> QED
    BY <1>1, <1>5, MaxOf
<1>8. S # {} => j = Min(S) /\ j \in S
  BY <1>2, <1>4, <1>5, <1>6
<1>9. S = {} => j \in Z \/ j = n + 1
  BY <1>2, <1>3, <1>4, <1>5, <1>7
<1>10. j \in 1 .. n + 1
  <2>1. \A i \in 1 .. n : i \in 1 .. n + 1
    BY <1>1
  <2>2. n + 1 \in 1 .. n + 1
    BY <1>1
  <2>3. CASE S # {}
    BY <1>5, <1>8, <2>1, <2>3
  <2>4. CASE S = {}
    BY <1>5, <1>9, <2>1, <2>2, <2>4
  <2> HIDE DEF n
  <2> QED
    BY <2>3, <2>4
<1>11. S = {} /\ j \in 1 .. n => t[j].refs = 0
  BY <1>1, <1>5, <1>9
<1> QED
  BY <1>8, <1>10, <1>11 DEF S, j

\* What object_add_string() and object_add_ident() do
AddsAt(t, u, x, j) ==
  /\ Len(t) <= Len(u) /\ j \in 1 .. Len(u)
  /\ \A i : RefsAt(u, i) = RefsAt(t, i) + IF i = j THEN 1 ELSE 0
  /\ Same(u, x) # {} /\ IndexFor(u, x) = j
  /\ \A y : Same(t, y) # {} =>
              Same(u, y) # {} /\ IndexFor(u, y) = IndexFor(t, y)

\* object_add_string() and object_add_ident() count one more use, of that entry.
LEMMA AddedIs ==
  ASSUME NEW I, NEW t \in Entries(I), NEW x \in I
  PROVE  /\ Added(t, x) \in Entries(I)
         /\ AddsAt(t, Added(t, x), x, IndexFor(t, x))
<1> DEFINE n == Len(t)
           E == [item : I, refs : Nat]
           j == IndexFor(t, x)
           u == Added(t, x)
<1>1. n \in Nat /\ t \in Seq(E) /\ DOMAIN t = 1 .. n
      /\ \A i \in 1 .. n : t[i] \in E /\ t[i].refs \in Nat
  <2>1. t \in Seq(E)
    BY DEF Entries
  <2> HIDE DEF E
  <2>2. n \in Nat /\ t \in [1 .. n -> E]
    BY <2>1, LenProperties
  <2>3. \A e \in E : e.refs \in Nat
    BY DEF E
  <2> QED
    BY <2>1, <2>2, <2>3
<1>2. /\ j \in 1 .. n + 1
      /\ Same(t, x) # {} => j = Min(Same(t, x)) /\ j \in Same(t, x)
      /\ Same(t, x) = {} /\ j \in 1 .. n => t[j].refs = 0
  BY IndexForIs
<1> DEFINE e == IF j \in 1 .. n /\ t[j].refs > 0
                THEN [t[j] EXCEPT !.refs = @ + 1] ELSE Entry(x)
<1>3. e \in E /\ e.item = x /\ e.refs = RefsAt(t, j) + 1
  <2>1. CASE j \in 1 .. n /\ t[j].refs > 0
    <3>1. j \in Same(t, x)
      BY <1>2, <2>1
    <3>2. t[j].item = x
      BY <3>1 DEF Same
    <3> QED
      BY <1>1, <2>1, <3>2 DEF RefsAt
  <2>2. CASE ~(j \in 1 .. n /\ t[j].refs > 0)
    <3>1. RefsAt(t, j) = 0
      BY <1>1, <2>2 DEF RefsAt
    <3> QED
      BY <2>2, <3>1 DEF Entry
  <2> QED
    BY <2>1, <2>2
<1>4. u = IF j > n THEN Append(t, e) ELSE [t EXCEPT ![j] = e]
  <2>1. u = IF j > n THEN Append(t, Entry(x))
            ELSE IF t[j].refs > 0 THEN [t EXCEPT ![j] = [t[j] EXCEPT !.refs = @ + 1]]
            ELSE [t EXCEPT ![j] = Entry(x)]
    BY DEF Added
  <2>2. j > n \/ j \in 1 .. n
    BY <1>1, <1>2
  <2> HIDE DEF u, j
  <2>3. CASE j > n
    <3>1. j \notin 1 .. n
      BY <1>1, <1>2, <2>3
    <3> QED
      BY <2>1, <2>3, <3>1
  <2>4. CASE j \in 1 .. n
    <3>1. ~(j > n)
      BY <1>1, <2>4
    <3> QED
      BY <2>1, <2>4, <3>1
  <2> QED
    BY <2>2, <2>3, <2>4
<1> HIDE DEF e, u, j
<1>5. /\ u \in Seq(E) /\ n <= Len(u) /\ j \in 1 .. Len(u) /\ u[j] = e
      /\ \A i \in 1 .. n : i # j => u[i] = t[i]
      /\ \A i \in 1 .. Len(u) : i # j => i \in 1 .. n
  <2> HIDE DEF E
  <2>1. CASE j > n
    <3>1. j = n + 1
      BY <1>1, <1>2, <2>1
    <3>2. u = Append(t, e)
      BY <1>4, <2>1
    <3> QED
      BY <1>1, <1>3, <3>1, <3>2, AppendProperties
  <2>2. CASE ~(j > n)
    <3>1. j \in 1 .. n /\ u = [t EXCEPT ![j] = e]
      BY <1>1, <1>2, <1>4, <2>2
    <3> QED
      BY <1>1, <1>3, <3>1, ExceptSeq
  <2> QED
    BY <2>1, <2>2
<1>6. Len(u) \in Nat
  BY <1>5
<1>7. \A i : RefsAt(u, i) = RefsAt(t, i) + IF i = j THEN 1 ELSE 0
  <2> TAKE i
  <2>1. CASE i = j
    BY <1>3, <1>5, <2>1 DEF RefsAt
  <2>2. CASE i # j
    <3>1. i \in 1 .. Len(u) <=> i \in 1 .. n
      BY <1>1, <1>5, <1>6, <2>2
    <3>2. RefsAt(t, i) \in Nat
      BY <1>1 DEF RefsAt
    <3> QED
      BY <1>5, <2>2, <3>1, <3>2 DEF RefsAt
  <2> QED
    BY <2>1, <2>2
<1>8. u[j].item = x /\ u[j].refs > 0
  <2>1. RefsAt(t, j) \in Nat
    BY <1>1 DEF RefsAt
  <2> QED
    BY <1>3, <1>5, <2>1
<1>9. j \in Same(u, x)
  BY <1>5, <1>8 DEF Same
<1>10. \A y : \A i : i # j => (i \in Same(u, y) <=> i \in Same(t, y))
  <2> TAKE y
  <2> TAKE i
  <2> HAVE i # j
  <2>1. i \in 1 .. Len(u) <=> i \in 1 .. n
    BY <1>1, <1>5, <1>6
  <2> QED
    BY <1>5, <2>1 DEF Same
<1>11. \A y : Same(t, y) # {} => Same(u, y) = Same(t, y)
  <2> TAKE y
  <2> HAVE Same(t, y) # {}
  <2>1. j \in Same(u, y) <=> j \in Same(t, y)
    <3>1. CASE y = x
      BY <1>2, <1>9, <3>1
    <3>2. CASE y # x
      <4>1. j \notin Same(u, y)
        BY <1>8, <3>2 DEF Same
      <4>2. ASSUME j \in Same(t, y) PROVE FALSE
        <5>1. j \in 1 .. n /\ t[j].refs > 0 /\ t[j].item = y
          BY <4>2 DEF Same
        <5>2. Same(t, x) # {}
          BY <1>1, <1>2, <5>1
        <5>3. t[j].item = x
          BY <1>2, <5>2 DEF Same
        <5> QED
          BY <3>2, <5>1, <5>3
      <4> QED
        BY <4>1, <4>2
    <3> QED
      BY <3>1, <3>2
  <2> QED
    BY <1>10, <2>1
<1>12. u \in Entries(I)
  BY <1>5 DEF Entries
<1>13. \A y : Same(t, y) # {} => Same(u, y) # {} /\ IndexFor(u, y) = IndexFor(t, y)
  <2> TAKE y
  <2> HAVE Same(t, y) # {}
  <2>1. Same(u, y) = Same(t, y)
    BY <1>11
  <2>2. IndexFor(t, y) = Min(Same(t, y))
    BY IndexForIs
  <2>3. IndexFor(u, y) = Min(Same(u, y))
    BY <1>12, <2>1, IndexForIs
  <2> QED
    BY <2>1, <2>2, <2>3
<1>14. IndexFor(u, x) = j
  <2>1. CASE Same(t, x) # {}
    BY <1>13, <2>1 DEF j
  <2>2. CASE Same(t, x) = {}
    <3>1. Same(u, x) = {j}
      BY <1>9, <1>10, <2>2
    <3>2. IndexFor(u, x) \in Same(u, x)
      BY <1>9, <1>12, IndexForIs
    <3> QED
      BY <3>1, <3>2
  <2> QED
    BY <2>1, <2>2
<1>15. AddsAt(t, u, x, j)
  BY <1>5, <1>7, <1>9, <1>13, <1>14 DEF AddsAt
<1> QED
  BY <1>12, <1>15 DEF u, j

\* The places of a sequence where an index is
PlacesOf(uses, i) == {k \in DOMAIN uses : uses[k] = i}

\* u is t with the first k of the items added.
HasAdded(I, t, items, u, k) ==
  /\ u \in Entries(I)
  /\ \A l \in 1 .. k : Same(u, items[l]) # {}
  /\ \A i : RefsAt(u, i) =
              RefsAt(t, i) + Cardinality({l \in 1 .. k : IndexFor(u, items[l]) = i})

\* A counted table is a sequence of entries, and each place has a count.
LEMMA RefsAtIs ==
  ASSUME NEW I, NEW t \in Entries(I)
  PROVE  /\ Len(t) \in Nat /\ DOMAIN t = 1 .. Len(t)
         /\ \A i \in 1 .. Len(t) : t[i] \in [item : I, refs : Nat]
         /\ \A i : RefsAt(t, i) \in Nat
<1> DEFINE E == [item : I, refs : Nat]
<1>1. t \in Seq(E)
  BY DEF Entries
<1>2. \A e \in E : e.refs \in Nat
  OBVIOUS
<1> HIDE DEF E
<1>3. Len(t) \in Nat /\ t \in [1 .. Len(t) -> E]
  BY <1>1, LenProperties
<1>4. \A i : RefsAt(t, i) \in Nat
  BY <1>2, <1>3 DEF RefsAt
<1> QED
  BY <1>3, <1>4 DEF E

\* One more item is added.
LEMMA OneMoreAdded ==
  ASSUME NEW I, NEW t \in Entries(I), NEW items, NEW u, NEW k \in Nat,
         items[k + 1] \in I, HasAdded(I, t, items, u, k)
  PROVE  HasAdded(I, t, items, Added(u, items[k + 1]), k + 1)
<1> DEFINE x == items[k + 1]
           v == Added(u, x)
           j == IndexFor(u, x)
           A(i) == {l \in 1 .. k : IndexFor(u, items[l]) = i}
           B(i) == {l \in 1 .. k + 1 : IndexFor(v, items[l]) = i}
<1>1. /\ u \in Entries(I)
      /\ \A l \in 1 .. k : Same(u, items[l]) # {}
      /\ \A i : RefsAt(u, i) = RefsAt(t, i) + Cardinality(A(i))
  BY DEF HasAdded
<1>2. v \in Entries(I) /\ AddsAt(u, v, x, j)
  BY <1>1, AddedIs
<1> HIDE DEF v, j
<1>3. /\ \A i : RefsAt(v, i) = RefsAt(u, i) + IF i = j THEN 1 ELSE 0
      /\ Same(v, x) # {} /\ IndexFor(v, x) = j
      /\ \A y : Same(u, y) # {} => Same(v, y) # {} /\ IndexFor(v, y) = IndexFor(u, y)
  BY <1>2 DEF AddsAt
<1>4. \A l \in 1 .. k + 1 : l = k + 1 \/ l \in 1 .. k
  OBVIOUS
<1>5. \A l \in 1 .. k + 1 : Same(v, items[l]) # {}
  BY <1>1, <1>3, <1>4
<1>6. ASSUME NEW i
      PROVE  RefsAt(v, i) = RefsAt(t, i) + Cardinality(B(i))
  <2>1. IsFiniteSet(A(i)) /\ Cardinality(A(i)) \in Nat
    <3>1. IsFiniteSet(1 .. k)
      BY FS_Interval
    <3>2. A(i) \in SUBSET (1 .. k)
      OBVIOUS
    <3>3. IsFiniteSet(A(i))
      BY <3>1, <3>2, FS_Subset
    <3> QED
      BY <3>3, FS_CardinalityType
  <2>2. k + 1 \notin A(i)
    OBVIOUS
  <2>3. B(i) = IF i = j THEN A(i) \cup {k + 1} ELSE A(i)
    <3>1. \A l \in 1 .. k : IndexFor(v, items[l]) = IndexFor(u, items[l])
      BY <1>1, <1>3
    <3>2. IndexFor(v, items[k + 1]) = j
      BY <1>3
    <3>3. \A l \in 1 .. k : l \in 1 .. k + 1
      OBVIOUS
    <3>4. k + 1 \in 1 .. k + 1
      OBVIOUS
    <3> QED
      BY <1>4, <3>1, <3>2, <3>3, <3>4
  <2>4. RefsAt(u, i) = RefsAt(t, i) + Cardinality(A(i))
    BY <1>1
  <2>5. RefsAt(t, i) \in Nat
    BY RefsAtIs
  <2> DEFINE a == A(i)
             b == B(i)
  <2> HIDE DEF A, B
  <2>6. Cardinality(b) = Cardinality(a) + IF i = j THEN 1 ELSE 0
    <3> HIDE DEF a, b
    <3>1. CASE i = j
      BY <2>1, <2>2, <2>3, <3>1, FS_AddElement DEF a, b
    <3>2. CASE i # j
      BY <2>1, <2>3, <3>2 DEF a, b
    <3> QED
      BY <3>1, <3>2
  <2> QED
    BY <1>3, <2>1, <2>4, <2>5, <2>6
<1> QED
  BY <1>2, <1>5, <1>6 DEF HasAdded, v

\* After all the items are added, each entry has as many more uses as the items
\* that are there.
LEMMA AddAllIs ==
  ASSUME NEW I, NEW t \in Entries(I), NEW items, Len(items) \in Nat,
         DOMAIN items = 1 .. Len(items), \A k \in 1 .. Len(items) : items[k] \in I
  PROVE  LET u == AddAll(t, items) IN
         /\ u \in Entries(I)
         /\ \A i : RefsAt(u, i) =
                     RefsAt(t, i) + Cardinality(PlacesOf(Indices(u, items), i))
<1> DEFINE n == Len(items)
           S == Entries(I)
           At(g) == g = [k \in 0 .. Len(items) |->
                           IF k = 0 THEN t ELSE Added(g[k - 1], items[k])]
           step == [k \in 1 .. n |-> [p \in S |-> Added(p, items[k])]]
<1>1. AddAll(t, items) = (CHOOSE g : At(g))[Len(items)]
  BY DEF AddAll
<1>2. n \in Nat /\ t \in S /\ step \in [1 .. n -> [S -> S]]
  <2>1. \A k \in 1 .. n : \A p \in S : Added(p, items[k]) \in S
    BY AddedIs
  <2>2. n \in Nat /\ t \in S
    OBVIOUS
  <2> HIDE DEF S
  <2>3. step \in [1 .. n -> [S -> S]]
    BY <2>1
  <2> QED
    BY <2>2, <2>3
<1> HIDE DEF S, step
<1>3. PICK g : Steps(n, S, t, step, g)
  <2> HIDE DEF n
  <2> QED
    BY <1>2, StepsExist DEF CanStep
<1>4. g \in [0 .. n -> S] /\ g[0] = t /\ \A k \in 1 .. n : g[k] = step[k][g[k - 1]]
  BY <1>3 DEF Steps
<1>5. At(g)
  <2>1. \A k \in 1 .. n : g[k] = Added(g[k - 1], items[k])
    <3> TAKE k \in 1 .. n
    <3>1. g[k - 1] \in S /\ g[k] = step[k][g[k - 1]]
      BY <1>2, <1>4
    <3> QED
      BY <3>1 DEF step
  <2>2. \A k \in 0 .. n : g[k] = IF k = 0 THEN t ELSE Added(g[k - 1], items[k])
    BY <1>2, <1>4, <2>1
  <2>3. g = [k \in 0 .. n |-> g[k]]
    BY <1>4
  <2> QED
    BY <2>2, <2>3, Zenon
<1> DEFINE b == CHOOSE c : At(c)
<1>6. At(b)
  <2> HIDE DEF At
  <2> QED
    BY <1>5
<1> HIDE DEF b
<1>7. b[0] = t /\ \A k \in 1 .. n : b[k] = Added(b[k - 1], items[k])
  BY <1>2, <1>6
<1> DEFINE P == {k \in 0 .. n : HasAdded(I, t, items, b[k], k)}
<1>8. HasAdded(I, t, items, t, 0)
  <2>1. \A i : {l \in 1 .. 0 : IndexFor(t, items[l]) = i} = {}
    OBVIOUS
  <2>2. \A i : RefsAt(t, i) \in Nat
    BY RefsAtIs
  <2>3. \A i : RefsAt(t, i) =
                 RefsAt(t, i) + Cardinality({l \in 1 .. 0 : IndexFor(t, items[l]) = i})
    BY <2>1, <2>2, FS_EmptySet
  <2>4. \A l \in 1 .. 0 : Same(t, items[l]) # {}
    OBVIOUS
  <2> QED
    BY <2>3, <2>4 DEF HasAdded
<1>9. \A k \in 0 .. n - 1 : k \in P => k + 1 \in P
  <2> SUFFICES ASSUME NEW k \in 0 .. n - 1, k \in P PROVE k + 1 \in P
    OBVIOUS
  <2>1. k + 1 \in 1 .. n /\ k + 1 \in 0 .. n /\ k + 1 - 1 = k /\ k \in Nat
    BY <1>2
  <2>2. b[k + 1] = Added(b[k], items[k + 1])
    BY <1>7, <2>1
  <2>3. HasAdded(I, t, items, b[k], k) /\ items[k + 1] \in I
    BY <2>1
  <2>4. HasAdded(I, t, items, b[k + 1], k + 1)
    BY <2>1, <2>2, <2>3, OneMoreAdded
  <2> QED
    BY <2>1, <2>4
<1>10. n \in P
  <2>1. 0 \in P
    BY <1>2, <1>7, <1>8
  <2> HIDE DEF P, n
  <2>2. \A k \in 0 .. n : k \in P
    BY <1>2, <1>9, <2>1, Induct
  <2> QED
    BY <1>2, <2>2
<1> DEFINE u == AddAll(t, items)
<1>11. u = b[n]
  BY <1>1 DEF b
<1>12. HasAdded(I, t, items, u, n)
  BY <1>10, <1>11
<1> HIDE DEF u
<1>13. \A i : PlacesOf(Indices(u, items), i) =
                {l \in 1 .. n : IndexFor(u, items[l]) = i}
  BY DEF PlacesOf, Indices
<1> QED
  BY <1>12, <1>13 DEF HasAdded, u

\* object_discard_string() and object_discard_ident(), for each use
LEMMA DiscardAllIs ==
  ASSUME NEW I, NoIdent \in I, NEW t \in Entries(I), NEW uses,
         \A i : /\ Cardinality(PlacesOf(uses, i)) \in Nat
                /\ Cardinality(PlacesOf(uses, i)) <= RefsAt(t, i)
  PROVE  LET u == DiscardAll(t, uses) IN
         /\ u \in Entries(I)
         /\ \A i : RefsAt(u, i) = RefsAt(t, i) - Cardinality(PlacesOf(uses, i))
<1> DEFINE n == Len(t)
           E == [item : I, refs : Nat]
           left(i) == t[i].refs - Cardinality(PlacesOf(uses, i))
           u == DiscardAll(t, uses)
<1>1. n \in Nat /\ DOMAIN t = 1 .. n /\ (\A i \in 1 .. n : t[i] \in E)
      /\ \A i : RefsAt(t, i) \in Nat
  BY RefsAtIs
<1>2. u = [i \in 1 .. n |-> IF left(i) = 0 THEN Blank
                            ELSE [t[i] EXCEPT !.refs = left(i)]]
  BY <1>1 DEF DiscardAll, PlacesOf
<1>3. \A i \in 1 .. n : left(i) \in Nat /\ left(i) = RefsAt(t, i) - Cardinality(PlacesOf(uses, i))
  BY <1>1 DEF RefsAt
<1> HIDE DEF left
<1>4. \A i \in 1 .. n : u[i] \in E /\ u[i].refs = left(i)
  <2> TAKE i \in 1 .. n
  <2>1. u[i] = IF left(i) = 0 THEN Blank ELSE [t[i] EXCEPT !.refs = left(i)]
    BY <1>2
  <2>2. CASE left(i) = 0
    BY <2>1, <2>2 DEF Blank
  <2>3. CASE left(i) # 0
    BY <1>1, <1>3, <2>1, <2>3
  <2> QED
    BY <2>2, <2>3
<1>5. u \in [1 .. n -> E]
  <2>1. u = [i \in 1 .. n |-> u[i]]
    BY <1>2
  <2> HIDE DEF E, u
  <2> QED
    BY <1>4, <2>1
<1>6. u \in Seq(E) /\ Len(u) = n
  <2> HIDE DEF E, u, n
  <2> QED
    BY <1>1, <1>5, LenOf
<1> HIDE DEF u
<1>7. \A i : RefsAt(u, i) = RefsAt(t, i) - Cardinality(PlacesOf(uses, i))
  <2> TAKE i
  <2>1. CASE i \in 1 .. n
    <3>1. RefsAt(u, i) = u[i].refs
      BY <1>6, <2>1 DEF RefsAt
    <3> QED
      BY <1>3, <1>4, <2>1, <3>1
  <2>2. CASE i \notin 1 .. n
    <3>1. RefsAt(u, i) = 0 /\ RefsAt(t, i) = 0
      BY <1>6, <2>2 DEF RefsAt
    <3>2. Cardinality(PlacesOf(uses, i)) = 0
      BY <3>1
    <3> QED
      BY <3>1, <3>2
  <2> QED
    BY <2>1, <2>2
<1> QED
  BY <1>6, <1>7 DEF Entries, u

---------------------------------------------------------------------------
(* What the methods in L use of a table: pl[m] are the places that m uses. *)

\* The uses that a method makes of entry i
UsesBy(m, uses, i) == {m} \X PlacesOf(uses, i)
\* The uses that the methods in L make of an entry
Uses(L, pl, i) == UNION {UsesBy(m, pl[m], i) : m \in L}
Readable(L, pl) == IsFiniteSet(L) /\ \A m \in L : IsFiniteSet(DOMAIN pl[m])

\* Each entry is counted once for each use, by a method or by what is pending.
CountedWith(t, L, pl, pending) ==
  /\ \E I : NoIdent \in I /\ t \in Entries(I)
  /\ \A i : RefsAt(t, i) =
              Cardinality(Uses(L, pl, i)) + Cardinality(PlacesOf(pending, i))
Counted(t, L, pl) == CountedWith(t, L, pl, <<>>)

\* The places where an index is used can be counted.
LEMMA PlacesFinite ==
  ASSUME NEW uses, IsFiniteSet(DOMAIN uses), NEW i
  PROVE  IsFiniteSet(PlacesOf(uses, i)) /\ Cardinality(PlacesOf(uses, i)) \in Nat
<1>1. PlacesOf(uses, i) \in SUBSET DOMAIN uses
  BY DEF PlacesOf
<1>2. IsFiniteSet(PlacesOf(uses, i))
  BY <1>1, FS_Subset
<1> QED
  BY <1>2, FS_CardinalityType

\* The uses that one method makes
LEMMA UsesOfOne ==
  ASSUME NEW m, NEW uses, IsFiniteSet(DOMAIN uses), NEW i
  PROVE  /\ IsFiniteSet(UsesBy(m, uses, i))
         /\ Cardinality(UsesBy(m, uses, i)) = Cardinality(PlacesOf(uses, i))
<1> DEFINE P == PlacesOf(uses, i)
<1>1. IsFiniteSet(P) /\ Cardinality(P) \in Nat
  BY PlacesFinite
<1>2. IsFiniteSet({m}) /\ Cardinality({m}) = 1
  BY FS_Singleton
<1> HIDE DEF P
<1>3. /\ IsFiniteSet({m} \X P)
      /\ Cardinality({m} \X P) = Cardinality({m}) * Cardinality(P)
  BY <1>1, <1>2, FS_Product
<1> QED
  BY <1>1, <1>2, <1>3 DEF P, UsesBy

\* The uses that the methods make can be counted.
LEMMA UsesFinite ==
  ASSUME NEW L, NEW pl, Readable(L, pl), NEW i
  PROVE  IsFiniteSet(Uses(L, pl, i)) /\ Cardinality(Uses(L, pl, i)) \in Nat
<1> DEFINE T == {UsesBy(m, pl[m], i) : m \in L}
           f == [m \in L |-> UsesBy(m, pl[m], i)]
<1>1. f \in Surjection(L, T)
  BY DEF Surjection
<1>2. IsFiniteSet(T)
  <2> HIDE DEF T, f
  <2> QED
    BY <1>1, FS_Surjection DEF Readable
<1>3. \A S \in T : IsFiniteSet(S)
  BY UsesOfOne DEF Readable
<1>4. IsFiniteSet(UNION T)
  <2> HIDE DEF T
  <2> QED
    BY <1>2, <1>3, FS_UNION
<1> QED
  BY <1>4, FS_CardinalityType DEF Uses

\* One method more
LEMMA UsesJoined ==
  ASSUME NEW L, NEW m, m \notin L, NEW pl, Readable(L \cup {m}, pl), NEW i
  PROVE  Cardinality(Uses(L \cup {m}, pl, i)) =
           Cardinality(Uses(L, pl, i)) + Cardinality(PlacesOf(pl[m], i))
<1> DEFINE A == Uses(L, pl, i)
           B == UsesBy(m, pl[m], i)
<1>1. Uses(L \cup {m}, pl, i) = A \cup B
  BY DEF Uses
<1>2. A \cap B = {}
  <2>1. \A x \in A : x[1] \in L
    BY DEF Uses, UsesBy
  <2>2. \A x \in B : x[1] = m
    BY DEF UsesBy
  <2> QED
    BY <2>1, <2>2
<1>3. Readable(L, pl) /\ IsFiniteSet(DOMAIN pl[m])
  <2>1. L \in SUBSET (L \cup {m})
    OBVIOUS
  <2>2. IsFiniteSet(L)
    BY <2>1, FS_Subset DEF Readable
  <2> QED
    BY <2>2 DEF Readable
<1>4. IsFiniteSet(A) /\ Cardinality(A) \in Nat
  BY <1>3, UsesFinite
<1>5. IsFiniteSet(B) /\ Cardinality(B) = Cardinality(PlacesOf(pl[m], i))
  BY <1>3, UsesOfOne
<1>6. Cardinality(PlacesOf(pl[m], i)) \in Nat
  BY <1>3, PlacesFinite
<1> HIDE DEF A, B
<1>7. Cardinality(A \cup B) = Cardinality(A) + Cardinality(B) - Cardinality(A \cap B)
  BY <1>4, <1>5, FS_Union
<1>8. Cardinality(A \cap B) = 0
  BY <1>2, FS_EmptySet
<1>9. Cardinality(A \cup B) = Cardinality(A) + Cardinality(PlacesOf(pl[m], i))
  BY <1>4, <1>5, <1>6, <1>7, <1>8
<1> QED
  BY <1>1, <1>9 DEF A

\* The uses are what the methods use, and nothing else.
LEMMA UsesAgree ==
  ASSUME NEW L, NEW pl, NEW ql, \A m \in L : pl[m] = ql[m], NEW i
  PROVE  Uses(L, pl, i) = Uses(L, ql, i)
  BY DEF Uses

\* Nothing pending uses nothing.
LEMMA NoneFinite ==
  /\ IsFiniteSet(DOMAIN <<>>) /\ \A i : Cardinality(PlacesOf(<<>>, i)) = 0
<1>1. DOMAIN <<>> = {}
  OBVIOUS
<1>2. \A i : PlacesOf(<<>>, i) = {}
  BY <1>1 DEF PlacesOf
<1> QED
  BY <1>1, <1>2, FS_EmptySet

\* The items of a new method are added.
LEMMA CountedAdds ==
  ASSUME NEW t, NEW L, NEW pl, Readable(L, pl), Counted(t, L, pl),
         NEW items, Len(items) \in Nat, DOMAIN items = 1 .. Len(items)
  PROVE  CountedWith(AddAll(t, items), L, pl, Indices(AddAll(t, items), items))
<1>1. PICK I : NoIdent \in I /\ t \in Entries(I)
  BY DEF Counted, CountedWith
<1> DEFINE J == I \cup {items[k] : k \in 1 .. Len(items)}
           u == AddAll(t, items)
<1>2. t \in Entries(J) /\ NoIdent \in J
  <2>1. [item : I, refs : Nat] \subseteq [item : J, refs : Nat]
    OBVIOUS
  <2> QED
    BY <1>1, <2>1, SeqMonotonic DEF Entries
<1>3. \A k \in 1 .. Len(items) : items[k] \in J
  OBVIOUS
<1> HIDE DEF J
<1>4. /\ u \in Entries(J)
      /\ \A i : RefsAt(u, i) =
                  RefsAt(t, i) + Cardinality(PlacesOf(Indices(u, items), i))
  BY <1>2, <1>3, AddAllIs
<1> HIDE DEF u
<1>5. \A i : RefsAt(t, i) = Cardinality(Uses(L, pl, i))
  <2> TAKE i
  <2>1. RefsAt(t, i) = Cardinality(Uses(L, pl, i)) + 0
    BY NoneFinite DEF Counted, CountedWith
  <2> QED
    BY <2>1, UsesFinite
<1>6. CountedWith(u, L, pl, Indices(u, items))
  BY <1>2, <1>4, <1>5 DEF CountedWith
<1> QED
  BY <1>6 DEF u

\* A method's uses are discarded.
LEMMA CountedDrops ==
  ASSUME NEW t, NEW L, NEW pl, NEW pending, Readable(L, pl),
         IsFiniteSet(DOMAIN pending), CountedWith(t, L, pl, pending), NEW m \in L
  PROVE  CountedWith(DiscardAll(t, pl[m]), L \ {m}, pl, pending)
<1>1. PICK I : NoIdent \in I /\ t \in Entries(I)
  BY DEF CountedWith
<1> DEFINE K == L \ {m}
           u == DiscardAll(t, pl[m])
           uses == pl[m]
<1>2. m \notin K /\ K \cup {m} = L /\ K \in SUBSET L
  OBVIOUS
<1>3. Readable(K, pl) /\ IsFiniteSet(DOMAIN uses)
  <2>1. IsFiniteSet(K)
    BY <1>2, FS_Subset DEF Readable
  <2> QED
    BY <2>1 DEF Readable
<1> HIDE DEF K
<1>4. ASSUME NEW i
      PROVE  /\ RefsAt(t, i) = Cardinality(Uses(K, pl, i))
                  + Cardinality(PlacesOf(uses, i)) + Cardinality(PlacesOf(pending, i))
             /\ Cardinality(Uses(K, pl, i)) \in Nat
             /\ Cardinality(PlacesOf(uses, i)) \in Nat
             /\ Cardinality(PlacesOf(pending, i)) \in Nat
  <2>1. Cardinality(Uses(L, pl, i)) =
          Cardinality(Uses(K, pl, i)) + Cardinality(PlacesOf(uses, i))
    BY <1>2, UsesJoined
  <2>2. RefsAt(t, i) =
          Cardinality(Uses(L, pl, i)) + Cardinality(PlacesOf(pending, i))
    BY DEF CountedWith
  <2> QED
    BY <1>3, <2>1, <2>2, UsesFinite, PlacesFinite
<1>5. \A i : /\ Cardinality(PlacesOf(uses, i)) \in Nat
             /\ Cardinality(PlacesOf(uses, i)) <= RefsAt(t, i)
  BY <1>4
<1>6. /\ u \in Entries(I)
      /\ \A i : RefsAt(u, i) = RefsAt(t, i) - Cardinality(PlacesOf(uses, i))
  <2> HIDE DEF uses
  <2>1. /\ DiscardAll(t, uses) \in Entries(I)
        /\ \A i : RefsAt(DiscardAll(t, uses), i) =
                    RefsAt(t, i) - Cardinality(PlacesOf(uses, i))
    BY <1>1, <1>5, DiscardAllIs
  <2> QED
    BY <2>1 DEF uses
<1> HIDE DEF u, uses
<1>7. \A i : RefsAt(u, i) =
               Cardinality(Uses(K, pl, i)) + Cardinality(PlacesOf(pending, i))
  BY <1>4, <1>6
<1>8. CountedWith(u, K, pl, pending)
  BY <1>1, <1>6, <1>7 DEF CountedWith
<1> QED
  BY <1>8 DEF u, K

\* What was pending is used by a method.
LEMMA CountedJoins ==
  ASSUME NEW t, NEW L, NEW pl, NEW pending, NEW m, m \notin L, NEW ql,
         Readable(L \cup {m}, ql), \A x \in L : pl[x] = ql[x], ql[m] = pending,
         CountedWith(t, L, pl, pending)
  PROVE  Counted(t, L \cup {m}, ql)
<1>1. ASSUME NEW i
      PROVE  RefsAt(t, i) = Cardinality(Uses(L \cup {m}, ql, i))
                              + Cardinality(PlacesOf(<<>>, i))
  <2>1. Cardinality(Uses(L \cup {m}, ql, i)) =
          Cardinality(Uses(L, ql, i)) + Cardinality(PlacesOf(pending, i))
    BY UsesJoined
  <2>2. Uses(L, ql, i) = Uses(L, pl, i)
    BY UsesAgree
  <2>3. RefsAt(t, i) = Cardinality(Uses(L, pl, i)) + Cardinality(PlacesOf(pending, i))
    BY DEF CountedWith
  <2>4. Cardinality(Uses(L \cup {m}, ql, i)) \in Nat
    BY UsesFinite
  <2> QED
    BY <2>1, <2>2, <2>3, <2>4, NoneFinite
<1> QED
  BY <1>1 DEF Counted, CountedWith

---------------------------------------------------------------------------
(* Instructions in code *)

\* An opcode takes two arguments at most.
LEMMA OpArgsAre ==
  \A op : Len(OpArgs(op)) \in 0 .. 2
  BY DEF OpArgs

\* The position of the instruction after the one at i
After(code, i) == i + 1 + Len(OpArgs(code[i]))

\* S has whole instructions, from position i on.
Instructions(code, n, S, i) ==
  /\ S \subseteq i .. n
  /\ i <= n => i \in S
  /\ \A p \in S : After(code, p) \in S \/ After(code, p) > n
  /\ \A p, q \in S : p < q => After(code, p) <= q

\* An element in front of a sequence
LEMMA ConsIs ==
  ASSUME NEW S, NEW s \in Seq(S), NEW x \in S
  PROVE  /\ <<x>> \o s \in Seq(S)
         /\ ToSet(<<x>> \o s) = {x} \cup ToSet(s)
<1> DEFINE u == <<x>> \o s
<1>1. <<x>> \in Seq(S) /\ Len(<<x>>) = 1 /\ <<x>>[1] = x
  OBVIOUS
<1>2. Len(s) \in Nat /\ DOMAIN s = 1 .. Len(s)
  OBVIOUS
<1>3. /\ u \in Seq(S) /\ Len(u) = 1 + Len(s)
      /\ \A k \in 1 .. 1 + Len(s) : u[k] = IF k <= 1 THEN <<x>>[1] ELSE s[k - 1]
  BY <1>1, <1>2, ConcatProperties
<1>4. DOMAIN u = 1 .. 1 + Len(s)
  BY <1>3
<1> HIDE DEF u
<1>5. \A y \in ToSet(u) : y \in {x} \cup ToSet(s)
  <2> TAKE y \in ToSet(u)
  <2>1. PICK k \in 1 .. 1 + Len(s) : y = u[k]
    BY <1>4 DEF ToSet
  <2>2. k = 1 \/ k - 1 \in 1 .. Len(s)
    BY <1>2
  <2> QED
    BY <1>1, <1>2, <1>3, <2>1, <2>2 DEF ToSet
<1>6. x \in ToSet(u)
  <2>1. 1 \in 1 .. 1 + Len(s)
    BY <1>2
  <2> QED
    BY <1>1, <1>3, <1>4, <2>1 DEF ToSet
<1>7. \A y \in ToSet(s) : y \in ToSet(u)
  <2> TAKE y \in ToSet(s)
  <2>1. PICK k \in 1 .. Len(s) : y = s[k]
    BY <1>2 DEF ToSet
  <2>2. k + 1 \in 1 .. 1 + Len(s) /\ ~(k + 1 <= 1) /\ k + 1 - 1 = k
    BY <1>2
  <2>3. u[k + 1] = y
    BY <1>3, <2>1, <2>2
  <2> QED
    BY <1>4, <2>2, <2>3 DEF ToSet
<1> QED
  BY <1>3, <1>5, <1>6, <1>7 DEF u

\* What OpPositions() finds are the instructions from the first position on.
LEMMA OpPositionsAre ==
  ASSUME NEW code, Len(code) \in Nat
  PROVE  Instructions(code, Len(code), ToSet(OpPositions(code)), 1)
<1> DEFINE n == Len(code)
           next == [i \in 1 .. n |-> After(code, i)]
           head == [i \in 1 .. n |-> <<i>>]
           At(f) == f = [i \in 1 .. Len(code) + 3 |->
                           IF i > Len(code) THEN <<>>
                           ELSE <<i>> \o f[i + 1 + Len(OpArgs(code[i]))]]
<1>1. OpPositions(code) = (CHOOSE f : At(f))[1]
  BY DEF OpPositions
<1>2. \A i \in 1 .. n : next[i] \in i + 1 .. i + 3 /\ next[i] = After(code, i)
  <2> TAKE i \in 1 .. n
  <2> DEFINE len == Len(OpArgs(code[i]))
  <2>1. len \in 0 .. 2
    BY OpArgsAre
  <2>2. next[i] = After(code, i) /\ After(code, i) = i + 1 + len
    BY DEF After
  <2>3. i \in Nat
    OBVIOUS
  <2> HIDE DEF len, next
  <2>4. i + 1 + len \in i + 1 .. i + 3
    BY <2>1, <2>3
  <2> QED
    BY <2>2, <2>4
<1> HIDE DEF next
<1>3. PICK f : Gathers(n, head, next, f)
  <2> HIDE DEF n, head
  <2>1. n \in Nat
    BY DEF n
  <2> QED
    BY <1>2, <2>1, GathersExist
<1>4. At(f)
  <2>1. f = [i \in 1 .. n + 3 |-> IF i > n THEN <<>> ELSE head[i] \o f[next[i]]]
    BY <1>3 DEF Gathers
  <2>2. \A i \in 1 .. n + 3 :
          f[i] = IF i > Len(code) THEN <<>>
                 ELSE <<i>> \o f[i + 1 + Len(OpArgs(code[i]))]
    <3> TAKE i \in 1 .. n + 3
    <3>1. f[i] = IF i > n THEN <<>> ELSE head[i] \o f[next[i]]
      BY <2>1, Zenon
    <3>2. CASE i > n
      BY <3>1, <3>2
    <3>3. CASE ~(i > n)
      <4>1. i \in 1 .. n
        BY <3>3
      <4>2. head[i] = <<i>> /\ next[i] = i + 1 + Len(OpArgs(code[i]))
        BY <1>2, <4>1 DEF After
      <4> QED
        BY <3>1, <3>3, <4>2
    <3> QED
      BY <3>2, <3>3
  <2>3. f = [i \in 1 .. n + 3 |-> f[i]]
    BY <2>1
  <2> QED
    BY <2>2, <2>3, Zenon
<1> DEFINE b == CHOOSE c : At(c)
<1>5. At(b)
  <2> HIDE DEF At
  <2> QED
    BY <1>4
<1> HIDE DEF b
<1>6. \A i \in 1 .. n + 3 :
        b[i] = IF i > n THEN <<>> ELSE <<i>> \o b[After(code, i)]
  BY <1>5 DEF After
<1> DEFINE Good(i) == b[i] \in Seq(Nat) /\ Instructions(code, n, ToSet(b[i]), i)
           P == {i \in 1 .. n + 3 : Good(i)}
<1>7. ASSUME NEW i \in 1 .. n + 3, \A j \in i + 1 .. n + 3 : j \in P
      PROVE  i \in P
  <2>1. CASE i > n
    <3>1. b[i] = <<>>
      BY <1>6, <2>1
    <3>2. ToSet(b[i]) = {} /\ b[i] \in Seq(Nat)
      BY <3>1 DEF ToSet
    <3> QED
      BY <2>1, <3>2 DEF Instructions
  <2>2. CASE ~(i > n)
    <3> DEFINE j == After(code, i)
               S == ToSet(b[j])
    <3>1. i \in 1 .. n /\ j \in i + 1 .. i + 3 /\ j \in i + 1 .. n + 3
      BY <1>2, <2>2
    <3>2. b[j] \in Seq(Nat) /\ Instructions(code, n, S, j)
      BY <1>7, <3>1
    <3>3. b[i] = <<i>> \o b[j]
      BY <1>6, <2>2
    <3>4. b[i] \in Seq(Nat) /\ ToSet(b[i]) = {i} \cup S
      BY <3>1, <3>2, <3>3, ConsIs
    <3>5. Instructions(code, n, {i} \cup S, i)
      <4> HIDE DEF S
      <4>1. S \subseteq j .. n /\ (j <= n => j \in S)
        BY <3>2 DEF Instructions
      <4>2. {i} \cup S \subseteq i .. n
        BY <3>1, <4>1
      <4>3. \A p \in {i} \cup S : After(code, p) \in {i} \cup S \/ After(code, p) > n
        <5>1. After(code, i) \in S \/ After(code, i) > n
          BY <3>1, <4>1
        <5> QED
          BY <3>2, <5>1 DEF Instructions
      <4>4. \A p, q \in {i} \cup S : p < q => After(code, p) <= q
        <5> TAKE p, q \in {i} \cup S
        <5> HAVE p < q
        <5>1. CASE p \in S /\ q \in S
          BY <3>2, <5>1 DEF Instructions
        <5>2. CASE p = i /\ q \in S
          BY <4>1, <5>2
        <5>3. q # i
          BY <3>1, <4>2
        <5> QED
          BY <5>1, <5>2, <5>3
      <4> QED
        BY <4>2, <4>3, <4>4 DEF Instructions
    <3> QED
      BY <3>4, <3>5
  <2> QED
    BY <2>1, <2>2
<1>8. 1 \in P
  <2> DEFINE m == n + 3
  <2>1. m \in Nat /\ 1 \in 1 .. m
    OBVIOUS
  <2>2. \A i \in 1 .. m : (\A j \in i + 1 .. m : j \in P) => i \in P
    BY <1>7
  <2> HIDE DEF P, m
  <2>3. \A i \in 1 .. m : i \in P
    BY <2>1, <2>2, InductDown
  <2> QED
    BY <2>1, <2>3
<1>9. OpPositions(code) = b[1]
  BY <1>1 DEF b
<1> QED
  BY <1>8, <1>9

\* The argument of an instruction that takes one of this kind and nothing else
ArgAt(code, kind, i) == IF OpArgs(code[i]) = <<kind>> THEN <<code[i + 1]>> ELSE <<>>

\* b[i] are the arguments from position i on.
Arguing(code, n, kind, b) ==
  \A i \in 1 .. n + 3 :
    b[i] = IF i > n THEN <<>> ELSE ArgAt(code, kind, i) \o b[After(code, i)]

\* An instruction is one to three cells long.
LEMMA AfterIs ==
  ASSUME NEW code, NEW i \in Nat
  PROVE  After(code, i) \in i + 1 .. i + 3
<1> DEFINE len == Len(OpArgs(code[i]))
<1>1. len \in 0 .. 2
  BY OpArgsAre
<1>2. After(code, i) = i + 1 + len
  BY DEF After
<1> HIDE DEF len
<1> QED
  BY <1>1, <1>2

\* ArgsOf() gathers the arguments, instruction by instruction.
LEMMA ArgsWalk ==
  ASSUME NEW code, Len(code) \in Nat, NEW kind
  PROVE  \E b : ArgsOf(code, kind) = b[1] /\ Arguing(code, Len(code), kind, b)
<1> DEFINE n == Len(code)
           next == [i \in 1 .. n |-> After(code, i)]
           head == [i \in 1 .. n |-> ArgAt(code, kind, i)]
           At(f) == f = [i \in 1 .. Len(code) + 3 |->
                           IF i > Len(code) THEN <<>>
                           ELSE (IF OpArgs(code[i]) = <<kind>> THEN <<code[i + 1]>>
                                 ELSE <<>>)
                                  \o f[i + 1 + Len(OpArgs(code[i]))]]
<1>1. ArgsOf(code, kind) = (CHOOSE f : At(f))[1]
  BY DEF ArgsOf
<1>2. \A i \in 1 .. n : next[i] \in i + 1 .. i + 3 /\ next[i] = After(code, i)
  BY AfterIs
<1>0. \A i \in 1 .. n : head[i] = ArgAt(code, kind, i)
  OBVIOUS
<1> HIDE DEF next, head
<1>3. PICK f : Gathers(n, head, next, f)
  <2> HIDE DEF n
  <2>1. n \in Nat
    BY DEF n
  <2> QED
    BY <1>2, <2>1, GathersExist
<1>4. At(f)
  <2>1. f = [i \in 1 .. n + 3 |-> IF i > n THEN <<>> ELSE head[i] \o f[next[i]]]
    BY <1>3 DEF Gathers
  <2>2. \A i \in 1 .. n + 3 :
          f[i] = IF i > Len(code) THEN <<>>
                 ELSE (IF OpArgs(code[i]) = <<kind>> THEN <<code[i + 1]>> ELSE <<>>)
                        \o f[i + 1 + Len(OpArgs(code[i]))]
    <3> TAKE i \in 1 .. n + 3
    <3>1. f[i] = IF i > n THEN <<>> ELSE head[i] \o f[next[i]]
      BY <2>1, Zenon
    <3>2. CASE i > n
      BY <3>1, <3>2
    <3>3. CASE ~(i > n)
      <4>1. i \in 1 .. n
        BY <3>3
      <4>2. /\ head[i] = IF OpArgs(code[i]) = <<kind>> THEN <<code[i + 1]>> ELSE <<>>
            /\ next[i] = i + 1 + Len(OpArgs(code[i]))
        BY <1>0, <1>2, <4>1 DEF After, ArgAt
      <4> QED
        BY <3>1, <3>3, <4>2
    <3> QED
      BY <3>2, <3>3
  <2>3. f = [i \in 1 .. n + 3 |-> f[i]]
    BY <2>1
  <2> QED
    BY <2>2, <2>3, Zenon
<1> DEFINE b == CHOOSE c : At(c)
<1>5. At(b)
  <2> HIDE DEF At
  <2> QED
    BY <1>4
<1> HIDE DEF b
<1>6. Arguing(code, n, kind, b)
  BY <1>5 DEF After, Arguing, ArgAt
<1>7. ArgsOf(code, kind) = b[1]
  BY <1>1 DEF b
<1> QED
  BY <1>6, <1>7

\* The indices of a sequence with one more element in front
LEMMA IndicesOfCons ==
  ASSUME NEW S, NEW s \in Seq(S), NEW x \in S, NEW T
  PROVE  Indices(T, <<x>> \o s) = <<IndexFor(T, x)>> \o Indices(T, s)
<1> DEFINE u == <<x>> \o s
           v == Indices(T, s)
           w == <<IndexFor(T, x)>>
           R == {IndexFor(T, y) : y \in S}
<1>1. <<x>> \in Seq(S) /\ Len(<<x>>) = 1 /\ <<x>>[1] = x
  OBVIOUS
<1>2. Len(s) \in Nat /\ DOMAIN s = 1 .. Len(s) /\ \A k \in 1 .. Len(s) : s[k] \in S
  OBVIOUS
<1>3. /\ u \in Seq(S) /\ Len(u) = 1 + Len(s)
      /\ \A k \in 1 .. 1 + Len(s) : u[k] = IF k <= 1 THEN <<x>>[1] ELSE s[k - 1]
  BY <1>1, <1>2, ConcatProperties
<1>4. v = [k \in 1 .. Len(s) |-> IndexFor(T, s[k])]
  BY <1>2 DEF Indices
<1>5. v \in [1 .. Len(s) -> R]
  BY <1>2, <1>4
<1> HIDE DEF R
<1>6. v \in Seq(R) /\ Len(v) = Len(s)
  <2> HIDE DEF v
  <2> DEFINE m == Len(s)
  <2>1. v \in [1 .. m -> R] /\ m \in Nat
    BY <1>2, <1>5
  <2> HIDE DEF m
  <2>2. v \in Seq(R) /\ Len(v) = m
    BY <2>1, LenOf
  <2> QED
    BY <2>2 DEF m
<1>7. w \in Seq(R) /\ Len(w) = 1 /\ w[1] = IndexFor(T, x)
  BY DEF R
<1> HIDE DEF v, w
<1>8. /\ w \o v \in Seq(R) /\ Len(w \o v) = 1 + Len(s)
      /\ \A k \in 1 .. 1 + Len(s) : (w \o v)[k] = IF k <= 1 THEN w[1] ELSE v[k - 1]
  <2>1. /\ w \o v \in Seq(R) /\ Len(w \o v) = Len(w) + Len(v)
        /\ \A k \in 1 .. Len(w) + Len(v) :
             (w \o v)[k] = IF k <= Len(w) THEN w[k] ELSE v[k - Len(w)]
    BY <1>6, <1>7, ConcatProperties
  <2>2. \A k \in 1 .. 1 + Len(s) : k <= 1 => k = 1
    BY <1>2
  <2> DEFINE c == w \o v
  <2> HIDE DEF c
  <2> QED
    BY <1>6, <1>7, <2>1, <2>2 DEF c
<1>9. \A k \in 1 .. 1 + Len(s) : IndexFor(T, u[k]) = (w \o v)[k]
  <2> TAKE k \in 1 .. 1 + Len(s)
  <2>1. CASE k <= 1
    BY <1>1, <1>3, <1>7, <1>8, <2>1
  <2>2. CASE ~(k <= 1)
    <3>1. k - 1 \in 1 .. Len(s)
      BY <1>2, <2>2
    <3> QED
      BY <1>3, <1>4, <1>8, <2>2, <3>1
  <2> QED
    BY <2>1, <2>2
<1>10. DOMAIN u = 1 .. 1 + Len(s)
  BY <1>3
<1>11. Indices(T, u) = [k \in 1 .. 1 + Len(s) |-> (w \o v)[k]]
  BY <1>9, <1>10 DEF Indices
<1>12. w \o v = [k \in 1 .. 1 + Len(s) |-> (w \o v)[k]]
  <2> DEFINE c == w \o v
  <2>1. c \in Seq(R) /\ Len(c) = 1 + Len(s)
    BY <1>8
  <2> HIDE DEF c
  <2>2. c = [k \in 1 .. 1 + Len(s) |-> c[k]]
    BY <2>1
  <2> QED
    BY <2>2 DEF c
<1> QED
  BY <1>11, <1>12 DEF v, w

\* The indices that the items in S have
IndexSet(T, S) == {IndexFor(T, y) : y \in S}

\* The indices of items are as many as the items.
LEMMA IndicesAre ==
  ASSUME NEW S, NEW s \in Seq(S), NEW T
  PROVE  /\ Len(Indices(T, s)) = Len(s)
         /\ Indices(T, s) \in Seq(IndexSet(T, S))
         /\ DOMAIN Indices(T, s) = 1 .. Len(s)
         /\ \A k \in 1 .. Len(s) : Indices(T, s)[k] = IndexFor(T, s[k])
<1> DEFINE v == Indices(T, s)
           R == IndexSet(T, S)
           n == Len(s)
<1>1. n \in Nat /\ DOMAIN s = 1 .. n /\ \A k \in 1 .. n : s[k] \in S
  OBVIOUS
<1>2. v = [k \in 1 .. n |-> IndexFor(T, s[k])]
  BY <1>1 DEF Indices
<1>3. v \in [1 .. n -> R]
  BY <1>1, <1>2 DEF IndexSet
<1> HIDE DEF R, n
<1>4. v \in Seq(R) /\ Len(v) = n
  <2> HIDE DEF v
  <2> QED
    BY <1>1, <1>3, LenOf
<1> QED
  BY <1>2, <1>4 DEF R, n, v, IndexSet

\* Nothing has no indices.
LEMMA NoIndices == \A T : Indices(T, <<>>) = <<>>
<1> TAKE T
<1>1. <<>> \in Seq({})
  BY EmptySeq
<1>2. Len(Indices(T, <<>>)) = 0 /\ Indices(T, <<>>) \in Seq(IndexSet(T, {}))
  BY <1>1, IndicesAre, EmptySeq
<1> QED
  BY <1>2, EmptySeq

\* The empty sequence in front changes nothing.
LEMMA EmptyFirst ==
  ASSUME NEW S, NEW s \in Seq(S)
  PROVE  <<>> \o s = s
  BY ConcatEmptySeq

\* Where buf has an argument of one kind, code has its translation.
SameBut(buf, code, kind, T, S) ==
  \A p \in ToSet(OpPositions(buf)) :
    /\ code[p] = buf[p]
    /\ OpArgs(buf[p]) = <<kind>> =>
         buf[p + 1] \in S /\ code[p + 1] = IndexFor(T, buf[p + 1])

\* If `code' is `buf' with the arguments of one kind translated, then what it
\* has of this kind are the translations of what buf has.
LEMMA ArgsTranslate ==
  ASSUME NEW buf, Len(buf) \in Nat, NEW code, Len(code) = Len(buf),
         NEW kind, NEW T, NEW S, SameBut(buf, code, kind, T, S)
  PROVE  /\ ArgsOf(buf, kind) \in Seq(S)
         /\ ArgsOf(code, kind) = Indices(T, ArgsOf(buf, kind))
<1> DEFINE n == Len(buf)
           A == ToSet(OpPositions(buf))
<1>1. Instructions(buf, n, A, 1)
  BY OpPositionsAre
<1>2. PICK b : ArgsOf(buf, kind) = b[1] /\ Arguing(buf, n, kind, b)
  BY ArgsWalk
<1>3. PICK c : ArgsOf(code, kind) = c[1] /\ Arguing(code, n, kind, c)
  <2>1. \E c : ArgsOf(code, kind) = c[1] /\ Arguing(code, Len(code), kind, c)
    BY ArgsWalk
  <2> QED
    BY <2>1
<1> HIDE DEF A
<1>4. \A p \in A : /\ code[p] = buf[p]
                   /\ OpArgs(buf[p]) = <<kind>> =>
                        buf[p + 1] \in S /\ code[p + 1] = IndexFor(T, buf[p + 1])
  BY DEF A, SameBut
<1> DEFINE P == {i \in 1 .. n + 3 : (i \in A \/ i > n) =>
                    b[i] \in Seq(S) /\ c[i] = Indices(T, b[i])}
<1>5. ASSUME NEW i \in 1 .. n + 3, \A j \in i + 1 .. n + 3 : j \in P
      PROVE  i \in P
  <2> SUFFICES ASSUME i \in A \/ i > n
               PROVE  b[i] \in Seq(S) /\ c[i] = Indices(T, b[i])
    OBVIOUS
  <2>1. CASE i > n
    <3>1. b[i] = <<>> /\ c[i] = <<>>
      BY <1>2, <1>3, <2>1 DEF Arguing
    <3> QED
      BY <3>1, NoIndices, EmptySeq
  <2>2. CASE ~(i > n)
    <3> DEFINE j == After(buf, i)
    <3>1. i \in A /\ i \in 1 .. n
      BY <2>2
    <3>2. After(code, i) = j
      BY <1>4, <3>1 DEF After
    <3>3. j \in i + 1 .. i + 3 /\ (j \in A \/ j > n)
      BY <1>1, <3>1, AfterIs DEF Instructions
    <3>4. b[i] = ArgAt(buf, kind, i) \o b[j] /\ c[i] = ArgAt(code, kind, i) \o c[j]
      BY <1>2, <1>3, <2>2, <3>2 DEF Arguing
    <3> HIDE DEF j
    <3>5. b[j] \in Seq(S) /\ c[j] = Indices(T, b[j])
      <4>1. j \in i + 1 .. n + 3
        BY <3>1, <3>3
      <4> QED
        BY <1>5, <3>3, <4>1
    <3>6. c[j] \in Seq(IndexSet(T, S))
      BY <3>5, IndicesAre
    <3>7. CASE OpArgs(buf[i]) = <<kind>>
      <4> DEFINE x == buf[i + 1]
      <4>1. x \in S /\ code[i + 1] = IndexFor(T, x) /\ code[i] = buf[i]
        BY <1>4, <3>1, <3>7
      <4>2. b[i] = <<x>> \o b[j] /\ c[i] = <<IndexFor(T, x)>> \o c[j]
        BY <3>4, <3>7, <4>1 DEF ArgAt
      <4> HIDE DEF x
      <4>3. b[i] \in Seq(S)
        BY <3>5, <4>1, <4>2, ConsIs
      <4>4. Indices(T, <<x>> \o b[j]) = <<IndexFor(T, x)>> \o Indices(T, b[j])
        BY <3>5, <4>1, IndicesOfCons
      <4> QED
        BY <3>5, <4>2, <4>3, <4>4
    <3>8. CASE OpArgs(buf[i]) # <<kind>>
      <4>1. b[i] = <<>> \o b[j] /\ c[i] = <<>> \o c[j]
        BY <1>4, <3>1, <3>4, <3>8 DEF ArgAt
      <4>2. b[i] = b[j] /\ c[i] = c[j]
        BY <3>5, <3>6, <4>1, EmptyFirst
      <4> QED
        BY <3>5, <4>2
    <3> QED
      BY <3>7, <3>8
  <2> QED
    BY <2>1, <2>2
<1>6. 1 \in P
  <2> DEFINE m == n + 3
  <2>1. m \in Nat /\ 1 \in 1 .. m
    OBVIOUS
  <2>2. \A i \in 1 .. m : (\A j \in i + 1 .. m : j \in P) => i \in P
    BY <1>5
  <2> HIDE DEF P, m
  <2>3. \A i \in 1 .. m : i \in P
    BY <2>1, <2>2, InductDown
  <2> QED
    BY <2>1, <2>3
<1>7. 1 \in A \/ 1 > n
  BY <1>1 DEF Instructions
<1> QED
  BY <1>2, <1>3, <1>6, <1>7

\* A cell that is an argument is one of its opcode.
LEMMA OpcodeOfIs ==
  ASSUME NEW buf, NEW A, NEW i, \E p \in A : i - p \in 1 .. Len(OpArgs(buf[p]))
  PROVE  LET q == OpcodeOf(buf, A, i) IN q \in A /\ i - q \in 1 .. Len(OpArgs(buf[q]))
  BY DEF OpcodeOf

\* The code is what was generated, with indices for strings and identifiers.
Translates(buf, code, o, A) ==
  /\ Len(buf) \in Nat /\ Len(code) = Len(buf)
  /\ \A p \in A : /\ code[p] = buf[p]
                  /\ OpArgs(buf[p]) # <<>> => p + 1 \in 1 .. Len(buf)
                  /\ OpArgs(buf[p]) = <<"STRING">> =>
                       code[p + 1] = IndexFor(o.strings, buf[p + 1])
                  /\ OpArgs(buf[p]) = <<"IDENT">> =>
                       code[p + 1] = IndexFor(o.idents, buf[p + 1])

\* Opcodes stay, and strings and identifiers become places in the tables.
LEMMA TranslateIs ==
  ASSUME NEW g, Complete(g), NEW o, NEW lists, NEW A,
         A = ToSet(OpPositions(g.instr_buf)), NEW code, code = Translate(g, o, lists, A),
         NEW buf, buf = g.instr_buf
  PROVE  Translates(buf, code, o, A)
<1> DEFINE n == Len(buf)
           Cell(i, p) == IF i \in A THEN buf[i]
                         ELSE Operand(g, o, lists, OpArgs(buf[p])[i - p], i)
<1>1. n \in Nat /\ DOMAIN buf = 1 .. n
  <2>1. IsSequence(buf)
    BY DEF Complete
  <2>2. buf = [i \in 1 .. Len(buf) |-> buf[i]]
    BY <2>1 DEF IsSequence
  <2>3. DOMAIN buf = DOMAIN [i \in 1 .. Len(buf) |-> buf[i]]
    BY <2>2
  <2> QED
    BY <2>1, <2>3 DEF IsSequence
<1>2. code = [i \in 1 .. n |-> Cell(i, OpcodeOf(buf, A, i))]
  BY <1>1 DEF Translate
<1>3. Instructions(buf, n, A, 1)
  BY <1>1, OpPositionsAre
<1>4. \A p \in A : p \in 1 .. n /\ p + Len(OpArgs(buf[p])) <= n
  BY <1>3 DEF Complete, Instructions
<1>5. \A p \in A : code[p] = buf[p]
  BY <1>2, <1>4
<1>6. Len(code) = n
  <2> DEFINE S == {Cell(i, OpcodeOf(buf, A, i)) : i \in 1 .. n}
  <2>1. code \in [1 .. n -> S]
    BY <1>2
  <2> HIDE DEF S, n
  <2> QED
    BY <1>1, <2>1, LenOf
<1>7. ASSUME NEW p \in A, NEW kind \in {"STRING", "IDENT"}, OpArgs(buf[p]) = <<kind>>,
             NEW i, i = p + 1
      PROVE  code[i] = Operand(g, o, lists, kind, i)
  <2>1. Len(OpArgs(buf[p])) = 1 /\ i \in 1 .. n
    <3>1. Len(OpArgs(buf[p])) = 1
      BY <1>7
    <3>2. p \in 1 .. n /\ p + Len(OpArgs(buf[p])) <= n
      BY <1>4
    <3> QED
      BY <1>1, <1>7, <3>1, <3>2
  <2>2. After(buf, p) = p + 2
    BY <1>4, <2>1 DEF After
  <2>3. i \notin A
    <3>1. p \in Nat /\ p < i /\ ~(p + 2 <= i)
      BY <1>4, <1>7
    <3>2. i \in A => After(buf, p) <= i
      BY <1>3, <3>1 DEF Instructions
    <3> QED
      BY <2>2, <3>1, <3>2
  <2>4. i - p = 1 /\ i - p \in 1 .. Len(OpArgs(buf[p]))
    BY <1>4, <1>7, <2>1
  <2>5. ASSUME NEW q \in A, i - q \in 1 .. Len(OpArgs(buf[q]))
        PROVE  q = p
    <3> DEFINE len == Len(OpArgs(buf[q]))
    <3>1. len \in 0 .. 2
      BY OpArgsAre
    <3>2. i - q \in 1 .. len
      BY <2>5
    <3>3. After(buf, q) = q + 1 + len
      BY DEF After
    <3>4. q < p => After(buf, q) <= p
      BY <1>3 DEF Instructions
    <3>5. p \in Nat /\ q \in Nat
      BY <1>4
    <3> HIDE DEF len
    <3> QED
      BY <1>7, <3>1, <3>2, <3>3, <3>4, <3>5
  <2>6. OpcodeOf(buf, A, i) = p
    <3> DEFINE q == OpcodeOf(buf, A, i)
    <3>1. \E r \in A : i - r \in 1 .. Len(OpArgs(buf[r]))
      BY <2>4
    <3>2. q \in A /\ i - q \in 1 .. Len(OpArgs(buf[q]))
      BY <3>1, OpcodeOfIs
    <3> HIDE DEF q
    <3>3. q = p
      BY <2>5, <3>2
    <3> QED
      BY <3>3 DEF q
  <2>7. code[i] = Operand(g, o, lists, OpArgs(buf[p])[i - p], i)
    BY <1>2, <2>1, <2>3, <2>6
  <2>8. OpArgs(buf[p])[i - p] = kind
    BY <1>7, <2>4
  <2> QED
    BY <2>7, <2>8
<1>8. \A p \in A : OpArgs(buf[p]) # <<>> => p + 1 \in 1 .. n
  <2> TAKE p \in A
  <2> HAVE OpArgs(buf[p]) # <<>>
  <2>1. Len(OpArgs(buf[p])) \in 1 .. 2
    BY DEF OpArgs
  <2> DEFINE len == Len(OpArgs(buf[p]))
  <2>2. p \in 1 .. n /\ p + len <= n
    BY <1>4
  <2>3. len \in 1 .. 2
    BY <2>1
  <2> HIDE DEF len
  <2> QED
    BY <1>1, <2>2, <2>3
<1>9. \A p \in A : /\ OpArgs(buf[p]) = <<"STRING">> =>
                        code[p + 1] = IndexFor(o.strings, buf[p + 1])
                   /\ OpArgs(buf[p]) = <<"IDENT">> =>
                        code[p + 1] = IndexFor(o.idents, buf[p + 1])
  BY <1>7 DEF Operand
<1> QED
  BY <1>1, <1>5, <1>6, <1>8, <1>9 DEF Translates

\* A sequence in reverse is a sequence of the same elements.
LEMMA ReverseIs ==
  ASSUME NEW s, IsSequence(s), NEW S, \A k \in 1 .. Len(s) : s[k] \in S
  PROVE  Reverse(s) \in Seq(S)
<1> DEFINE n == Len(s)
<1>1. n \in Nat
  BY DEF IsSequence
<1>2. Reverse(s) = [i \in 1 .. n |-> s[n - i + 1]]
  BY DEF Reverse
<1>3. \A i \in 1 .. n : n - i + 1 \in 1 .. n
  BY <1>1
<1>4. Reverse(s) \in [1 .. n -> S]
  BY <1>2, <1>3
<1> HIDE DEF n
<1> QED
  BY <1>1, <1>4, LenOf

\* The indices of two sequences, one after the other
LEMMA IndicesOfConcat ==
  ASSUME NEW S, NEW s \in Seq(S), NEW t \in Seq(S), NEW T
  PROVE  Indices(T, s \o t) = Indices(T, s) \o Indices(T, t)
<1> DEFINE R == IndexSet(T, S)
           v == Indices(T, s)
           w == Indices(T, t)
           u == s \o t
           c == v \o w
<1>1. /\ v \in Seq(R) /\ Len(v) = Len(s)
      /\ \A k \in 1 .. Len(s) : v[k] = IndexFor(T, s[k])
  BY IndicesAre
<1>2. /\ w \in Seq(R) /\ Len(w) = Len(t)
      /\ \A k \in 1 .. Len(t) : w[k] = IndexFor(T, t[k])
  BY IndicesAre
<1>3. /\ v \in Seq(R) /\ Len(v) = Len(s) /\ w \in Seq(R) /\ Len(w) = Len(t)
      /\ \A k \in 1 .. Len(s) : v[k] = IndexFor(T, s[k])
      /\ \A k \in 1 .. Len(t) : w[k] = IndexFor(T, t[k])
  BY <1>1, <1>2
<1>4. Len(s) \in Nat /\ Len(t) \in Nat
  OBVIOUS
<1>5. /\ u \in Seq(S) /\ Len(u) = Len(s) + Len(t)
      /\ \A k \in 1 .. Len(s) + Len(t) :
           u[k] = IF k <= Len(s) THEN s[k] ELSE t[k - Len(s)]
  BY ConcatProperties
<1>6. ASSUME NEW q \in Seq(S)
      PROVE  /\ Len(Indices(T, q)) = Len(q) /\ Indices(T, q) \in Seq(R)
             /\ \A k \in 1 .. Len(q) : Indices(T, q)[k] = IndexFor(T, q[k])
  BY IndicesAre
<1> HIDE DEF R, v, w
<1>7. v \in Seq(R) /\ w \in Seq(R)
  BY <1>3
<1>8. /\ v \o w \in Seq(R) /\ Len(v \o w) = Len(v) + Len(w)
      /\ \A k \in 1 .. Len(v) + Len(w) :
           (v \o w)[k] = IF k <= Len(v) THEN v[k] ELSE w[k - Len(v)]
  BY ONLY <1>7, ConcatProperties
<1> HIDE DEF u, c
<1>9. /\ Len(Indices(T, u)) = Len(u) /\ Indices(T, u) \in Seq(R)
      /\ \A k \in 1 .. Len(u) : Indices(T, u)[k] = IndexFor(T, u[k])
  BY <1>5, <1>6
<1>10. /\ c \in Seq(R) /\ Len(c) = Len(v) + Len(w)
      /\ \A k \in 1 .. Len(v) + Len(w) :
           c[k] = IF k <= Len(v) THEN v[k] ELSE w[k - Len(v)]
  BY <1>8 DEF c
<1>11. \A k \in 1 .. Len(u) : Indices(T, u)[k] = c[k]
  <2> TAKE k \in 1 .. Len(u)
  <2>1. CASE k <= Len(s)
    <3>1. k \in 1 .. Len(s)
      BY <1>4, <2>1
    <3> QED
      BY <1>3, <1>4, <1>5, <1>10, <1>9, <2>1, <3>1
  <2>2. CASE ~(k <= Len(s))
    <3>1. k - Len(s) \in 1 .. Len(t)
      BY <1>4, <1>5, <2>2
    <3> QED
      BY <1>3, <1>4, <1>5, <1>10, <1>9, <2>2, <3>1
  <2> QED
    BY <2>1, <2>2
<1>12. Indices(T, u) = c
  <2> DEFINE d == Indices(T, u)
  <2> HIDE DEF d
  <2>1. d \in Seq(R) /\ c \in Seq(R) /\ Len(d) = Len(c)
    BY <1>3, <1>5, <1>10, <1>9 DEF d
  <2>2. \A k \in 1 .. Len(d) : d[k] = c[k]
    BY <1>9, <1>11 DEF d
  <2>3. d = c
    BY <2>1, <2>2, SeqEqual
  <2> QED
    BY <2>3 DEF d
<1> QED
  BY <1>12 DEF u, v, w, c

---------------------------------------------------------------------------
(* What final_pass() makes                                                 *)

\* A new method, and the object with the strings and identifiers that the
\* method uses added
Makes(o, p, m, strings, idents) ==
  /\ p = [o EXCEPT !.idents = AddAll(@, idents), !.strings = AddAll(@, strings)]
  /\ Len(strings) \in Nat /\ DOMAIN strings = 1 .. Len(strings)
  /\ Len(idents) \in Nat /\ DOMAIN idents = 1 .. Len(idents)
  /\ StringsOf(m) = Indices(p.strings, strings)
  /\ IdentsOf(m) = Indices(p.idents, idents)

\* An object has the four tables and nothing else.
IsObject(o) ==
  o = [strings |-> o.strings, idents |-> o.idents, methods |-> o.methods,
       vars |-> o.vars]

\* final_pass(): the method uses the strings and identifiers that were added to
\* the object, as often as they were added.
LEMMA FinalPassIs ==
  ASSUME NEW g, Complete(g), NEW o, IsObject(o),
         NEW I, o.idents \in Entries(I), NEW name,
         NEW new, new = FinalPass(g, o).object,
         NEW m, m = [FinalPass(g, o).method EXCEPT !.name = name]
  PROVE  /\ \E strings, idents : Makes(o, new, m, strings, idents)
         /\ m.name = name /\ m # NoItem
<1> DEFINE prog1 == g.the_prog
           ids == prog1.args.ids
           rest == prog1.args.rest
           names == prog1.vars
           buf == g.instr_buf
           at == OpPositions(buf)
           catches == SelectSeq(at, LAMBDA i : buf[i] = "CATCH" /\ buf[i + 2] # <<>>)
           lists == [j \in DOMAIN catches |-> catches[j] + 2]
           strings == ArgsOf(buf, "STRING")
           uses == ArgsOf(buf, "IDENT")
           idents == DeclaredNames(prog1) \o uses
           p == [o EXCEPT !.idents = AddAll(@, idents), !.strings = AddAll(@, strings)]
           code == Translate(g, p, lists, ToSet(at))
<1>1. /\ FinalPass(g, o).object = p
      /\ m.name = name /\ m.kind = "method" /\ m.opcodes = code
      /\ m.argnames = Indices(p.idents, Reverse(ids))
      /\ m.varnames = Indices(p.idents, Reverse(names))
      /\ m.rest = IF rest = NoName THEN NoRest ELSE IndexFor(p.idents, rest)
  BY DEF FinalPass
<1> HIDE DEF lists
<1>2. p.idents = AddAll(o.idents, idents) /\ p.strings = AddAll(o.strings, strings)
  BY DEF IsObject
<1> DEFINE S == {buf[i] : i \in 1 .. Len(buf)} \cup {ids[i] : i \in 1 .. Len(ids)}
                  \cup {names[i] : i \in 1 .. Len(names)} \cup {rest}
           T == p.idents
<1>3. /\ Len(buf) \in Nat /\ Len(code) = Len(buf)
      /\ \A q \in ToSet(at) :
           /\ code[q] = buf[q]
           /\ OpArgs(buf[q]) # <<>> => q + 1 \in 1 .. Len(buf)
           /\ OpArgs(buf[q]) = <<"STRING">> =>
                code[q + 1] = IndexFor(p.strings, buf[q + 1])
           /\ OpArgs(buf[q]) = <<"IDENT">> =>
                code[q + 1] = IndexFor(p.idents, buf[q + 1])
  <2> HIDE DEF p, lists
  <2>1. Translates(g.instr_buf, Translate(g, p, lists, ToSet(OpPositions(g.instr_buf))),
                   p, ToSet(OpPositions(g.instr_buf)))
    BY TranslateIs
  <2> QED
    BY <2>1 DEF Translates
<1>4. \A q \in ToSet(at) : OpArgs(buf[q]) # <<>> => buf[q + 1] \in S
  BY <1>3
<1>5. \A q : /\ OpArgs(q) = <<"STRING">> => OpArgs(q) # <<>>
             /\ OpArgs(q) = <<"IDENT">> => OpArgs(q) # <<>>
  OBVIOUS
<1>6. Reverse(ids) \in Seq(S) /\ Reverse(names) \in Seq(S) /\ rest \in S
  BY ReverseIs DEF Complete
<1> HIDE DEF S, p, code, prog1
<1>7. strings \in Seq(S) /\ StringsOf(m) = Indices(p.strings, strings)
  <2>1. /\ ArgsOf(buf, "STRING") \in Seq(S)
        /\ ArgsOf(code, "STRING") = Indices(p.strings, ArgsOf(buf, "STRING"))
    <3>1. SameBut(buf, code, "STRING", p.strings, S)
      BY <1>3, <1>4, <1>5 DEF SameBut
    <3> HIDE DEF buf
    <3> QED
      BY <1>3, <3>1, ArgsTranslate
  <2> QED
    BY <1>1, <2>1 DEF StringsOf
<1>8. uses \in Seq(S) /\ ArgsOf(m.opcodes, "IDENT") = Indices(T, uses)
  <2>1. /\ ArgsOf(buf, "IDENT") \in Seq(S)
        /\ ArgsOf(code, "IDENT") = Indices(p.idents, ArgsOf(buf, "IDENT"))
    <3>1. SameBut(buf, code, "IDENT", p.idents, S)
      BY <1>3, <1>4, <1>5 DEF SameBut
    <3> HIDE DEF buf
    <3> QED
      BY <1>3, <3>1, ArgsTranslate
  <2> QED
    BY <1>1, <2>1
<1> DEFINE more == IF rest = NoName THEN <<>> ELSE <<rest>>
           front == Reverse(ids) \o more
           declared == front \o Reverse(names)
<1>9. /\ more \in Seq(S) /\ front \in Seq(S) /\ declared \in Seq(S)
      /\ idents = declared \o uses /\ idents \in Seq(S)
  <2>1. more \in Seq(S)
    BY <1>6
  <2>2. front \in Seq(S)
    BY <1>6, <2>1, ConcatProperties
  <2>3. declared \in Seq(S)
    <3> HIDE DEF front
    <3> QED
      BY <1>6, <2>2, ConcatProperties
  <2>4. idents = declared \o uses
    BY DEF DeclaredNames
  <2>5. declared \o uses \in Seq(S)
    <3> HIDE DEF declared, uses
    <3> QED
      BY <1>8, <2>3, ConcatProperties
  <2> QED
    BY <2>1, <2>2, <2>3, <2>4, <2>5
<1> HIDE DEF idents, strings, uses
<1>10. (IF m.rest = NoRest THEN <<>> ELSE <<m.rest>>) = Indices(T, more)
  <2>1. CASE rest = NoName
    BY <1>1, <2>1, NoIndices
  <2>2. CASE rest # NoName
    <3>1. T \in Entries(I \cup S)
      <4>1. [item : I, refs : Nat] \subseteq [item : I \cup S, refs : Nat]
        OBVIOUS
      <4>2. o.idents \in Entries(I \cup S)
        BY <4>1, SeqMonotonic DEF Entries
      <4>3. Len(idents) \in Nat /\ DOMAIN idents = 1 .. Len(idents)
            /\ \A k \in 1 .. Len(idents) : idents[k] \in I \cup S
        BY <1>9
      <4>4. AddAll(o.idents, idents) \in Entries(I \cup S)
        BY <4>2, <4>3, AddAllIs
      <4> QED
        BY <1>2, <4>4
    <3>2. IndexFor(T, rest) \in 1 .. Len(T) + 1 /\ Len(T) \in Nat
      BY <3>1, IndexForIs, RefsAtIs
    <3>3. m.rest = IndexFor(T, rest) /\ m.rest # NoRest
      BY <1>1, <2>2, <3>2 DEF NoRest
    <3>4. Indices(T, <<rest>>) = <<IndexFor(T, rest)>>
      <4>1. <<rest>> \in Seq(S) /\ Len(<<rest>>) = 1 /\ <<rest>>[1] = rest
        BY <1>6
      <4>2. /\ Len(Indices(T, <<rest>>)) = 1
            /\ Indices(T, <<rest>>) \in Seq(IndexSet(T, S))
            /\ Indices(T, <<rest>>)[1] = IndexFor(T, rest)
        <5>1. /\ Len(Indices(T, <<rest>>)) = Len(<<rest>>)
              /\ Indices(T, <<rest>>) \in Seq(IndexSet(T, S))
              /\ \A k \in 1 .. Len(<<rest>>) : Indices(T, <<rest>>)[k] = IndexFor(T, <<rest>>[k])
          BY <4>1, IndicesAre
        <5> QED
          BY <4>1, <5>1
      <4> DEFINE v == Indices(T, <<rest>>)
      <4> HIDE DEF v
      <4>3. v = <<v[1]>>
        BY <4>2 DEF v
      <4> QED
        BY <4>2, <4>3 DEF v
    <3> QED
      BY <2>2, <3>3, <3>4
  <2> QED
    BY <2>1, <2>2
<1>11. IdentsOf(m) = Indices(T, idents)
  <2>1. Declared(m) = (Indices(T, Reverse(ids)) \o Indices(T, more)) \o Indices(T, Reverse(names))
    <3>1. m.argnames = Indices(T, Reverse(ids)) /\ m.varnames = Indices(T, Reverse(names))
      BY <1>1
    <3> HIDE DEF T, more
    <3> QED
      BY <1>10, <3>1 DEF Declared
  <2> HIDE DEF T, more
  <2>2. Indices(T, front) = Indices(T, Reverse(ids)) \o Indices(T, more)
    BY <1>6, <1>9, IndicesOfConcat
  <2> HIDE DEF front
  <2>3. Indices(T, declared) = Indices(T, front) \o Indices(T, Reverse(names))
    BY <1>6, <1>9, IndicesOfConcat
  <2> HIDE DEF declared
  <2>4. Indices(T, declared \o uses) = Indices(T, declared) \o Indices(T, uses)
    BY <1>8, <1>9, IndicesOfConcat
  <2> QED
    BY <1>8, <1>9, <2>1, <2>2, <2>3, <2>4 DEF IdentsOf
<1>12. Makes(o, p, m, strings, idents)
  <2>1. Len(strings) \in Nat /\ DOMAIN strings = 1 .. Len(strings)
    BY <1>7
  <2>2. Len(idents) \in Nat /\ DOMAIN idents = 1 .. Len(idents)
    BY <1>9
  <2>3. p = [o EXCEPT !.idents = AddAll(@, idents), !.strings = AddAll(@, strings)]
    BY DEF p
  <2> QED
    BY <1>7, <1>11, <2>1, <2>2, <2>3 DEF Makes
<1>13. m # NoItem
  BY <1>1 DEF NoItem
<1> QED
  BY <1>1, <1>12, <1>13

---------------------------------------------------------------------------
(* Method tables, and what the methods use                                 *)

\* A table is linked whatever more names and items there could be.
LEMMA WiderLinked ==
  ASSUME NEW N, NEW V, NEW t, Linked(t, N, V), NEW M, NEW W, N \subseteq M, V \subseteq W
  PROVE  Linked(t, M, W)
<1>1. PICK n \in Nat \ {0} : t \in TableOf(n, N, V) /\ LinkedOn(t, n, 1 .. n)
  BY DEF Linked
<1>2. SlotOf(n, N, V) \subseteq SlotOf(n, M, W)
  BY DEF SlotOf
<1> DEFINE A == SlotOf(n, N, V)
           B == SlotOf(n, M, W)
<1>3. /\ t.tab \in [1 .. n -> A] /\ t.hashtab \in [1 .. n -> 0 .. n] /\ t.blanks \in 0 .. n
      /\ t = [blanks |-> t.blanks, hashtab |-> t.hashtab, tab |-> t.tab]
  BY <1>1 DEF TableOf
<1>4. A \subseteq B
  BY <1>2
<1> HIDE DEF A, B
<1>5. t.tab \in [1 .. n -> B]
  BY <1>3, <1>4
<1>6. t \in TableOf(n, M, W)
  BY <1>3, <1>5 DEF TableOf, B
<1> QED
  BY <1>1, <1>6 DEF Linked

---------------------------------------------------------------------------
(* The table of methods: slots have the names of their methods. *)

\* A method table: every method is there once, under its own name.
MethodTable(t) ==
  TableLinked(t) /\ Unique(t) /\ \A c \in Contents(t) : c[2].name = c[1]
InstalledIn(t) == {c[2] : c \in Contents(t)}

\* A method is installed under its own name, which no other has.
LEMMA MethodAdds ==
  ASSUME HashOK, NEW t, MethodTable(t), NEW name, NEW m, m.name = name, m # NoItem,
         \A c \in Contents(t) : c[1] # name
  PROVE  /\ MethodTable(AddSlot(t, name, m))
         /\ InstalledIn(AddSlot(t, name, m)) = InstalledIn(t) \cup {m}
<1> DEFINE u == AddSlot(t, name, m)
<1>1. PICK N, V : NoIdent \in N /\ NoItem \in V /\ Linked(t, N, V)
  BY DEF MethodTable, TableLinked
<1> DEFINE M == N \cup {name}
           W == V \cup {m}
<1>2. Linked(t, M, W) /\ NoIdent \in M /\ NoItem \in W /\ name \in M /\ m \in W
  BY <1>1, WiderLinked
<1> HIDE DEF M, W
<1>3. Unique(t)
  BY DEF MethodTable
<1>4. /\ Linked(u, M, W) /\ Contents(u) = Contents(t) \cup {<<name, m>>} /\ Unique(u)
  BY <1>2, <1>3, AddSlotKeeps
<1> HIDE DEF u
<1>5. \A c \in Contents(u) : c[2].name = c[1]
  <2> TAKE c \in Contents(u)
  <2>1. c \in Contents(t) \/ c = <<name, m>>
    BY <1>4
  <2> QED
    BY <2>1 DEF MethodTable
<1>6. MethodTable(u)
  BY <1>2, <1>4, <1>5 DEF MethodTable, TableLinked
<1>7. InstalledIn(u) = InstalledIn(t) \cup {m}
  <2>1. <<name, m>> \in Contents(u) /\ <<name, m>>[2] = m
    BY <1>4
  <2>2. \A x \in InstalledIn(u) : x \in InstalledIn(t) \cup {m}
    <3> TAKE x \in InstalledIn(u)
    <3>1. PICK c \in Contents(u) : x = c[2]
      BY DEF InstalledIn
    <3>2. c \in Contents(t) \/ c = <<name, m>>
      BY <1>4
    <3> QED
      BY <3>1, <3>2 DEF InstalledIn
  <2>3. \A x \in InstalledIn(t) \cup {m} : x \in InstalledIn(u)
    BY <1>4, <2>1 DEF InstalledIn
  <2> QED
    BY <2>2, <2>3
<1> QED
  BY <1>6, <1>7 DEF u

\* The method of a name is taken from the table.
LEMMA MethodFrees ==
  ASSUME HashOK, NEW t, MethodTable(t), NEW name, Find(t, name) # 0,
         NEW m, m = t.tab[Find(t, name)].item
  PROVE  /\ MethodTable(FreeSlot(t, name))
         /\ m \in InstalledIn(t)
         /\ InstalledIn(FreeSlot(t, name)) = InstalledIn(t) \ {m}
         /\ \A d \in Contents(FreeSlot(t, name)) : d[1] # name
<1> DEFINE u == FreeSlot(t, name)
           c == <<name, m>>
<1>1. PICK N, V : NoIdent \in N /\ NoItem \in V /\ Linked(t, N, V)
  BY DEF MethodTable, TableLinked
<1>2. Unique(t) /\ \A d \in Contents(t) : d[2].name = d[1]
  BY DEF MethodTable
<1>3. /\ Linked(u, N, V) /\ Unique(u)
      /\ c \in Contents(t) /\ Contents(u) = Contents(t) \ {c}
      /\ \A d \in Contents(u) : d[1] # name
  BY <1>1, <1>2, FreeSlotKeeps
<1> HIDE DEF u
<1>4. MethodTable(u)
  BY <1>1, <1>2, <1>3 DEF MethodTable, TableLinked
<1>5. m.name = name /\ m \in InstalledIn(t)
  BY <1>2, <1>3 DEF InstalledIn
<1>6. InstalledIn(u) = InstalledIn(t) \ {m}
  <2>1. \A x \in InstalledIn(u) : x \in InstalledIn(t) \ {m}
    <3> TAKE x \in InstalledIn(u)
    <3>1. PICK d \in Contents(u) : x = d[2]
      BY DEF InstalledIn
    <3>2. d \in Contents(t) /\ d[1] # name /\ d[2].name = d[1]
      BY <1>2, <1>3
    <3> QED
      BY <1>5, <3>1, <3>2 DEF InstalledIn
  <2>2. \A x \in InstalledIn(t) \ {m} : x \in InstalledIn(u)
    <3> TAKE x \in InstalledIn(t) \ {m}
    <3>1. PICK d \in Contents(t) : x = d[2]
      BY DEF InstalledIn
    <3>2. d # c
      BY <3>1
    <3> QED
      BY <1>3, <3>1, <3>2 DEF InstalledIn
  <2> QED
    BY <2>1, <2>2
<1> QED
  BY <1>3, <1>4, <1>5, <1>6 DEF u

---------------------------------------------------------------------------
(* The tables of strings and identifiers *)

\* What the methods in L use of the string table, and of the identifier table
StringUses(L) == [m \in L |-> StringsOf(m)]
IdentUses(L) == [m \in L |-> IdentsOf(m)]

\* They count what the methods in L use, and what is pending.
KeptWith(o, L, strings, idents) ==
  /\ Readable(L, StringUses(L)) /\ Readable(L, IdentUses(L))
  /\ CountedWith(o.strings, L, StringUses(L), strings)
  /\ CountedWith(o.idents, L, IdentUses(L), idents)

\* The count is of what the methods use, and of nothing else.
LEMMA CountedAgree ==
  ASSUME NEW t, NEW L, NEW pl, NEW ql, NEW pending, \A m \in L : pl[m] = ql[m],
         CountedWith(t, L, pl, pending)
  PROVE  CountedWith(t, L, ql, pending)
<1>1. \A i : Uses(L, pl, i) = Uses(L, ql, i)
  BY UsesAgree
<1> QED
  BY <1>1 DEF CountedWith

\* method_delete_code_refs() discards each use that a method makes, once.
LEMMA RefsDiscarded ==
  ASSUME NEW o, IsObject(o), NEW L, NEW strings, NEW idents,
         IsFiniteSet(DOMAIN strings), IsFiniteSet(DOMAIN idents),
         KeptWith(o, L, strings, idents), NEW m \in L,
         NEW p, p = MethodDeleteCodeRefs(o, m)
  PROVE  /\ IsObject(p) /\ p.methods = o.methods /\ p.vars = o.vars
         /\ KeptWith(p, L \ {m}, strings, idents)
<1> DEFINE K == L \ {m}
<1>1. /\ IsObject(p) /\ p.methods = o.methods /\ p.vars = o.vars
      /\ p.strings = DiscardAll(o.strings, StringsOf(m))
      /\ p.idents = DiscardAll(o.idents, IdentsOf(m))
  BY DEF IsObject, MethodDeleteCodeRefs
<1>2. StringUses(L)[m] = StringsOf(m) /\ IdentUses(L)[m] = IdentsOf(m)
  BY DEF StringUses, IdentUses
<1>3. CountedWith(p.strings, K, StringUses(L), strings)
  <2>1. Readable(L, StringUses(L)) /\ CountedWith(o.strings, L, StringUses(L), strings)
    BY DEF KeptWith
  <2>2. CountedWith(DiscardAll(o.strings, StringUses(L)[m]), L \ {m}, StringUses(L), strings)
    BY <2>1, CountedDrops
  <2> QED
    BY <1>1, <1>2, <2>2
<1>4. CountedWith(p.idents, K, IdentUses(L), idents)
  <2>1. Readable(L, IdentUses(L)) /\ CountedWith(o.idents, L, IdentUses(L), idents)
    BY DEF KeptWith
  <2>2. CountedWith(DiscardAll(o.idents, IdentUses(L)[m]), L \ {m}, IdentUses(L), idents)
    BY <2>1, CountedDrops
  <2> QED
    BY <1>1, <1>2, <2>2
<1>5. /\ \A x \in K : StringUses(L)[x] = StringUses(K)[x]
      /\ \A x \in K : IdentUses(L)[x] = IdentUses(K)[x]
  BY DEF StringUses, IdentUses
<1>6. IsFiniteSet(K)
  <2>1. IsFiniteSet(L) /\ K \in SUBSET L
    BY DEF KeptWith, Readable
  <2> QED
    BY <2>1, FS_Subset
<1>7. Readable(K, StringUses(K)) /\ Readable(K, IdentUses(K))
  BY <1>5, <1>6 DEF KeptWith, Readable
<1> HIDE DEF K
<1>8. CountedWith(p.strings, K, StringUses(K), strings)
  BY <1>3, <1>5, CountedAgree
<1>9. CountedWith(p.idents, K, IdentUses(K), idents)
  BY <1>4, <1>5, CountedAgree
<1>10. KeptWith(p, K, strings, idents)
  BY <1>7, <1>8, <1>9 DEF KeptWith
<1> QED
  BY <1>1, <1>10 DEF K

---------------------------------------------------------------------------
(* Objects whose tables are right                                          *)

\* The object is right for the methods that are installed or held, and uses
\* that are pending.
Right(o, held, strings, idents) ==
  /\ IsObject(o) /\ MethodTable(o.methods) /\ TableLinked(o.vars)
  /\ KeptWith(o, InstalledIn(o.methods) \cup held, strings, idents)

\* object_del_method()
LEMMA DelKeeps ==
  ASSUME HashOK, NEW o, NEW held, NEW strings, NEW idents,
         IsFiniteSet(DOMAIN strings), IsFiniteSet(DOMAIN idents),
         Right(o, held, strings, idents), NEW name,
         NEW p, p = ObjectDelMethod(o, name, held)
  PROVE  /\ Right(p, held, strings, idents) /\ p.vars = o.vars
         /\ \A c \in Contents(p.methods) : c[1] # name
<1> DEFINE t == o.methods
           i == Find(t, name)
           L == InstalledIn(t) \cup held
<1>1. /\ IsObject(o) /\ MethodTable(t) /\ TableLinked(o.vars)
      /\ KeptWith(o, L, strings, idents)
  BY DEF Right
<1>2. CASE i = 0
  <2>1. p = o
    BY <1>2 DEF ObjectDelMethod, FindMethodLocal
  <2>2. PICK N, V : Linked(t, N, V)
    BY <1>1 DEF MethodTable, TableLinked
  <2>3. \A c \in Contents(t) : c[1] # name
    BY <1>2, <2>2, FindInContents
  <2> QED
    BY <2>1, <2>3
<1>3. CASE i # 0
  <2> DEFINE m == t.tab[i].item
             u == FreeSlot(t, name)
             q == [o EXCEPT !.methods = u]
  <2>1. p = MethodDiscard(q, m, held)
    BY <1>3 DEF ObjectDelMethod, FindMethodLocal, MethodAt
  <2>2. /\ MethodTable(u) /\ m \in InstalledIn(t)
        /\ InstalledIn(u) = InstalledIn(t) \ {m}
        /\ \A d \in Contents(u) : d[1] # name
    BY <1>1, <1>3, MethodFrees
  <2>3. /\ IsObject(q) /\ q.methods = u /\ q.vars = o.vars
        /\ q.strings = o.strings /\ q.idents = o.idents
    BY <1>1 DEF IsObject
  <2> HIDE DEF q, u
  <2>4. KeptWith(q, L, strings, idents)
    <3> HIDE DEF L
    <3> QED
      BY <1>1, <2>3 DEF KeptWith
  <2>5. CASE m \in held
    <3>1. p = q
      BY <2>1, <2>5 DEF MethodDiscard
    <3>2. InstalledIn(u) \cup held = L
      BY <2>2, <2>5
    <3>3. Right(p, held, strings, idents)
      BY <1>1, <2>2, <2>3, <2>4, <3>1, <3>2 DEF Right
    <3> QED
      BY <2>2, <2>3, <3>1, <3>3
  <2>6. CASE m \notin held
    <3>1. p = MethodDeleteCodeRefs(q, m)
      BY <2>1, <2>6 DEF MethodDiscard
    <3>2. InstalledIn(u) \cup held = L \ {m} /\ m \in L
      BY <2>2, <2>6
    <3> HIDE DEF m, L
    <3>3. /\ IsObject(p) /\ p.methods = q.methods /\ p.vars = q.vars
          /\ KeptWith(p, L \ {m}, strings, idents)
      BY <2>3, <2>4, <3>1, <3>2, RefsDiscarded
    <3>4. Right(p, held, strings, idents)
      BY <1>1, <2>2, <2>3, <3>2, <3>3 DEF Right
    <3> QED
      BY <2>2, <2>3, <3>3, <3>4
  <2> QED
    BY <2>5, <2>6
<1> QED
  BY <1>2, <1>3

\* The strings and identifiers of a new method are added, and pending.
LEMMA MadeKeeps ==
  ASSUME NEW o, Right(o, {}, <<>>, <<>>), NEW p, NEW m, NEW strings, NEW idents,
         Makes(o, p, m, strings, idents)
  PROVE  /\ Right(p, {}, StringsOf(m), IdentsOf(m)) /\ p.vars = o.vars
         /\ IsFiniteSet(DOMAIN StringsOf(m)) /\ IsFiniteSet(DOMAIN IdentsOf(m))
<1> DEFINE L == InstalledIn(o.methods) \cup {}
<1>1. /\ IsObject(o) /\ MethodTable(o.methods) /\ TableLinked(o.vars)
      /\ KeptWith(o, L, <<>>, <<>>)
  BY DEF Right
<1>2. /\ p.methods = o.methods /\ p.vars = o.vars /\ IsObject(p)
      /\ p.strings = AddAll(o.strings, strings) /\ p.idents = AddAll(o.idents, idents)
  BY <1>1 DEF Makes, IsObject
<1> HIDE DEF L
<1>3. CountedWith(p.strings, L, StringUses(L), StringsOf(m))
  <2>1. /\ Len(strings) \in Nat /\ DOMAIN strings = 1 .. Len(strings)
        /\ StringsOf(m) = Indices(p.strings, strings)
    BY DEF Makes
  <2>2. Readable(L, StringUses(L)) /\ Counted(o.strings, L, StringUses(L))
    BY <1>1 DEF KeptWith, Counted
  <2>3. CountedWith(AddAll(o.strings, strings), L, StringUses(L),
                    Indices(AddAll(o.strings, strings), strings))
    BY <2>1, <2>2, CountedAdds
  <2> QED
    BY <1>2, <2>1, <2>3
<1>4. CountedWith(p.idents, L, IdentUses(L), IdentsOf(m))
  <2>1. /\ Len(idents) \in Nat /\ DOMAIN idents = 1 .. Len(idents)
        /\ IdentsOf(m) = Indices(p.idents, idents)
    BY DEF Makes
  <2>2. Readable(L, IdentUses(L)) /\ Counted(o.idents, L, IdentUses(L))
    BY <1>1 DEF KeptWith, Counted
  <2>3. CountedWith(AddAll(o.idents, idents), L, IdentUses(L),
                    Indices(AddAll(o.idents, idents), idents))
    BY <2>1, <2>2, CountedAdds
  <2> QED
    BY <1>2, <2>1, <2>3
<1>5. KeptWith(p, L, StringsOf(m), IdentsOf(m))
  BY <1>1, <1>3, <1>4 DEF KeptWith
<1>6. Right(p, {}, StringsOf(m), IdentsOf(m))
  BY <1>1, <1>2, <1>5 DEF Right, L
<1>7. IsFiniteSet(DOMAIN StringsOf(m)) /\ IsFiniteSet(DOMAIN IdentsOf(m))
  <2>1. DOMAIN StringsOf(m) = 1 .. Len(strings) /\ DOMAIN IdentsOf(m) = 1 .. Len(idents)
        /\ Len(strings) \in Nat /\ Len(idents) \in Nat
    BY DEF Makes, Indices
  <2> QED
    BY <2>1, FS_Interval
<1> QED
  BY <1>2, <1>6, <1>7

\* object_add_method(), for a method without a frame
LEMMA AddKeeps ==
  ASSUME HashOK, NEW o, NEW name, NEW method, NEW m, m = [method EXCEPT !.name = name],
         m.name = name, m # NoItem, Right(o, {}, StringsOf(m), IdentsOf(m)),
         IsFiniteSet(DOMAIN StringsOf(m)), IsFiniteSet(DOMAIN IdentsOf(m)),
         NEW p, p = ObjectAddMethod(o, name, method, {})
  PROVE  Right(p, {}, <<>>, <<>>) /\ p.vars = o.vars
<1> DEFINE d == ObjectDelMethod(o, name, {})
           t == d.methods
           u == AddSlot(t, name, m)
           L == InstalledIn(t)
           K == L \cup {m}
<1>1. /\ Right(d, {}, StringsOf(m), IdentsOf(m)) /\ d.vars = o.vars
      /\ \A c \in Contents(t) : c[1] # name
  BY DelKeeps
<1>2. p = [d EXCEPT !.methods = u]
  BY DEF ObjectAddMethod
<1> HIDE DEF d
<1>3. /\ IsObject(d) /\ MethodTable(t) /\ TableLinked(d.vars)
      /\ KeptWith(d, L, StringsOf(m), IdentsOf(m))
  <2>1. InstalledIn(d.methods) \cup {} = L
    OBVIOUS
  <2> QED
    BY <1>1, <2>1 DEF Right
<1>4. MethodTable(u) /\ InstalledIn(u) = K
  <2>1. MethodTable(t) /\ \A c \in Contents(t) : c[1] # name
    BY <1>1, <1>3
  <2> HIDE DEF t
  <2> QED
    BY <2>1, MethodAdds
<1>5. m \notin L
  <2>1. \A c \in Contents(t) : c[2].name = c[1]
    BY <1>3 DEF MethodTable
  <2> QED
    BY <1>1, <2>1 DEF InstalledIn
<1> HIDE DEF u
<1>6. /\ IsObject(p) /\ p.methods = u /\ p.vars = d.vars
      /\ p.strings = d.strings /\ p.idents = d.idents
  BY <1>2, <1>3 DEF IsObject
<1>7. /\ \A x \in L : StringUses(L)[x] = StringUses(K)[x]
      /\ \A x \in L : IdentUses(L)[x] = IdentUses(K)[x]
      /\ StringUses(K)[m] = StringsOf(m) /\ IdentUses(K)[m] = IdentsOf(m)
  BY DEF StringUses, IdentUses
<1>8. Readable(K, StringUses(K)) /\ Readable(K, IdentUses(K))
  <2>1. IsFiniteSet(L) /\ Readable(L, StringUses(L)) /\ Readable(L, IdentUses(L))
    BY <1>3 DEF KeptWith, Readable
  <2>2. IsFiniteSet(K)
    <3> HIDE DEF L
    <3> QED
      BY <2>1, FS_AddElement
  <2> QED
    BY <1>7, <2>1, <2>2 DEF Readable
<1> HIDE DEF L
<1>9. Counted(p.strings, K, StringUses(K))
  <2>1. CountedWith(p.strings, L, StringUses(L), StringsOf(m))
    BY <1>3, <1>6 DEF KeptWith
  <2> DEFINE pl == StringUses(L)
             ql == StringUses(K)
  <2>2. /\ m \notin L /\ Readable(L \cup {m}, ql) /\ ql[m] = StringsOf(m)
        /\ \A x \in L : pl[x] = ql[x]
    BY <1>5, <1>7, <1>8
  <2>3. CountedWith(p.strings, L, pl, StringsOf(m))
    BY <2>1
  <2> HIDE DEF pl, ql
  <2>4. Counted(p.strings, L \cup {m}, ql)
    BY ONLY <2>2, <2>3, CountedJoins
  <2> QED
    BY <2>4 DEF ql
<1>10. Counted(p.idents, K, IdentUses(K))
  <2>1. CountedWith(p.idents, L, IdentUses(L), IdentsOf(m))
    BY <1>3, <1>6 DEF KeptWith
  <2> DEFINE pl == IdentUses(L)
             ql == IdentUses(K)
  <2>2. /\ m \notin L /\ Readable(L \cup {m}, ql) /\ ql[m] = IdentsOf(m)
        /\ \A x \in L : pl[x] = ql[x]
    BY <1>5, <1>7, <1>8
  <2>3. CountedWith(p.idents, L, pl, IdentsOf(m))
    BY <2>1
  <2> HIDE DEF pl, ql
  <2>4. Counted(p.idents, L \cup {m}, ql)
    BY ONLY <2>2, <2>3, CountedJoins
  <2> QED
    BY <2>4 DEF ql
<1>11. KeptWith(p, K, <<>>, <<>>)
  BY <1>8, <1>9, <1>10 DEF KeptWith, Counted
<1>12. InstalledIn(p.methods) \cup {} = K
  BY <1>4, <1>6
<1> QED
  BY <1>1, <1>3, <1>4, <1>6, <1>11, <1>12 DEF Right

\* A method that is neither installed nor held goes.
LEMMA ReleaseKeeps ==
  ASSUME NEW o, NEW held, NEW m, Right(o, held \cup {m}, <<>>, <<>>),
         NEW p, p = IF m \in InstalledIn(o.methods) THEN o ELSE MethodDiscard(o, m, held)
  PROVE  Right(p, held, <<>>, <<>>)
<1> DEFINE t == o.methods
           L == InstalledIn(t) \cup (held \cup {m})
           K == InstalledIn(t) \cup held
<1>1. /\ IsObject(o) /\ MethodTable(t) /\ TableLinked(o.vars)
      /\ KeptWith(o, L, <<>>, <<>>)
  BY DEF Right
<1>2. CASE m \in K
  <2>1. p = o /\ L = K
    BY <1>2 DEF MethodDiscard
  <2> HIDE DEF L
  <2> QED
    BY <1>1, <2>1 DEF Right
<1>3. CASE m \notin K
  <2>1. p = MethodDeleteCodeRefs(o, m) /\ m \in L /\ L \ {m} = K
    BY <1>3 DEF MethodDiscard
  <2> HIDE DEF L, K
  <2>2. /\ IsObject(p) /\ p.methods = o.methods /\ p.vars = o.vars
        /\ KeptWith(p, L \ {m}, <<>>, <<>>)
    BY <1>1, <2>1, RefsDiscarded, NoneFinite
  <2> QED
    BY <1>1, <2>1, <2>2 DEF Right, K
<1> QED
  BY <1>2, <1>3

---------------------------------------------------------------------------
(* The object of Program                                                   *)

\* The methods of the object are what its table has.
LEMMA MethodsAre == Methods = InstalledIn(object.methods)
<1> DEFINE t == object.methods
<1>1. Installed = Live(t)
  BY DEF Installed, Live
<1>2. Methods = {t.tab[i].item : i \in Live(t)}
  BY <1>1 DEF Methods, MethodAt
<1>3. \A x : x \in InstalledIn(t) <=> \E i \in Live(t) : x = t.tab[i].item
  <2> TAKE x
  <2>1. x \in InstalledIn(t) => \E i \in Live(t) : x = t.tab[i].item
    BY DEF InstalledIn, Contents
  <2>2. ASSUME NEW i \in Live(t), x = t.tab[i].item PROVE x \in InstalledIn(t)
    <3>1. <<t.tab[i].name, t.tab[i].item>> \in Contents(t)
      BY DEF Contents
    <3>2. <<t.tab[i].name, t.tab[i].item>>[2] = x
      BY <2>2
    <3> QED
      BY <3>1, <3>2 DEF InstalledIn
  <2> QED
    BY <2>1, <2>2
<1> QED
  BY <1>2, <1>3

\* What marks a slot without an item is no method.
LEMMA NoItemInstalled ==
  \A t : NoItem \notin InstalledIn(t)
  BY DEF InstalledIn, Contents, Live

\* The counts that TablesExact asks for are the ones kept here.
LEMMA CountsAre ==
  ASSUME NEW t, NEW L, L = LiveMethods, NEW pl, Readable(L, pl), Counted(t, L, pl)
  PROVE  Counts(t, pl)
<1>1. ASSUME NEW i
      PROVE  Uses(L, pl, i) = UsesOf(i, pl)
  BY DEF Uses, UsesBy, PlacesOf, UsesOf
<1>2. \A i \in DOMAIN t : t[i].refs = Cardinality(Uses(L, pl, i))
  <2> TAKE i \in DOMAIN t
  <2>1. PICK I : t \in Entries(I)
    BY DEF Counted, CountedWith
  <2>2. i \in 1 .. Len(t)
    BY <2>1, RefsAtIs
  <2>3. RefsAt(t, i) = Cardinality(Uses(L, pl, i)) + 0
    BY NoneFinite DEF Counted, CountedWith
  <2>4. Cardinality(Uses(L, pl, i)) \in Nat
    BY UsesFinite
  <2> QED
    BY <2>2, <2>3, <2>4 DEF RefsAt
<1> QED
  BY <1>1, <1>2 DEF Counts

\* TablesExact, from what is kept
LEMMA RightIsExact ==
  ASSUME HashOK, Right(object, Held(frames), <<>>, <<>>)
  PROVE  TablesExact
<1>1. LiveMethods = InstalledIn(object.methods) \cup Held(frames)
  BY MethodsAre DEF LiveMethods
<1>2. /\ MethodTable(object.methods) /\ TableLinked(object.vars)
      /\ KeptWith(object, LiveMethods, <<>>, <<>>)
  BY <1>1 DEF Right
<1>3. Threads(object.methods) /\ Threads(object.vars)
  BY <1>2, LinkedThreads DEF MethodTable, TableLinked
<1>4. /\ Counts(object.strings, StringUses(LiveMethods))
      /\ Counts(object.idents, IdentUses(LiveMethods))
  BY <1>2, CountsAre DEF KeptWith, Counted
<1> QED
  BY <1>3, <1>4 DEF TablesExact, StringUses, IdentUses

\* The object that a program begins with
LEMMA FirstIsRight ==
  ASSUME HashOK, NEW o, o = AddParams(NewObject, PARAMS)
  PROVE  /\ Right(o, {}, <<>>, <<>>)
         /\ \E N : NoIdent \in N /\ Linked(o.vars, N, Fresh)
<1>1. PICK N, t : /\ NoIdent \in N /\ Linked(t, N, Fresh)
                  /\ o = [NewObject EXCEPT !.vars = t]
  BY FirstObject
<1>2. /\ IsObject(o) /\ o.methods = NewTable /\ o.vars = t
      /\ o.strings = <<>> /\ o.idents = <<>>
  BY <1>1 DEF NewObject, IsObject
<1>3. /\ Linked(NewTable, {NoIdent}, {NoItem}) /\ Contents(NewTable) = {}
      /\ Unique(NewTable)
  BY NewTableIs
<1>4. MethodTable(o.methods) /\ InstalledIn(o.methods) = {}
  BY <1>2, <1>3 DEF MethodTable, TableLinked, InstalledIn
<1>5. TableLinked(o.vars)
  BY <1>1, <1>2 DEF TableLinked, Fresh
<1>6. IsFiniteSet({}) /\ Cardinality({}) = 0
  BY FS_EmptySet
<1>7. ASSUME NEW pl
      PROVE  Readable({}, pl) /\ CountedWith(<<>>, {}, pl, <<>>)
  <2>1. <<>> \in Entries({NoIdent}) /\ Len(<<>>) = 0
    BY EmptySeq DEF Entries
  <2>2. \A i : RefsAt(<<>>, i) = 0
    BY <2>1 DEF RefsAt
  <2>3. \A i : Uses({}, pl, i) = {}
    BY DEF Uses
  <2>4. \A i : RefsAt(<<>>, i) = Cardinality(Uses({}, pl, i)) + Cardinality(PlacesOf(<<>>, i))
    <3>1. \A i : Cardinality(PlacesOf(<<>>, i)) = 0
      BY NoneFinite
    <3>2. ASSUME NEW i
          PROVE RefsAt(<<>>, i) = Cardinality(Uses({}, pl, i)) + Cardinality(PlacesOf(<<>>, i))
      <4>1. RefsAt(<<>>, i) = 0 /\ Cardinality(Uses({}, pl, i)) = 0
        BY <1>6, <2>2, <2>3
      <4>2. Cardinality(PlacesOf(<<>>, i)) = 0
        BY <3>1
      <4> QED
        BY <4>1, <4>2
    <3> QED
      BY <3>2
  <2> QED
    BY <1>6, <2>1, <2>4 DEF Readable, CountedWith
<1>8. KeptWith(o, {}, <<>>, <<>>)
  BY <1>2, <1>7 DEF KeptWith
<1> QED
  BY <1>1, <1>2, <1>4, <1>5, <1>8 DEF Right

\* With the variables as they are at first, nothing is left out of PackRoundTrip.
LEMMA FreshVars ==
  ASSUME NEW N, Linked(object.vars, N, Fresh)
  PROVE  NoStringValues
<1> DEFINE t == object.vars
<1>1. PICK n \in Nat \ {0} : t \in TableOf(n, N, Fresh)
  BY DEF Linked
<1>2. \A i \in DOMAIN t.tab : t.tab[i].item \in Fresh
  BY <1>1 DEF TableOf, SlotOf
<1>3. \A i \in DOMAIN t.tab : t.tab[i].item # NoItem => t.tab[i].item.val = Zero
  BY <1>2 DEF Fresh, Var
<1>4. Type(Zero) = "INTEGER"
  BY DEF Type, Zero
<1> QED
  BY <1>3, <1>4 DEF NoStringValues
=============================================================================

---------------------------- MODULE OrderLemmas -----------------------------
(***************************************************************************)
(* Facts that several proofs share: the least and the greatest member of a *)
(* set, quotient and remainder, a sequence that an element is removed from,*)
(* and functions defined by recursion over a range.                        *)
(***************************************************************************)
EXTENDS Integers, Sequences, FiniteSets, SequencesExt, FiniteSetsExt,
        FiniteSetTheorems, SequenceTheorems, WellFoundedInduction, TLAPS

LEMMA LeastOf ==
  ASSUME NEW T, T \subseteq Nat, T # {}
  PROVE  \E x \in T : \A y \in T : x <= y
<1>1. PICK x \in T : \A y \in T : <<y, x>> \notin OpToRel(<, Nat)
  BY NatLessThanWellFounded, WFMin
<1>2. \A y \in T : ~(y < x)
  BY <1>1 DEF OpToRel
<1> QED BY <1>2

LEMMA GreatestOf ==
  ASSUME NEW n \in Nat, NEW T, T \subseteq 0..n, T # {}
  PROVE  \E x \in T : \A y \in T : y <= x
<1> DEFINE U == {u \in 0..n : n - u \in T}
<1>1. U \subseteq Nat /\ U # {}
  <2>1. PICK x \in T : TRUE
    OBVIOUS
  <2>2. n - x \in 0..n /\ n - (n - x) = x
    BY <2>1
  <2>3. n - x \in U
    BY <2>1, <2>2, Zenon
  <2>4. U \subseteq Nat
    OBVIOUS
  <2> QED BY <2>3, <2>4, Zenon
<1>2. \E x \in U : \A y \in U : x <= y
  <2> HIDE DEF U
  <2> QED BY <1>1, LeastOf
<1>3. PICK u \in U : \A y \in U : u <= y
  BY <1>2
<1>4. ASSUME NEW y \in T PROVE u <= n - y
  <2>1. n - y \in 0..n /\ n - (n - y) = y
    OBVIOUS
  <2>2. n - y \in U
    BY <2>1, Zenon
  <2> QED BY <1>3, <2>2, Zenon
<1>5. u \in 0..n /\ n - u \in T
  BY <1>3
<1> HIDE DEF U
<1>6. ASSUME NEW y \in T PROVE y <= n - u
  <2>1. u <= n - y /\ y \in Int /\ u \in Int
    BY <1>4, <1>5
  <2> QED BY <2>1
<1> QED BY <1>5, <1>6, Zenon

LEMMA QuotientIs ==
  ASSUME NEW M \in Nat \ {0}, NEW q \in Nat, NEW r \in 0..(M - 1), NEW s, s = q * M + r
  PROVE  s % M = r /\ s \div M = q
OBVIOUS

NoneTwice(q) == \A i, j \in 1..Len(q) : q[i] = q[j] => i = j

\* w is q without e: the others are kept, and e is gone if it was there once.
Without(q, e, w) ==
    /\ \A i \in 1..Len(q) : q[i] # e => \E j \in 1..Len(w) : w[j] = q[i]
    /\ \A j \in 1..Len(w) : \E i \in 1..Len(q) : w[j] = q[i]
    /\ NoneTwice(q) => NoneTwice(w) /\ \A j \in 1..Len(w) : w[j] # e

\* w is q without what is at its place k.
OneLess(q, k, w) ==
    Len(w) = Len(q) - 1 /\ \A i \in 1..(Len(q) - 1) : w[i] = IF i < k THEN q[i] ELSE q[i + 1]

LEMMA OneTaken ==
  ASSUME NEW S, NEW q \in Seq(S), NEW e, \E i \in 1..Len(q) : q[i] = e
  PROVE  \E k \in 1..Len(q) : q[k] = e /\ RemoveFirst(q, e) \in Seq(S) /\ OneLess(q, k, RemoveFirst(q, e))
<1> DEFINE I == {i \in 1..Len(q) : q[i] = e}
<1>1. I \subseteq Nat /\ I # {}
  OBVIOUS
<1>2. \E x \in I : \A y \in I : x <= y
  <2> HIDE DEF I
  <2> QED BY <1>1, LeastOf
<1>3. Min(I) \in I
  BY <1>2 DEF Min
<1>4. SelectInSeq(q, LAMBDA v : v = e) = Min(I)
  BY <1>1 DEF SelectInSeq
<1>5. RemoveFirst(q, e) = SubSeq(q, 1, Min(I) - 1) \o SubSeq(q, Min(I) + 1, Len(q))
  BY <1>4 DEF RemoveFirst, RemoveAt
<1> DEFINE k == Min(I)
<1>6. k \in 1..Len(q) /\ q[k] = e
  BY <1>3
<1> HIDE DEF k, I
<1> DEFINE a == SubSeq(q, 1, k - 1)
           b == SubSeq(q, k + 1, Len(q))
<1>7. /\ a \in Seq(S) /\ Len(a) = k - 1 /\ \A i \in 1..(k - 1) : a[i] = q[i]
      /\ b \in Seq(S) /\ Len(b) = Len(q) - k /\ \A i \in 1..(Len(q) - k) : b[i] = q[k + i]
  <2>1. /\ 1 \in Int /\ k - 1 \in Int /\ k + 1 \in Int /\ Len(q) \in Int
        /\ \A i \in 1..(k - 1) : i \in 1..Len(q)
        /\ \A i \in (k + 1)..Len(q) : i \in 1..Len(q)
        /\ \A i \in 1..(Len(q) - k) : (k + 1) + i - 1 = k + i
    BY <1>6
  <2>2. a \in Seq(S) /\ b \in Seq(S)
    BY <2>1, SubSeqProperties, ElementOfSeq
  <2>3. Len(a) = (IF 1 <= k - 1 THEN (k - 1) - 1 + 1 ELSE 0) /\ \A i \in 1..((k - 1) - 1 + 1) : a[i] = q[1 + i - 1]
    BY <2>1, SubSeqProperties, ElementOfSeq
  <2>4. Len(b) = (IF k + 1 <= Len(q) THEN Len(q) - (k + 1) + 1 ELSE 0)
        /\ \A i \in 1..(Len(q) - (k + 1) + 1) : b[i] = q[(k + 1) + i - 1]
    BY <2>1, SubSeqProperties, ElementOfSeq
  <2>5. Len(a) = k - 1 /\ Len(b) = Len(q) - k
    BY <1>6, <2>3, <2>4
  <2>6. \A i \in 1..(k - 1) : a[i] = q[i]
    BY <1>6, <2>3
  <2>7. \A i \in 1..(Len(q) - k) : b[i] = q[k + i]
    BY <1>6, <2>1, <2>4
  <2> QED BY <2>2, <2>5, <2>6, <2>7
<1>8. RemoveFirst(q, e) = a \o b
  BY <1>5 DEF k
<1> HIDE DEF a, b
<1>9. a \o b \in Seq(S) /\ Len(a \o b) = Len(q) - 1
      /\ \A i \in 1..(Len(q) - 1) : (a \o b)[i] = IF i < k THEN q[i] ELSE q[i + 1]
  <2>1. a \o b \in Seq(S) /\ Len(a \o b) = Len(a) + Len(b)
        /\ \A i \in 1..(Len(a) + Len(b)) : (a \o b)[i] = IF i <= Len(a) THEN a[i] ELSE b[i - Len(a)]
    BY <1>7, ConcatProperties
  <2>2. Len(a) + Len(b) = Len(q) - 1
    BY <1>6, <1>7
  <2>3. ASSUME NEW i \in 1..(Len(q) - 1), i < k
        PROVE  (a \o b)[i] = q[i]
    BY <1>6, <1>7, <2>1, <2>2, <2>3
  <2>4. ASSUME NEW i \in 1..(Len(q) - 1), ~(i < k)
        PROVE  (a \o b)[i] = q[i + 1]
    <3>1. ~(i <= Len(a)) /\ i - Len(a) \in 1..(Len(q) - k) /\ k + (i - Len(a)) = i + 1
      BY <1>6, <1>7, <2>4
    <3>2. (a \o b)[i] = b[i - Len(a)]
      BY <2>1, <2>2, <3>1
    <3>3. b[i - Len(a)] = q[k + (i - Len(a))]
      BY <1>7, <3>1
    <3> QED BY <3>1, <3>2, <3>3
  <2> QED BY <2>1, <2>2, <2>3, <2>4
<1> QED BY <1>6, <1>8, <1>9 DEF OneLess

LEMMA OthersStay ==
  ASSUME NEW S, NEW q \in Seq(S), NEW e
  PROVE  RemoveFirst(q, e) \in Seq(S) /\ Without(q, e, RemoveFirst(q, e))
<1>1. CASE ~(\E i \in 1..Len(q) : q[i] = e)
  BY <1>1 DEF RemoveFirst, Without
<1>2. CASE \E i \in 1..Len(q) : q[i] = e
  <2>w. PICK w : w = RemoveFirst(q, e)
    OBVIOUS
  <2>6. PICK k \in 1..Len(q) : q[k] = e /\ w \in Seq(S) /\ OneLess(q, k, w)
    BY <1>2, <2>w, OneTaken
  <2>9. w \in Seq(S) /\ Len(w) = Len(q) - 1
        /\ \A i \in 1..(Len(q) - 1) : w[i] = IF i < k THEN q[i] ELSE q[i + 1]
    BY <2>6 DEF OneLess
  <2>10. ASSUME NEW i \in 1..Len(q), q[i] # e
         PROVE  \E j \in 1..(Len(q) - 1) : w[j] = q[i]
    <3>1. CASE i < k
      BY <2>6, <2>9, <3>1, SMTT(30)
    <3>2. CASE i > k
      <4>1. i - 1 \in 1..(Len(q) - 1) /\ ~(i - 1 < k) /\ (i - 1) + 1 = i
        BY <2>6, <3>2
      <4> QED BY <2>9, <4>1
    <3>3. i < k \/ i > k
      BY <2>6, <2>10
    <3> QED BY <3>1, <3>2, <3>3
  <2>11. ASSUME NEW j \in 1..(Len(q) - 1)
         PROVE  \E i \in 1..Len(q) : w[j] = q[i]
    <3>1. j \in 1..Len(q) /\ j + 1 \in 1..Len(q)
      OBVIOUS
    <3> QED BY <2>9, <3>1
  <2>12. ASSUME NoneTwice(q)
         PROVE  /\ NoneTwice(w)
                /\ \A j \in 1..(Len(q) - 1) : w[j] # e
    <3> DEFINE o(i) == IF i < k THEN i ELSE i + 1
    <3>1. \A i \in 1..(Len(q) - 1) : o(i) \in 1..Len(q) /\ o(i) # k /\ w[i] = q[o(i)]
      BY <2>6, <2>9
    <3>2. \A i, j \in 1..(Len(q) - 1) : o(i) = o(j) => i = j
      BY <2>6
    <3> HIDE DEF o
    <3>3. ASSUME NEW i \in 1..(Len(q) - 1), NEW j \in 1..(Len(q) - 1), w[i] = w[j]
          PROVE  i = j
      BY <2>12, <3>1, <3>2, <3>3, Zenon DEF NoneTwice
    <3>4. ASSUME NEW j \in 1..(Len(q) - 1) PROVE w[j] # e
      BY <2>6, <2>12, <3>1, Zenon DEF NoneTwice
    <3>5. Len(w) = Len(q) - 1
      BY <2>9
    <3> QED BY <3>3, <3>4, <3>5, Zenon DEF NoneTwice
  <2>13. Without(q, e, w)
    <3>1. Len(w) = Len(q) - 1
      BY <2>9
    <3> QED BY <2>10, <2>11, <2>12, <3>1, Zenon DEF Without
  <2> QED BY <2>w, <2>9, <2>13
<1> QED BY <1>1, <1>2

\* What holds of 0 and is handed on holds up to n.
LEMMA StepByStep ==
  ASSUME NEW n \in Nat, NEW T, 0 \in T, \A i \in 1..n : i - 1 \in T => i \in T
  PROVE  0..n \subseteq T
<1> DEFINE U == {i \in 0..n : i \notin T}
<1>1. SUFFICES ASSUME U # {} PROVE FALSE
  OBVIOUS
<1>2. U \subseteq Nat
  OBVIOUS
<1>3. PICK u \in U : \A y \in U : u <= y
  <2> HIDE DEF U
  <2> QED BY <1>1, <1>2, LeastOf
<1>4. u \in 1..n /\ u \notin T
  BY <1>3
<1>5. u - 1 \in 0..n /\ ~(u <= u - 1)
  BY <1>4
<1>6. u - 1 \in T
  BY <1>3, <1>5
<1> QED BY <1>4, <1>6

\* A recursive function over 0..n, given by its value at 0 and by its step G, exists.
HasRecursion(n, S, s, G) ==
  \E f \in [0..n -> S] : f = [i \in 0..n |-> IF i = 0 THEN s ELSE G[<<f[i - 1], i>>]]

LEMMA RecursionExists ==
  ASSUME NEW n \in Nat, NEW S, NEW s \in S, NEW G \in [S \X (1..n) -> S]
  PROVE  HasRecursion(n, S, s, G)
<1> DEFINE UpTo(k, f) == /\ f \in [0..k -> S] /\ f[0] = s
                         /\ \A i \in 1..k : f[i] = G[<<f[i - 1], i>>]
           T == {k \in 0..n : \E f : UpTo(k, f)}
<1>1. 0 \in T
  <2>1. UpTo(0, [i \in 0..0 |-> s])
    OBVIOUS
  <2>2. 0 \in 0..n
    OBVIOUS
  <2> HIDE DEF UpTo
  <2> QED BY <2>1, <2>2, Zenon
<1>2. ASSUME NEW k \in 1..n, k - 1 \in T PROVE k \in T
  <2>1. PICK f : UpTo(k - 1, f)
    BY <1>2
  <2>2. k - 1 \in 0..(k - 1) /\ f[k - 1] \in S
    BY <2>1
  <2>3. PICK y \in S : y = G[<<f[k - 1], k>>]
    BY <2>2
  <2> DEFINE g == [i \in 0..k |-> IF i = k THEN y ELSE f[i]]
  <2>4. \A i \in 0..(k - 1) : g[i] = f[i] /\ f[i] \in S
    BY <2>1
  <2>5. g \in [0..k -> S] /\ g[k] = y
    <3>1. k \in 0..k /\ \A i \in 0..k : i = k \/ i \in 0..(k - 1)
      OBVIOUS
    <3>2. \A i \in 0..k : (IF i = k THEN y ELSE f[i]) \in S
      BY <2>4, <3>1
    <3> QED BY <3>1, <3>2, Zenon
  <2>6. g[0] = s
    BY <2>1, <2>4
  <2> HIDE DEF g
  <2>7. ASSUME NEW i \in 1..k PROVE g[i] = G[<<g[i - 1], i>>]
    <3>1. i - 1 \in 0..(k - 1) /\ g[i - 1] = f[i - 1]
      BY <2>4
    <3>2. CASE i = k
      BY <2>3, <2>5, <3>1, <3>2
    <3>3. CASE i # k
      <4>1. i \in 1..(k - 1) /\ i \in 0..(k - 1)
        BY <3>3
      <4> QED BY <2>1, <2>4, <3>1, <4>1
    <3> QED BY <3>2, <3>3
  <2>8. UpTo(k, g)
    BY <2>5, <2>6, <2>7
  <2> QED BY <2>8
<1>3. n \in T
  <2>1. n \in 0..n
    OBVIOUS
  <2> HIDE DEF T
  <2>2. 0..n \subseteq T
    BY <1>1, <1>2, StepByStep
  <2> QED BY <2>1, <2>2
<1>4. PICK f : UpTo(n, f)
  BY <1>3
<1>5. \A i \in 0..n : f[i] = IF i = 0 THEN s ELSE G[<<f[i - 1], i>>]
  BY <1>4
<1>6. f = [i \in 0..n |-> IF i = 0 THEN s ELSE G[<<f[i - 1], i>>]]
  BY <1>4, <1>5
<1> QED BY <1>4, <1>6 DEF HasRecursion
=============================================================================

-------------------------- MODULE TigerTreeProofs ---------------------------
(***************************************************************************)
(* The stack of interim nodes of lib/tigertree.c is large enough, and what *)
(* tt_digest stores is the root of the THEX tree of module TreeHash, for   *)
(* every stream, every way to cut it into calls and every value of the     *)
(* constants.                                                              *)
(***************************************************************************)
EXTENDS TigerTree, Integers, FiniteSets, FiniteSetTheorems, WellFoundedInduction, TLAPS

(* Induction: a set that contains 0 and the successor of each of its       *)
(* numbers contains every number.                                          *)
LEMMA SetInduction ==
  ASSUME NEW S, 0 \in S, \A n \in Nat : n \in S => n + 1 \in S
  PROVE  Nat \subseteq S
<1> DEFINE T == Nat \ S
<1> SUFFICES ASSUME T # {} PROVE FALSE
  OBVIOUS
<1>1. PICK x \in T : \A y \in T : ~ (<<y, x>> \in OpToRel(<, Nat))
  BY WFMin, NatLessThanWellFounded
<1>2. \A y \in T : ~ (y < x)
  BY <1>1 DEF OpToRel
<1>3. x # 0 /\ x - 1 \in Nat /\ x - 1 \notin T
  BY <1>2
<1> QED
  BY <1>3

(* 2^n is the number of subsets of 1..n.                                   *)
LEMMA CountSubsets ==
  ASSUME NEW n \in Nat
  PROVE  /\ IsFiniteSet(SUBSET (1..n))
         /\ Cardinality(SUBSET (1..n)) = 2^n
<1>1. IsFiniteSet(1..n) /\ Cardinality(1..n) = n
  BY FS_Interval
<1> QED
  BY <1>1, FS_SUBSET

(* Adding an element to a set doubles the number of its subsets.           *)
LEMMA DoubleSubsets ==
  ASSUME NEW n \in Nat
  PROVE  2^(n + 1) = 2^n + 2^n
<1> DEFINE A == SUBSET (1..n)
           B == {s \cup {n + 1} : s \in A}
           f == [s \in A |-> s \cup {n + 1}]
<1>1. IsFiniteSet(A) /\ Cardinality(A) = 2^n
  BY CountSubsets
<1>2. f \in Bijection(A, B)
  <2>1. f \in [A -> B]
    OBVIOUS
  <2>2. \A s, t \in A : f[s] = f[t] => s = t
    <3>1. \A s \in A : n + 1 \notin s
      OBVIOUS
    <3> QED
      BY <3>1
  <2>3. \A t \in B : \E s \in A : f[s] = t
    OBVIOUS
  <2> QED
    BY <2>1, <2>2, <2>3 DEF Bijection, Injection, Surjection, IsInjective
<1>3. IsFiniteSet(B) /\ Cardinality(B) = 2^n
  <2>1. ExistsBijection(A, B)
    BY <1>2 DEF ExistsBijection
  <2> HIDE DEF A, B
  <2> QED
    BY <1>1, <2>1, FS_Bijection
<1>4. A \cap B = {}
  OBVIOUS
<1>5. A \cup B = SUBSET (1..(n + 1))
  <2>1. ASSUME NEW s \in SUBSET (1..(n + 1)) PROVE s \in A \cup B
    <3>1. CASE n + 1 \in s
      <4>1. s \ {n + 1} \in A
        OBVIOUS
      <4>2. s = (s \ {n + 1}) \cup {n + 1}
        BY <3>1
      <4> QED
        BY <4>1, <4>2
    <3>2. CASE n + 1 \notin s
      <4>1. s \in A
        BY <3>2
      <4> QED
        BY <4>1
    <3> QED
      BY <3>1, <3>2
  <2>2. ASSUME NEW s \in A \cup B PROVE s \in SUBSET (1..(n + 1))
    OBVIOUS
  <2> QED
    BY <2>1, <2>2
<1>6. Cardinality(SUBSET (1..(n + 1))) = 2^(n + 1)
  BY CountSubsets
<1>7. Cardinality(A \cup B) = 2^n + 2^n - 0
  <2> HIDE DEF A, B
  <2>1. Cardinality(A \cap B) = 0
    BY <1>4, FS_EmptySet
  <2> QED
    BY <1>1, <1>3, <2>1, FS_Union
<1>8. 2^n \in Nat
  <2> HIDE DEF A
  <2> QED
    BY <1>1, FS_CardinalityType
<1>9. Cardinality(SUBSET (1..(n + 1))) = Cardinality(A \cup B)
  BY <1>5
<1> HIDE DEF A, B
<1> QED
  BY <1>6, <1>7, <1>8, <1>9

(* Powers of two are positive, and doubled by adding one to the exponent.  *)
LEMMA PowerOfTwo ==
  /\ 2^0 = 1
  /\ \A n \in Nat : 2^n \in Nat \ {0} /\ 2^(n + 1) = 2 * 2^n
<1>1. 2^0 = 1
  <2>1. Cardinality(SUBSET (1..0)) = 2^0
    BY CountSubsets
  <2>2. SUBSET (1..0) = {{}}
    OBVIOUS
  <2> QED
    BY <2>1, <2>2, FS_Singleton
<1>2. ASSUME NEW n \in Nat PROVE 2^n \in Nat \ {0}
  <2> DEFINE A == SUBSET (1..n)
  <2>1. IsFiniteSet(A) /\ Cardinality(A) = 2^n
    BY CountSubsets
  <2>2. A # {}
    OBVIOUS
  <2> HIDE DEF A
  <2> QED
    BY <2>1, <2>2, FS_EmptySet, FS_CardinalityType
<1> QED
  BY <1>1, <1>2, DoubleSubsets

-----------------------------------------------------------------------------

-----------------------------------------------------------------------------
(* The recursive function ones exists: its values up to any N do, and two  *)
(* such tables agree where both are defined.                               *)

Table(g, N) ==
  /\ g \in [0..N -> Nat]
  /\ g[0] = 0
  /\ \A n \in 1..N : g[n] = g[n \div 2] + (n % 2)

LEMMA TableExists ==
  \A N \in Nat : \E g : Table(g, N)
<1> DEFINE S == {N \in Nat : \E g : Table(g, N)}
<1>1. 0 \in S
  <2>1. Table([n \in 0..0 |-> 0], 0)
    BY DEF Table
  <2> QED
    BY <2>1
<1>2. ASSUME NEW N \in Nat, N \in S PROVE N + 1 \in S
  <2>1. PICK g : Table(g, N)
    BY <1>2
  <2> DEFINE m == N + 1
             h == [n \in 0..m |-> IF n = m THEN g[m \div 2] + (m % 2) ELSE g[n]]
  <2>2. m \div 2 \in 0..N /\ m % 2 \in Nat
    OBVIOUS
  <2>3. h \in [0..m -> Nat]
    BY <2>1, <2>2 DEF Table
  <2>4. h[0] = 0
    BY <2>1 DEF Table
  <2>5. \A n \in 1..m : h[n] = h[n \div 2] + (n % 2)
    <3> TAKE n \in 1..m
    <3>1. n \div 2 \in 0..N /\ n \div 2 # m /\ n \div 2 \in 0..m
      OBVIOUS
    <3>2. h[n \div 2] = g[n \div 2]
      BY <3>1
    <3>3. CASE n = m
      BY <3>2, <3>3
    <3>4. CASE n # m
      <4>1. n \in 1..N /\ h[n] = g[n]
        BY <3>4
      <4> QED
        BY <4>1, <3>2, <2>1 DEF Table
    <3> QED
      BY <3>3, <3>4
  <2> HIDE DEF h
  <2>6. Table(h, m)
    BY <2>3, <2>4, <2>5 DEF Table
  <2> QED
    BY <2>6
<1> HIDE DEF S
<1>3. Nat \subseteq S
  BY <1>1, <1>2, SetInduction
<1> QED
  BY <1>3 DEF S

LEMMA TablesAgree ==
  ASSUME NEW N \in Nat, NEW M \in Nat, NEW g, NEW h, Table(g, N), Table(h, M)
  PROVE  \A n \in Nat : n <= N /\ n <= M => g[n] = h[n]
<1> DEFINE S == {k \in Nat : \A n \in 0..k : n <= N /\ n <= M => g[n] = h[n]}
<1>1. 0 \in S
  BY DEF Table
<1>2. ASSUME NEW k \in Nat, k \in S PROVE k + 1 \in S
  <2> SUFFICES ASSUME k + 1 <= N, k + 1 <= M PROVE g[k + 1] = h[k + 1]
    BY <1>2
  <2>1. (k + 1) \div 2 \in 0..k
    OBVIOUS
  <2>2. g[(k + 1) \div 2] = h[(k + 1) \div 2]
    BY <1>2, <2>1
  <2>3. k + 1 \in 1..N /\ k + 1 \in 1..M
    OBVIOUS
  <2> QED
    BY <2>2, <2>3 DEF Table
<1> HIDE DEF S
<1>3. Nat \subseteq S
  BY <1>1, <1>2, SetInduction
<1> QED
  BY <1>3 DEF S

LEMMA OnesDefined ==
  /\ ones \in [Nat -> Nat]
  /\ ones[0] = 0
  /\ \A n \in Nat : ones[2 * n] = ones[n] /\ ones[2 * n + 1] = ones[n] + 1
<1> DEFINE g(n) == CHOOSE t : Table(t, n)
           F == [n \in Nat |-> g(n)[n]]
<1>1. \A n \in Nat : Table(g(n), n)
  BY TableExists
<1> HIDE DEF g
<1>2. F \in [Nat -> Nat]
  BY <1>1 DEF Table
<1>3. F[0] = 0
  BY <1>1 DEF Table
<1>4. \A n \in Nat \ {0} : F[n] = F[n \div 2] + (n % 2)
  <2> TAKE n \in Nat \ {0}
  <2>1. n \div 2 \in Nat /\ n \div 2 <= n /\ n \in 1..n
    OBVIOUS
  <2>2. g(n)[n] = g(n)[n \div 2] + (n % 2)
    BY <1>1, <2>1 DEF Table
  <2>3. g(n)[n \div 2] = g(n \div 2)[n \div 2]
    BY <1>1, <2>1, TablesAgree
  <2> QED
    BY <2>1, <2>2, <2>3
<1> HIDE DEF F
<1>5. F = [n \in Nat |-> IF n = 0 THEN 0 ELSE F[n \div 2] + (n % 2)]
  BY <1>2, <1>3, <1>4
<1>6. ones = [n \in Nat |-> IF n = 0 THEN 0 ELSE ones[n \div 2] + (n % 2)]
  BY <1>5 DEF ones
<1>7. \A n \in Nat : ones[n] = IF n = 0 THEN 0 ELSE ones[n \div 2] + (n % 2)
  BY <1>6
<1> DEFINE S == {k \in Nat : \A n \in 0..k : ones[n] \in Nat}
<1>8. 0 \in S
  BY <1>7
<1>9. ASSUME NEW k \in Nat, k \in S PROVE k + 1 \in S
  <2>1. (k + 1) \div 2 \in 0..k /\ (k + 1) % 2 \in Nat
    OBVIOUS
  <2>2. ones[k + 1] \in Nat
    BY <1>7, <1>9, <2>1
  <2> QED
    BY <1>9, <2>2
<1> HIDE DEF S
<1>10. Nat \subseteq S
  BY <1>8, <1>9, SetInduction
<1>11. \A n \in Nat : ones[n] \in Nat
  BY <1>10 DEF S
<1>12. ones \in [Nat -> Nat] /\ ones[0] = 0
  BY <1>6, <1>7, <1>11
<1>13. ASSUME NEW n \in Nat PROVE ones[2 * n] = ones[n] /\ ones[2 * n + 1] = ones[n] + 1
  <2>1. (2 * n) \div 2 = n /\ (2 * n) % 2 = 0
    OBVIOUS
  <2>2. (2 * n + 1) \div 2 = n /\ (2 * n + 1) % 2 = 1
    OBVIOUS
  <2>3. 2 * n \in Nat /\ 2 * n + 1 \in Nat /\ 2 * n + 1 # 0 /\ (2 * n = 0 => n = 0)
    OBVIOUS
  <2>4. ones[2 * n + 1] = ones[n] + 1
    BY <1>7, <2>2, <2>3
  <2>5. ones[2 * n] = ones[n]
    <3>1. CASE 2 * n = 0
      BY <2>3, <3>1
    <3>2. CASE 2 * n # 0
      <4>1. ones[2 * n] = ones[n] + 0
        BY <1>7, <2>1, <2>3, <3>2
      <4> QED
        BY <4>1, <1>11
    <3> QED
      BY <3>1, <3>2
  <2> QED
    BY <2>4, <2>5
<1> QED
  BY <1>12, <1>13

(* A number below 2^K has at most K one-bits, and K only if it is 2^K - 1. *)
LEMMA OnesBound ==
  ASSUME NEW K \in Nat, NEW n \in Nat, n < 2^K
  PROVE  ones[n] <= K /\ (n + 1 < 2^K => ones[n] < K)
<1> DEFINE S == {k \in Nat : \A m \in Nat : m < 2^k =>
                               ones[m] <= k /\ (m + 1 < 2^k => ones[m] < k)}
<1>1. 0 \in S
  BY PowerOfTwo, OnesDefined
<1>2. ASSUME NEW k \in Nat, k \in S PROVE k + 1 \in S
  <2> SUFFICES ASSUME NEW m \in Nat, m < 2^(k + 1)
               PROVE  ones[m] <= k + 1 /\ (m + 1 < 2^(k + 1) => ones[m] < k + 1)
    OBVIOUS
  <2>1. 2^(k + 1) = 2 * 2^k /\ 2^k \in Nat
    BY PowerOfTwo
  <2>2. PICK h \in Nat : m = 2 * h \/ m = 2 * h + 1
    <3>1. m \div 2 \in Nat /\ (m = 2 * (m \div 2) \/ m = 2 * (m \div 2) + 1)
      OBVIOUS
    <3> QED
      BY <3>1
  <2>3. h < 2^k
    BY <2>1, <2>2
  <2>4. ones[h] \in Nat /\ ones[h] <= k /\ (h + 1 < 2^k => ones[h] < k)
    BY <1>2, <2>3, OnesDefined
  <2>5. CASE m = 2 * h
    BY <2>4, <2>5, OnesDefined
  <2>6. CASE m = 2 * h + 1
    <3>1. m + 1 < 2^(k + 1) => h + 1 < 2^k
      BY <2>1, <2>6
    <3> QED
      BY <2>4, <2>6, <3>1, OnesDefined
  <2> QED
    BY <2>2, <2>5, <2>6
<1> HIDE DEF S
<1>3. Nat \subseteq S
  BY <1>1, <1>2, SetInduction
<1> QED
  BY <1>3 DEF S

-----------------------------------------------------------------------------
(* The sequences that the actions build from the stack.                    *)

LEMMA PushNode ==
  ASSUME NEW s, s \in Seq(Range(s)), NEW e
  PROVE  LET t == Append(s, e) IN
         /\ t \in Seq(Range(t))
         /\ Len(s) \in Nat
         /\ Len(t) = Len(s) + 1
         /\ \A i \in 1..Len(s) : t[i] = s[i]
         /\ t[Len(t)] = e
<1> DEFINE R == Range(s) \cup {e}
           t == Append(s, e)
<1>1. s \in Seq(R) /\ e \in R
  OBVIOUS
<1> HIDE DEF R
<1>2. /\ t \in Seq(R) /\ Len(s) \in Nat /\ Len(t) = Len(s) + 1
      /\ \A i \in 1..Len(s) : t[i] = s[i]
      /\ t[Len(t)] = e
  BY <1>1
<1> HIDE DEF t
<1>3. t \in Seq(Range(t))
  <2>1. t = [i \in 1..Len(t) |-> t[i]] /\ Len(t) \in Nat
    BY <1>2
  <2>2. \A i \in 1..Len(t) : t[i] \in Range(t)
    BY <2>1 DEF Range
  <2> QED
    BY <2>1, <2>2
<1> QED
  BY <1>2, <1>3 DEF t

LEMMA JoinTopNodes ==
  ASSUME NEW s, s \in Seq(Range(s)), Len(s) >= 2, NEW e
  PROVE  LET t == Append(SubSeq(s, 1, Len(s) - 2), e) IN
         /\ t \in Seq(Range(t))
         /\ Len(s) \in Nat
         /\ Len(t) = Len(s) - 1
         /\ \A i \in 1..(Len(s) - 2) : t[i] = s[i]
         /\ t[Len(t)] = e
<1> DEFINE p == SubSeq(s, 1, Len(s) - 2)
<1>1. /\ p \in Seq(Range(s)) /\ Len(s) \in Nat /\ Len(p) = Len(s) - 2
      /\ \A i \in 1..(Len(s) - 2) : p[i] = s[i]
  <2> DEFINE R == Range(s)
  <2>1. s \in Seq(R)
    OBVIOUS
  <2> HIDE DEF R
  <2>2. p = [i \in 1..(Len(s) - 2) |-> s[i]]
    BY <2>1
  <2>3. Len(s) \in Nat /\ Len(s) - 2 \in Nat /\ \A i \in 1..Len(s) : s[i] \in R
    BY <2>1
  <2> DEFINE n == Len(s) - 2
  <2> HIDE DEF p
  <2>4. p \in Seq(R) /\ Len(p) = Len(s) - 2
    <3>1. n \in Nat /\ p = [i \in 1..n |-> s[i]] /\ \A i \in 1..n : s[i] \in R
      BY <2>2, <2>3
    <3> HIDE DEF n
    <3>2. p \in Seq(R) /\ Len(p) = n
      BY <3>1
    <3> QED
      BY <3>2 DEF n
  <2> QED
    BY <2>2, <2>3, <2>4 DEF R
<1> HIDE DEF p
<1>2. p \in Seq(Range(p))
  <2>1. p = [i \in 1..Len(p) |-> p[i]] /\ Len(p) \in Nat
    BY <1>1
  <2>2. \A i \in 1..Len(p) : p[i] \in Range(p)
    BY <2>1 DEF Range
  <2> QED
    BY <2>1, <2>2
<1>3. LET t == Append(p, e) IN
      /\ t \in Seq(Range(t))
      /\ Len(t) = Len(p) + 1
      /\ \A i \in 1..Len(p) : t[i] = p[i]
      /\ t[Len(t)] = e
  BY <1>2, PushNode
<1> QED
  BY <1>1, <1>3 DEF p

-----------------------------------------------------------------------------
(* The stack conjuncts of the invariant, and the two ways to change them.  *)

LEMMA PushKeepsTiling ==
  ASSUME NodesOK, Tiling, count \in Nat, NEW h,
         nodes' = Append(nodes, [first |-> count, size |-> 1, hash |-> h]),
         count' = count + 1
  PROVE  NodesOK' /\ Tiling' /\ Len(nodes') = Len(nodes) + 1 /\ Len(nodes) \in Nat
<1> DEFINE e == [first |-> count, size |-> 1, hash |-> h]
           d == Len(nodes)
<1>1. e.first = count /\ e.size = 1
  OBVIOUS
<1>2. nodes' = Append(nodes, e)
  OBVIOUS
<1> HIDE DEF e
<1>3. /\ nodes' \in Seq(Range(nodes'))
      /\ d \in Nat
      /\ Len(nodes') = d + 1
      /\ \A i \in 1..d : nodes'[i] = nodes[i]
      /\ nodes'[d + 1] = e
  BY <1>2, PushNode DEF NodesOK
<1>4. DOMAIN nodes = 1..d /\ DOMAIN nodes' = 1..(d + 1)
  BY <1>3 DEF NodesOK
<1>5. NodesOK'
  <2> SUFFICES ASSUME NEW i \in 1..(d + 1)
               PROVE  nodes'[i].first \in Nat /\ nodes'[i].size \in Nat \ {0}
    BY <1>3, <1>4 DEF NodesOK
  <2>1. CASE i = d + 1
    BY <2>1, <1>1, <1>3
  <2>2. CASE i \in 1..d
    BY <2>2, <1>3, <1>4 DEF NodesOK
  <2> QED
    BY <1>3, <2>1, <2>2
<1>6. (Len(nodes') = 0) = (count' = 0)
  BY <1>3
<1>7. Len(nodes') > 0 => nodes'[1].first = 0
                         /\ nodes'[Len(nodes')].first + nodes'[Len(nodes')].size = count'
  BY <1>1, <1>3 DEF Tiling
<1>8. ASSUME NEW i \in 1..(Len(nodes') - 1)
      PROVE  nodes'[i + 1].first = nodes'[i].first + nodes'[i].size
  <2>1. CASE i = d
    BY <2>1, <1>1, <1>3, <1>8 DEF Tiling
  <2>2. CASE i # d
    <3>1. i \in 1..(d - 1) /\ i \in 1..d /\ i + 1 \in 1..d
      BY <2>2, <1>3
    <3> QED
      BY <3>1, <1>3 DEF Tiling
  <2> QED
    BY <2>1, <2>2
<1> QED
  BY <1>3, <1>5, <1>6, <1>7, <1>8 DEF Tiling

LEMMA ComposeKeepsTiling ==
  ASSUME NodesOK, Tiling, count \in Nat, Len(nodes) >= 2, Compose, count' = count
  PROVE  NodesOK' /\ Tiling' /\ Len(nodes') = Len(nodes) - 1 /\ Len(nodes) \in Nat
<1> DEFINE d == Len(nodes)
           e == Joined(nodes[d - 1], nodes[d])
<1>1. e.first = nodes[d - 1].first /\ e.size = nodes[d - 1].size + nodes[d].size
  BY DEF Joined
<1>2. nodes' = Append(SubSeq(nodes, 1, d - 2), e)
  BY DEF Compose
<1> HIDE DEF e
<1>3. /\ nodes' \in Seq(Range(nodes'))
      /\ d \in Nat
      /\ Len(nodes') = d - 1
      /\ \A i \in 1..(d - 2) : nodes'[i] = nodes[i]
      /\ nodes'[d - 1] = e
  BY <1>2, JoinTopNodes DEF NodesOK
<1>4. DOMAIN nodes = 1..d /\ DOMAIN nodes' = 1..(d - 1)
  BY <1>3 DEF NodesOK
<1>5. /\ \A i \in 1..d : nodes[i].first \in Nat /\ nodes[i].size \in Nat \ {0}
      /\ nodes[d].first = nodes[d - 1].first + nodes[d - 1].size
      /\ nodes[d].first + nodes[d].size = count
      /\ d - 1 \in 1..d /\ d \in 1..d
  <2>1. d - 1 \in 1..d /\ d \in 1..d /\ d - 1 \in 1..(d - 1) /\ (d - 1) + 1 = d /\ d > 0
    BY <1>3
  <2>2. nodes[(d - 1) + 1].first = nodes[d - 1].first + nodes[d - 1].size
    BY <2>1 DEF Tiling
  <2>3. nodes[d].first + nodes[d].size = count
    BY <2>1 DEF Tiling
  <2>4. \A i \in 1..d : nodes[i].first \in Nat /\ nodes[i].size \in Nat \ {0}
    BY <1>4 DEF NodesOK
  <2> QED
    BY <2>1, <2>2, <2>3, <2>4
<1>6. NodesOK'
  <2> SUFFICES ASSUME NEW i \in 1..(d - 1)
               PROVE  nodes'[i].first \in Nat /\ nodes'[i].size \in Nat \ {0}
    BY <1>3, <1>4 DEF NodesOK
  <2>1. CASE i = d - 1
    BY <2>1, <1>1, <1>3, <1>5, SMTT(30)
  <2>2. CASE i # d - 1
    <3>1. i \in 1..(d - 2) /\ i \in 1..d
      BY <2>2, <1>3
    <3> QED
      BY <3>1, <1>3, <1>5
  <2> QED
    BY <2>1, <2>2
<1>7. (Len(nodes') = 0) = (count' = 0)
  BY <1>3 DEF Tiling
<1>8. nodes'[1].first = 0
  <2>1. CASE d = 2
    BY <2>1, <1>1, <1>3 DEF Tiling
  <2>2. CASE d # 2
    BY <2>2, <1>3 DEF Tiling
  <2> QED
    BY <2>1, <2>2
<1>9. nodes'[d - 1].first + nodes'[d - 1].size = count'
  BY <1>1, <1>3, <1>5
<1>10. ASSUME NEW i \in 1..(d - 2)
       PROVE  nodes'[i + 1].first = nodes'[i].first + nodes'[i].size
  <2>1. nodes[i + 1].first = nodes[i].first + nodes[i].size
    BY <1>3 DEF Tiling
  <2>2. CASE i = d - 2
    <3>1. i + 1 = d - 1
      BY <1>3, <2>2
    <3> QED
      BY <2>1, <3>1, <1>1, <1>3
  <2>3. CASE i # d - 2
    <3>1. i + 1 \in 1..(d - 2)
      BY <2>3, <1>3
    <3> QED
      BY <2>1, <3>1, <1>3
  <2> QED
    BY <2>2, <2>3
<1> QED
  BY <1>3, <1>6, <1>7, <1>8, <1>9, <1>10 DEF Tiling

(* The bytes of c whole leaves and r more fit into M leaves only if there  *)
(* is a leaf left.                                                         *)
LEMMA LeafLeft ==
  ASSUME NEW c \in Nat, NEW r \in Nat \ {0}, c * BlockSize + r <= MaxBytes
  PROVE  c < MaxBlocks
<1> SUFFICES ASSUME c >= MaxBlocks PROVE FALSE
  BY BoundAssumption
<1>1. c * BlockSize >= BlockSize * MaxBlocks
  BY BlockAssumption, BoundAssumption
<1> QED
  BY <1>1, BlockAssumption, BoundAssumption

(* Every store to the stack finds a slot.                                  *)
LEMMA Room ==
  ASSUME IndInv, (pc = "block") \/ (pc = "carry" /\ b % 2 = 0) \/ (pc = "fold" /\ Len(nodes) > 1)
  PROVE  Len(nodes) + 1 <= StackSize
<1> DEFINE K == StackSize - 1
<1>1. K \in Nat /\ MaxBlocks < 2^K /\ MaxBlocks \in Nat /\ 2^K \in Nat
  BY StackAssumption, BoundAssumption, PowerOfTwo
<1>2. count \in Nat /\ count <= MaxBlocks /\ b \in Nat
  BY DEF IndInv, TypeOK
<1> HIDE DEF K
<1>3. \A n \in Nat : n <= MaxBlocks => ones[n] \in Nat /\ ones[n] <= K
  <2> SUFFICES ASSUME NEW n \in Nat, n <= MaxBlocks PROVE ones[n] \in Nat /\ ones[n] <= K
    OBVIOUS
  <2>1. n < 2^K
    BY <1>1
  <2> QED
    BY <1>1, <2>1, OnesBound, OnesDefined
<1>4. CASE pc = "block"
  BY <1>2, <1>3, <1>4, StackAssumption DEF IndInv, Depth, K
<1>5. CASE pc = "carry" /\ b % 2 = 0
  <2>1. b - 1 \in Nat /\ (b - 1) + 1 < 2^K /\ Len(nodes) = ones[b - 1] + 1
    BY <1>1, <1>2, <1>5 DEF IndInv, Depth
  <2>2. ones[b - 1] < K /\ ones[b - 1] \in Nat
    BY <1>1, <2>1, OnesBound, OnesDefined
  <2> QED
    BY <2>1, <2>2, StackAssumption DEF K
<1>6. CASE pc = "fold" /\ Len(nodes) > 1
  BY <1>2, <1>3, <1>6, StackAssumption DEF IndInv, Depth, K
<1> QED
  BY <1>4, <1>5, <1>6

-----------------------------------------------------------------------------
(* The context that tt_init leaves satisfies the invariant.                *)
LEMMA InitInv == Init => IndInv
<1> SUFFICES ASSUME Init PROVE IndInv
  OBVIOUS
<1>1. nodes = <<>> /\ nodes \in Seq(Range(nodes)) /\ DOMAIN nodes = {} /\ Len(nodes) = 0
  BY DEF Init, Range
<1>2. /\ count = 0 /\ index = 0 /\ b = 0 /\ len = 0 /\ fed = 0 /\ used = 0
      /\ pc = "ready" /\ ~final /\ final \in BOOLEAN
  BY DEF Init
<1>3. TypeOK
  <2>1. NodesOK
    BY <1>1 DEF NodesOK
  <2>2. block \in [1..BlockSize -> Nat]
    BY BlockAssumption DEF Init
  <2> QED
    BY <1>2, <2>1, <2>2, BlockAssumption DEF TypeOK
<1>4. StackFits
  BY StackAssumption DEF Init, StackFits
<1>5. Tiling
  BY <1>1 DEF Init, Tiling
<1>6. Accounted
  BY BlockAssumption DEF Init, Accounted
<1>7. Depth
  BY <1>1, OnesDefined DEF Init, Depth
<1> QED
  BY <1>3, <1>4, <1>5, <1>6, <1>7, <1>2, BoundAssumption DEF IndInv

(* memmove into the leaf keeps its type.                                   *)
LEMMA CopiedType ==
  ASSUME block \in [1..BlockSize -> Nat], NEW at \in Nat, NEW n \in Nat, NEW consumed \in Nat
  PROVE  Copied(at, n, consumed) \in [1..BlockSize -> Nat]
BY BlockAssumption DEF Copied

(* A step that leaves the stack alone leaves its tiling alone.             *)
LEMMA SameStack ==
  ASSUME IndInv, UNCHANGED <<nodes, count, used>>
  PROVE  NodesOK' /\ Tiling' /\ StackFits'
BY DEF IndInv, TypeOK, Tiling, StackFits, NodesOK

(* tt_update: the three ways it can begin.                                 *)
LEMMA UpdateInv ==
  ASSUME IndInv, NEW n \in Chunks, UpdatePartial(n) \/ UpdateFill(n) \/ UpdateAligned(n)
  PROVE  IndInv'
<1>1. n \in Nat /\ BlockSize \in Nat \ {0} /\ MaxBytes \in Nat
  BY ChunkAssumption, BlockAssumption, BoundAssumption
<1>2. /\ count \in Nat /\ b \in Nat /\ len \in Nat /\ fed \in Nat /\ used \in Nat
      /\ index \in 0..BlockSize /\ final \in BOOLEAN
      /\ block \in [1..BlockSize -> Nat]
      /\ pc = "ready" /\ ~final
      /\ fed = count * BlockSize + index /\ index < BlockSize
      /\ count <= MaxBlocks
      /\ Len(nodes) = ones[count]
  BY DEF IndInv, TypeOK, Accounted, Depth, UpdatePartial, UpdateFill, UpdateAligned
<1>3. count * BlockSize \in Nat
  BY <1>1, <1>2
<1>4. NodesOK' /\ Tiling' /\ StackFits'
  BY SameStack DEF UpdatePartial, UpdateFill, UpdateAligned
<1>5. CASE UpdatePartial(n)
  <2>1. block' \in [1..BlockSize -> Nat]
    <3>1. index \in Nat /\ n \in Nat /\ fed \in Nat
      BY <1>1, <1>2, <1>5
    <3>2. Copied(index, n, fed) \in [1..BlockSize -> Nat]
      BY <1>2, <3>1, CopiedType
    <3> QED
      BY <3>2, <1>5 DEF UpdatePartial
  <2>2. TypeOK'
    BY <1>1, <1>2, <1>4, <1>5, <2>1 DEF UpdatePartial, TypeOK
  <2>3. Accounted'
    BY <1>1, <1>2, <1>3, <1>5 DEF UpdatePartial, Accounted
  <2>4. Depth'
    BY <1>2, <1>5 DEF UpdatePartial, Depth
  <2> QED
    BY <1>2, <1>4, <1>5, <2>2, <2>3, <2>4 DEF UpdatePartial, IndInv
<1>6. CASE UpdateFill(n)
  <2>1. block' \in [1..BlockSize -> Nat]
    <3>1. index \in Nat /\ BlockSize - index \in Nat /\ fed \in Nat
      BY <1>1, <1>2, <1>6
    <3>2. Copied(index, BlockSize - index, fed) \in [1..BlockSize -> Nat]
      BY <1>2, <3>1, CopiedType
    <3> QED
      BY <3>2, <1>6 DEF UpdateFill
  <2>2. TypeOK'
    BY <1>1, <1>2, <1>4, <1>6, <2>1 DEF UpdateFill, TypeOK
  <2>3. Accounted'
    BY <1>1, <1>2, <1>3, <1>6 DEF UpdateFill, Accounted
  <2>4. Depth'
    BY <1>2, <1>6 DEF UpdateFill, Depth
  <2>5. count < MaxBlocks
    <3>1. count * BlockSize + BlockSize <= MaxBytes
      BY <1>1, <1>2, <1>3, <1>6 DEF UpdateFill
    <3> QED
      BY <1>1, <1>2, <3>1, LeafLeft
  <2> QED
    BY <1>2, <1>4, <1>6, <2>2, <2>3, <2>4, <2>5 DEF UpdateFill, IndInv
<1>7. CASE UpdateAligned(n)
  <2>1. TypeOK'
    BY <1>1, <1>2, <1>4, <1>7 DEF UpdateAligned, TypeOK
  <2>2. Accounted'
    BY <1>1, <1>2, <1>3, <1>7 DEF UpdateAligned, Accounted
  <2>3. Depth'
    BY <1>2, <1>7 DEF UpdateAligned, Depth
  <2> QED
    BY <1>2, <1>4, <1>7, <2>1, <2>2, <2>3 DEF UpdateAligned, IndInv
<1> QED
  BY <1>5, <1>6, <1>7

(* The loop of tt_update: a whole leaf, or the leftover.                   *)
LEMMA ChunkInv ==
  ASSUME IndInv, WholeBlock \/ Leftover
  PROVE  IndInv'
<1>1. BlockSize \in Nat \ {0}
  BY BlockAssumption
<1>2. /\ count \in Nat /\ b \in Nat /\ len \in Nat /\ fed \in Nat /\ used \in Nat
      /\ index \in 0..BlockSize /\ final \in BOOLEAN
      /\ block \in [1..BlockSize -> Nat]
      /\ pc = "chunks" /\ ~final
      /\ fed = count * BlockSize + len
      /\ fed <= MaxBytes
      /\ count <= MaxBlocks
      /\ Len(nodes) = ones[count]
  BY DEF IndInv, TypeOK, Accounted, Depth, WholeBlock, Leftover
<1>3. count * BlockSize \in Nat /\ fed - len \in Nat
  BY <1>1, <1>2
<1>4. NodesOK' /\ Tiling' /\ StackFits'
  BY SameStack DEF WholeBlock, Leftover
<1>5. CASE WholeBlock
  <2>1. block' \in [1..BlockSize -> Nat]
    <3>1. 0 \in Nat /\ BlockSize \in Nat /\ fed - len \in Nat
      BY <1>1, <1>2, <1>3, <1>5
    <3>2. Copied(0, BlockSize, fed - len) \in [1..BlockSize -> Nat]
      BY <1>2, <3>1, CopiedType
    <3> QED
      BY <3>2, <1>5 DEF WholeBlock
  <2>2. TypeOK'
    BY <1>1, <1>2, <1>4, <1>5, <2>1 DEF WholeBlock, TypeOK
  <2>3. Accounted'
    BY <1>1, <1>2, <1>3, <1>5 DEF WholeBlock, Accounted
  <2>4. Depth'
    BY <1>2, <1>5 DEF WholeBlock, Depth
  <2>5. count < MaxBlocks
    <3>1. count * BlockSize + BlockSize <= MaxBytes
      BY <1>1, <1>2, <1>3, <1>5, BoundAssumption DEF WholeBlock
    <3> QED
      BY <1>1, <1>2, <3>1, LeafLeft
  <2> QED
    BY <1>2, <1>4, <1>5, <2>2, <2>3, <2>4, <2>5 DEF WholeBlock, IndInv
<1>6. CASE Leftover
  <2>1. block' \in [1..BlockSize -> Nat]
    <3>1. 0 \in Nat /\ len \in Nat /\ fed - len \in Nat
      BY <1>1, <1>2, <1>3, <1>6
    <3>2. Copied(0, len, fed - len) \in [1..BlockSize -> Nat]
      BY <1>2, <3>1, CopiedType
    <3> QED
      BY <3>2, <1>6 DEF Leftover
  <2>2. TypeOK'
    BY <1>1, <1>2, <1>4, <1>6, <2>1 DEF Leftover, TypeOK
  <2>3. Accounted'
    BY <1>1, <1>2, <1>3, <1>6 DEF Leftover, Accounted
  <2>4. Depth'
    BY <1>2, <1>6 DEF Leftover, Depth
  <2> QED
    BY <1>2, <1>4, <1>6, <2>2, <2>3, <2>4 DEF Leftover, IndInv
<1> QED
  BY <1>5, <1>6

(* tt_block: a leaf is pushed.                                             *)
LEMMA HashBlockInv ==
  ASSUME IndInv, HashBlock
  PROVE  IndInv'
<1>1. BlockSize \in Nat \ {0} /\ MaxBlocks \in Nat
  BY BlockAssumption, BoundAssumption
<1>2. /\ count \in Nat /\ b \in Nat /\ len \in Nat /\ fed \in Nat /\ used \in Nat
      /\ index \in 0..BlockSize /\ final \in BOOLEAN
      /\ block \in [1..BlockSize -> Nat]
      /\ pc = "block"
      /\ ~final => fed = count * BlockSize + index + len /\ index = BlockSize
      /\ fed <= MaxBytes
      /\ count < MaxBlocks
      /\ Len(nodes) = ones[count]
      /\ used <= StackSize
  BY DEF IndInv, TypeOK, Accounted, Depth, StackFits, HashBlock
<1>3. NodesOK' /\ Tiling' /\ Len(nodes') = Len(nodes) + 1 /\ Len(nodes) \in Nat
  BY PushKeepsTiling DEF IndInv, TypeOK, HashBlock
<1>4. count' = count + 1 /\ b' = count' /\ pc' = "carry" /\ WriteAtTop
      /\ UNCHANGED <<block, index, hash, final, len, fed>>
  BY DEF HashBlock
<1>5. used' \in Nat /\ used' <= StackSize
  BY <1>2, <1>3, <1>4, Room DEF WriteAtTop
<1>6. TypeOK'
  BY <1>2, <1>3, <1>4, <1>5 DEF TypeOK
<1>7. Accounted'
  <2>1. (count + 1) * BlockSize = count * BlockSize + BlockSize /\ count * BlockSize \in Nat
    BY <1>1, <1>2
  <2> QED
    BY <1>1, <1>2, <1>4, <2>1 DEF Accounted
<1>8. Depth'
  BY <1>2, <1>3, <1>4 DEF Depth
<1> QED
  BY <1>1, <1>2, <1>3, <1>4, <1>5, <1>6, <1>7, <1>8 DEF IndInv, StackFits

(* The carry loop of tt_block.                                             *)
LEMMA CarryInv ==
  ASSUME IndInv, Carry
  PROVE  IndInv' /\ Len(nodes) >= 2
<1>1. /\ count \in Nat /\ b \in Nat /\ len \in Nat /\ fed \in Nat /\ used \in Nat
      /\ index \in 0..BlockSize /\ final \in BOOLEAN
      /\ block \in [1..BlockSize -> Nat]
      /\ pc = "carry" /\ b % 2 = 0 /\ b > 0 /\ b <= count
      /\ ones[b] = ones[count] /\ Len(nodes) = ones[b - 1] + 1
      /\ used <= StackSize /\ NodesOK /\ Tiling
  BY DEF IndInv, TypeOK, Depth, StackFits, Carry
<1>2. PICK m \in Nat \ {0} : b = 2 * m
  <2>1. b \div 2 \in Nat \ {0} /\ b = 2 * (b \div 2)
    BY <1>1
  <2> QED
    BY <2>1
<1>3. b \div 2 = m
  BY <1>2
<1>4. ones[m] = ones[b] /\ ones[b - 1] = ones[m - 1] + 1 /\ ones[m - 1] \in Nat
  <2>1. m - 1 \in Nat /\ b - 1 = 2 * (m - 1) + 1
    BY <1>2
  <2> QED
    BY <1>2, <2>1, OnesDefined
<1>5. Len(nodes) >= 2
  BY <1>1, <1>4
<1>6. Compose /\ b' = m /\ UNCHANGED <<count, block, index, hash, pc, final, len, fed>>
  BY <1>3 DEF Carry
<1>7. NodesOK' /\ Tiling' /\ Len(nodes') = Len(nodes) - 1 /\ Len(nodes) \in Nat
  BY <1>1, <1>5, <1>6, ComposeKeepsTiling
<1>8. used' \in Nat /\ used' <= StackSize
  BY <1>1, <1>6, <1>7, Room DEF Compose, WriteAtTop
<1>9. TypeOK'
  BY <1>1, <1>2, <1>6, <1>7, <1>8 DEF TypeOK
<1>10. Accounted'
  BY <1>6 DEF IndInv, Accounted
<1>11. Depth'
  BY <1>1, <1>2, <1>4, <1>6, <1>7 DEF Depth
<1> QED
  BY <1>1, <1>5, <1>6, <1>7, <1>8, <1>9, <1>10, <1>11 DEF IndInv, StackFits

(* tt_block returns.                                                       *)
LEMMA CarryEndInv ==
  ASSUME IndInv, CarryEnd
  PROVE  IndInv'
<1>1. /\ count \in Nat /\ b \in Nat /\ final \in BOOLEAN
      /\ pc = "carry" /\ b % 2 = 1
      /\ ones[b] = ones[count] /\ Len(nodes) = ones[b - 1] + 1
      /\ pc' = IF final THEN "fold" ELSE "chunks"
      /\ UNCHANGED <<count, block, index, nodes, hash, final, b, len, fed, used>>
  BY DEF IndInv, TypeOK, Depth, CarryEnd
<1>2. PICK m \in Nat : b = 2 * m + 1
  <2>1. b \div 2 \in Nat /\ b = 2 * (b \div 2) + 1
    BY <1>1
  <2> QED
    BY <2>1
<1>3. Len(nodes) = ones[count] /\ ones[count] \in Nat \ {0}
  <2>1. b - 1 = 2 * m /\ ones[2 * m + 1] = ones[m] + 1 /\ ones[2 * m] = ones[m] /\ ones[m] \in Nat
    BY <1>2, OnesDefined
  <2> QED
    BY <1>1, <1>2, <2>1
<1>4. NodesOK' /\ Tiling' /\ StackFits'
  BY <1>1, SameStack
<1>5. TypeOK'
  BY <1>1, <1>4 DEF IndInv, TypeOK
<1>6. Accounted'
  BY <1>1 DEF IndInv, Accounted
<1>7. Depth'
  BY <1>1, <1>3 DEF Depth
<1> QED
  BY <1>1, <1>4, <1>5, <1>6, <1>7 DEF IndInv

(* tt_final.                                                               *)
LEMMA FinalInv ==
  ASSUME IndInv, Final
  PROVE  IndInv'
<1>1. BlockSize \in Nat \ {0} /\ MaxBlocks \in Nat \ {0}
  BY BlockAssumption, BoundAssumption
<1>2. /\ count \in Nat /\ index \in 0..BlockSize
      /\ pc = "ready"
      /\ fed = count * BlockSize + index /\ index < BlockSize
      /\ fed <= MaxBytes /\ count <= MaxBlocks
      /\ Len(nodes) = ones[count] /\ ones[count] \in Nat
      /\ final' = TRUE
      /\ pc' = IF index > 0 \/ nodes = <<>> THEN "block" ELSE "fold"
      /\ UNCHANGED <<count, block, index, nodes, hash, b, len, fed, used>>
  BY OnesDefined DEF IndInv, TypeOK, Accounted, Depth, Final
<1>3. nodes = <<>> <=> count = 0
  <2>1. nodes = <<>> <=> Len(nodes) = 0
    <3> DEFINE R == Range(nodes)
    <3>1. nodes \in Seq(R)
      BY DEF IndInv, TypeOK, NodesOK
    <3> HIDE DEF R
    <3> QED
      BY <3>1
  <2> QED
    BY <2>1 DEF IndInv, Tiling
<1>4. NodesOK' /\ Tiling' /\ StackFits'
  BY <1>2, SameStack
<1>5. TypeOK'
  BY <1>2, <1>4 DEF IndInv, TypeOK
<1>6. Accounted'
  BY <1>2, <1>3 DEF Accounted
<1>7. Depth'
  <2>1. pc' = "fold" => Len(nodes) # 0
    BY <1>2, <1>3 DEF IndInv, Tiling
  <2> QED
    BY <1>2, <2>1 DEF Depth
<1>8. pc' = "block" => count < MaxBlocks
  <2>1. CASE index > 0
    BY <1>1, <1>2, <2>1, LeafLeft
  <2>2. CASE count = 0
    BY <1>1, <2>2
  <2> QED
    BY <1>2, <1>3, <2>1, <2>2
<1> QED
  BY <1>2, <1>4, <1>5, <1>6, <1>7, <1>8 DEF IndInv

(* The loop of tt_digest.                                                  *)
LEMMA FoldInv ==
  ASSUME IndInv, Fold
  PROVE  IndInv'
<1>1. /\ count \in Nat /\ used \in Nat /\ used <= StackSize
      /\ pc = "fold" /\ Len(nodes) > 1
      /\ Len(nodes) \in 1..ones[count] /\ ones[count] \in Nat
      /\ NodesOK /\ Tiling
      /\ Compose /\ UNCHANGED <<count, block, index, hash, pc, final, b, len, fed>>
  BY OnesDefined DEF IndInv, TypeOK, Depth, StackFits, Fold
<1>2. NodesOK' /\ Tiling' /\ Len(nodes') = Len(nodes) - 1 /\ Len(nodes) \in Nat
  BY <1>1, ComposeKeepsTiling
<1>3. used' \in Nat /\ used' <= StackSize
  BY <1>1, <1>2, Room DEF Compose, WriteAtTop
<1>4. TypeOK'
  BY <1>1, <1>2, <1>3 DEF IndInv, TypeOK
<1>5. Accounted'
  BY <1>1 DEF IndInv, Accounted
<1>6. Depth'
  BY <1>1, <1>2 DEF Depth
<1> QED
  BY <1>1, <1>2, <1>3, <1>4, <1>5, <1>6 DEF IndInv, StackFits

(* The end of tt_digest.                                                   *)
LEMMA DigestInv ==
  ASSUME IndInv, Digest
  PROVE  IndInv'
<1>1. NodesOK' /\ Tiling' /\ StackFits'
  BY SameStack DEF Digest
<1>2. TypeOK' /\ Accounted' /\ Depth'
  BY <1>1 DEF IndInv, TypeOK, Accounted, Depth, Digest
<1> QED
  BY <1>1, <1>2 DEF IndInv, Digest

-----------------------------------------------------------------------------
(* Every step keeps the invariant.                                         *)
LEMMA NextInv ==
  ASSUME IndInv, [Next]_vars
  PROVE  IndInv'
<1>1. CASE Update
  BY <1>1, UpdateInv DEF Update
<1>2. CASE WholeBlock \/ Leftover
  BY <1>2, ChunkInv
<1>3. CASE HashBlock
  BY <1>3, HashBlockInv
<1>4. CASE Carry
  BY <1>4, CarryInv
<1>5. CASE CarryEnd
  BY <1>5, CarryEndInv
<1>6. CASE Final
  BY <1>6, FinalInv
<1>7. CASE Fold
  BY <1>7, FoldInv
<1>8. CASE Digest
  BY <1>8, DigestInv
<1>9. CASE UNCHANGED vars
  BY <1>9 DEF vars, IndInv, TypeOK, NodesOK, StackFits, Tiling, Accounted, Depth
<1> QED
  BY <1>1, <1>2, <1>3, <1>4, <1>5, <1>6, <1>7, <1>8, <1>9 DEF Next

(* Every reachable state of the tree hash satisfies the invariant: types,  *)
(* stack bound, tiling, byte accounting and depth together.                *)
THEOREM Invariance == Spec => []IndInv
<1>1. IndInv /\ [Next]_vars => IndInv'
  BY NextInv
<1> QED
  BY <1>1, InitInv, PTL DEF Spec

(* The locals and the context of the tree hash keep their types and        *)
(* ranges.                                                                 *)
THEOREM TypeCorrect == Spec => []TypeOK
<1>1. IndInv => TypeOK
  BY DEF IndInv
<1> QED
  BY <1>1, Invariance, PTL

(* No store to the stack of interim nodes, the scratch store of tt_compose *)
(* included, is outside the array, as long as the stream has fewer than    *)
(* 2^(StackSize - 1) leaves: 2^55 leaves of 1024 bytes in the code.        *)
THEOREM StackNeverOverflows == Spec => []StackFits
<1>1. IndInv => StackFits
  BY DEF IndInv
<1> QED
  BY <1>1, Invariance, PTL

(* The nodes on the stack always cover the leaves hashed so far, each once *)
(* and in order.                                                           *)
THEOREM NodesTile == Spec => []Tiling
<1>1. IndInv => Tiling
  BY DEF IndInv
<1> QED
  BY <1>1, Invariance, PTL

(* Every byte given to tt_update is in a leaf, in the partial leaf or      *)
(* still to be read.                                                       *)
THEOREM BytesAccounted == Spec => []Accounted
<1>1. IndInv => Accounted
  BY DEF IndInv
<1> QED
  BY <1>1, Invariance, PTL

(* The stack holds one node for every one-bit of the number of leaves.     *)
THEOREM DepthIsBitCount == Spec => []Depth
<1>1. IndInv => Depth
  BY DEF IndInv
<1> QED
  BY <1>1, Invariance, PTL

-----------------------------------------------------------------------------
(* Quotients, products and sequences, as the tree needs them.              *)
LEMMA DivisionLeaves ==
  ASSUME NEW n \in Nat, NEW d \in Nat \ {0}
  PROVE  n \div d \in Nat /\ d * (n \div d) <= n /\ n < d * (n \div d) + d
OBVIOUS

LEMMA Products ==
  ASSUME NEW p \in Nat \ {0}, NEW x \in Nat, NEW y \in Nat
  PROVE  /\ p * x \in Nat
         /\ p * x < p * y <=> x < y
         /\ p * x <= p * y <=> x <= y
         /\ p * x = p * y <=> x = y
<1>1. p * x \in Nat /\ p * y \in Nat
  OBVIOUS
<1>2. x < y => p * x < p * y
  <2> SUFFICES ASSUME x < y PROVE p * x < p * y
    OBVIOUS
  <2>1. y - x \in Nat \ {0}
    OBVIOUS
  <2>2. p * (y - x) >= 1
    BY <2>1
  <2>3. p * y = p * x + p * (y - x)
    OBVIOUS
  <2> QED
    BY <1>1, <2>2, <2>3
<1>3. y < x => p * y < p * x
  <2> SUFFICES ASSUME y < x PROVE p * y < p * x
    OBVIOUS
  <2>1. x - y \in Nat \ {0}
    OBVIOUS
  <2>2. p * (x - y) >= 1
    BY <2>1
  <2>3. p * x = p * y + p * (x - y)
    OBVIOUS
  <2> QED
    BY <1>1, <2>2, <2>3
<1> QED
  BY <1>1, <1>2, <1>3

(* A sequence is as long as its domain.                                    *)
LEMMA LengthOf ==
  ASSUME NEW n \in Nat, NEW s, s = [i \in 1..n |-> s[i]]
  PROVE  s \in Seq(Range(s)) /\ Len(s) = n
<1>1. \A i \in 1..n : s[i] \in Range(s)
  BY DEF Range
<1> QED
  BY <1>1

-----------------------------------------------------------------------------
(* The rows of the reference tree exist.                                   *)
LevelsUpTo(g, n, N) ==
  g = [k \in 0..N |-> IF k = 0 THEN Abstract!Leaves(n) ELSE Abstract!LevelAbove(g[k - 1])]

LEMMA LevelsExist ==
  ASSUME NEW n
  PROVE  \A N \in Nat : \E g : LevelsUpTo(g, n, N)
<1> DEFINE S == {N \in Nat : \E g : LevelsUpTo(g, n, N)}
<1>1. 0 \in S
  <2> DEFINE g == [k \in 0..0 |-> Abstract!Leaves(n)]
  <2>1. g = [k \in 0..0 |-> IF k = 0 THEN Abstract!Leaves(n) ELSE Abstract!LevelAbove(g[k - 1])]
    OBVIOUS
  <2> QED
    BY <2>1 DEF LevelsUpTo
<1>2. ASSUME NEW N \in Nat, N \in S PROVE N + 1 \in S
  <2>1. PICK g : LevelsUpTo(g, n, N)
    BY <1>2
  <2> DEFINE h == [k \in 0..(N + 1) |-> IF k = N + 1 THEN Abstract!LevelAbove(g[N]) ELSE g[k]]
  <2>2. \A k \in 0..N : h[k] = g[k]
    OBVIOUS
  <2>3. h[N + 1] = Abstract!LevelAbove(h[N])
    BY <2>2
  <2>4. \A k \in 0..N : h[k] = IF k = 0 THEN Abstract!Leaves(n) ELSE Abstract!LevelAbove(h[k - 1])
    <3> TAKE k \in 0..N
    <3>1. g[k] = IF k = 0 THEN Abstract!Leaves(n) ELSE Abstract!LevelAbove(g[k - 1])
      BY <2>1 DEF LevelsUpTo
    <3>2. k # 0 => k - 1 \in 0..N
      OBVIOUS
    <3> QED
      BY <2>2, <3>1, <3>2
  <2>5. h = [k \in 0..(N + 1) |-> h[k]]
    OBVIOUS
  <2> HIDE DEF h
  <2>6. \A k \in 0..(N + 1) :
          h[k] = IF k = 0 THEN Abstract!Leaves(n) ELSE Abstract!LevelAbove(h[k - 1])
    BY <2>3, <2>4
  <2>7. LevelsUpTo(h, n, N + 1)
    BY <2>5, <2>6 DEF LevelsUpTo
  <2> QED
    BY <2>7
<1> HIDE DEF S
<1>3. Nat \subseteq S
  BY <1>1, <1>2, SetInduction
<1> QED
  BY <1>3 DEF S

LEMMA LevelsAgree ==
  ASSUME NEW n, NEW N \in Nat, NEW M \in Nat, NEW g, NEW h, LevelsUpTo(g, n, N), LevelsUpTo(h, n, M)
  PROVE  \A k \in Nat : k <= N /\ k <= M => g[k] = h[k]
<1> DEFINE S == {k \in Nat : k <= N /\ k <= M => g[k] = h[k]}
<1>1. 0 \in S
  BY DEF LevelsUpTo
<1>2. ASSUME NEW k \in Nat, k \in S PROVE k + 1 \in S
  <2> SUFFICES ASSUME k + 1 <= N, k + 1 <= M PROVE g[k + 1] = h[k + 1]
    OBVIOUS
  <2>1. g[k] = h[k]
    BY <1>2
  <2>2. g[k + 1] = Abstract!LevelAbove(g[k]) /\ h[k + 1] = Abstract!LevelAbove(h[k])
    <3>1. k + 1 \in 0..N /\ k + 1 \in 0..M /\ k + 1 # 0 /\ (k + 1) - 1 = k
      OBVIOUS
    <3> QED
      BY <3>1 DEF LevelsUpTo
  <2> QED
    BY <2>1, <2>2
<1> HIDE DEF S
<1>3. Nat \subseteq S
  BY <1>1, <1>2, SetInduction
<1> QED
  BY <1>3 DEF S

(* The equations of the rows.                                              *)
LEMMA RowsDefined ==
  ASSUME NEW n
  PROVE  /\ Abstract!Rows(n)[0] = Abstract!Leaves(n)
         /\ \A k \in Nat : Abstract!Rows(n)[k + 1] = Abstract!LevelAbove(Abstract!Rows(n)[k])
<1> DEFINE g(N) == CHOOSE t : LevelsUpTo(t, n, N)
           F == [N \in Nat |-> g(N)[N]]
           Step(f, k) == IF k = 0 THEN Abstract!Leaves(n) ELSE Abstract!LevelAbove(f[k - 1])
           row == CHOOSE row : row = [k \in Nat |-> Step(row, k)]
<1>1. \A N \in Nat : LevelsUpTo(g(N), n, N)
  BY LevelsExist
<1> HIDE DEF g
<1>2. \A k \in Nat : F[k] = IF k = 0 THEN Abstract!Leaves(n) ELSE Abstract!LevelAbove(F[k - 1])
  <2> TAKE k \in Nat
  <2>1. LevelsUpTo(g(k), n, k)
    BY <1>1
  <2>2. g(k)[k] = IF k = 0 THEN Abstract!Leaves(n) ELSE Abstract!LevelAbove(g(k)[k - 1])
    BY <2>1 DEF LevelsUpTo
  <2>3. k # 0 => k - 1 \in Nat /\ k - 1 <= k
    OBVIOUS
  <2>4. k # 0 => g(k)[k - 1] = g(k - 1)[k - 1]
    BY <1>1, <2>1, <2>3, LevelsAgree
  <2> QED
    BY <2>2, <2>3, <2>4
<1>3. F = [k \in Nat |-> F[k]]
  OBVIOUS
<1> HIDE DEF F
<1>4. F = [k \in Nat |-> Step(F, k)]
  BY <1>2, <1>3
<1> HIDE DEF Step
<1>5. row = [k \in Nat |-> Step(row, k)]
  BY <1>4
<1>6. Abstract!Rows(n) = row
  BY DEF Abstract!Rows, row, Step
<1> HIDE DEF row
<1>7. \A k \in Nat : row[k] = Step(row, k)
  BY <1>5
<1>8. row[0] = Abstract!Leaves(n)
  BY <1>7 DEF Step
<1>9. ASSUME NEW k \in Nat
      PROVE  row[k + 1] = Abstract!LevelAbove(row[k])
  <2>1. k + 1 \in Nat /\ k + 1 # 0 /\ (k + 1) - 1 = k
    OBVIOUS
  <2> QED
    BY <1>7, <2>1 DEF Step
<1> QED
  BY <1>6, <1>8, <1>9

-----------------------------------------------------------------------------
(* The k-th row of the tree over n bytes, and how many leaves it has.      *)
Row(n, k) == Abstract!Rows(n)[k]
Count(n) == Abstract!LeafCount(n)

(* n bytes fill c leaves but not the next one.                             *)
LEMMA LeavesOf ==
  ASSUME NEW n \in Nat, NEW c \in Nat, n <= BlockSize * (c + 1), BlockSize * c < n \/ c + n = 0
  PROVE  Count(n) = c + 1
<1>1. BlockSize \in Nat \ {0}
  BY BlockAssumption
<1>2. CASE n = 0
  <2>1. c = 0
    BY <1>1, <1>2
  <2> QED
    BY <1>2, <2>1 DEF Count, Abstract!LeafCount
<1>3. CASE n # 0
  <2> DEFINE t == n + BlockSize - 1
             q == t \div BlockSize
  <2>1. t \in Nat
    BY <1>1
  <2>2. q \in Nat /\ BlockSize * q <= t /\ t < BlockSize * q + BlockSize
    BY <1>1, <2>1, DivisionLeaves
  <2>3. Count(n) = q
    BY <1>3 DEF Count, Abstract!LeafCount
  <2> HIDE DEF q
  <2>4. BlockSize * (c + 1) = BlockSize * c + BlockSize /\ BlockSize * c \in Nat
        /\ BlockSize * (c + 2) = BlockSize * (c + 1) + BlockSize
        /\ BlockSize * (q + 1) = BlockSize * q + BlockSize
    BY <1>1, <2>2
  <2>5. BlockSize * c < n
    BY <1>3
  <2>6. BlockSize * (c + 1) < BlockSize * (q + 1)
    BY <1>1, <2>1, <2>2, <2>4, <2>5
  <2>7. BlockSize * q < BlockSize * (c + 2)
    BY <1>1, <2>1, <2>2, <2>4
  <2>8. c + 1 < q + 1
    BY <1>1, <2>2, <2>6, Products
  <2>9. q < c + 2
    BY <1>1, <2>2, <2>7, Products
  <2> QED
    BY <2>2, <2>3, <2>8, <2>9
<1> QED
  BY <1>2, <1>3

LEMMA LeafCountBounds ==
  ASSUME NEW n \in Nat
  PROVE  /\ Count(n) \in Nat \ {0}
         /\ n <= BlockSize * Count(n)
<1>1. BlockSize \in Nat \ {0}
  BY BlockAssumption
<1>2. CASE n = 0
  BY <1>1, <1>2 DEF Count, Abstract!LeafCount
<1>3. CASE n # 0
  <2> DEFINE t == n + BlockSize - 1
             q == t \div BlockSize
  <2>1. t \in Nat
    BY <1>1
  <2>2. q \in Nat /\ BlockSize * q <= t /\ t < BlockSize * q + BlockSize
    BY <1>1, <2>1, DivisionLeaves
  <2>3. Count(n) = q
    BY <1>3 DEF Count, Abstract!LeafCount
  <2> HIDE DEF q
  <2>4. n <= BlockSize * q
    BY <1>1, <2>2
  <2>5. q # 0
    BY <1>1, <1>3, <2>4
  <2> QED
    BY <2>2, <2>3, <2>4, <2>5
<1> QED
  BY <1>2, <1>3

(* Whole leaves are leaves.                                                *)
LEMMA WholeLeaves ==
  ASSUME NEW n \in Nat, NEW c \in Nat, BlockSize * c <= n
  PROVE  c <= Count(n)
<1>1. BlockSize * c <= BlockSize * Count(n) /\ Count(n) \in Nat /\ BlockSize \in Nat \ {0}
  BY LeafCountBounds, BlockAssumption
<1> QED
  BY <1>1, Products

-----------------------------------------------------------------------------
(* Row k has a node for every 2^k leaves, the last one perhaps for fewer.  *)
LEMMA RowZero ==
  ASSUME NEW n \in Nat
  PROVE  /\ Len(Row(n, 0)) = Count(n)
         /\ Row(n, 0) = Abstract!Leaves(n)
<1>1. Row(n, 0) = Abstract!Leaves(n)
  BY RowsDefined DEF Row
<1> DEFINE s == Abstract!Leaves(n)
<1>2. s = [i \in 1..Count(n) |-> s[i]]
  BY DEF Abstract!Leaves, Count
<1> HIDE DEF s
<1>3. Len(s) = Count(n)
  BY <1>2, LengthOf, LeafCountBounds
<1> QED
  BY <1>1, <1>3 DEF s

LEMMA LevelIsRow ==
  ASSUME NEW row, Len(row) \in Nat
  PROVE  LET up == Abstract!LevelAbove(row)
             half == (Len(row) + 1) \div 2
         IN  /\ Len(up) = half /\ half \in Nat
             /\ \A i \in 1..half :
                  up[i] = IF 2 * i <= Len(row) THEN Inner(row[2 * i - 1], row[2 * i]) ELSE row[2 * i - 1]
<1> DEFINE up == Abstract!LevelAbove(row)
           half == (Len(row) + 1) \div 2
<1>1. half \in Nat
  OBVIOUS
<1>2. up = [i \in 1..half |-> up[i]]
  BY DEF Abstract!LevelAbove
<1>3. \A i \in 1..half :
        up[i] = IF 2 * i <= Len(row) THEN Inner(row[2 * i - 1], row[2 * i]) ELSE row[2 * i - 1]
  BY DEF Abstract!LevelAbove, Abstract!Inner, Inner
<1> HIDE DEF up, half
<1>4. Len(up) = half
  BY <1>1, <1>2, LengthOf
<1> QED
  BY <1>1, <1>3, <1>4 DEF up, half

LEMMA Halves ==
  ASSUME NEW x \in Nat \ {0}
  PROVE  /\ (x + 1) \div 2 \in Nat \ {0}
         /\ x = 2 * ((x + 1) \div 2) \/ x = 2 * ((x + 1) \div 2) - 1
OBVIOUS

(* Row k has one node per 2^k leaves.                                      *)
LEMMA RowLength ==
  ASSUME NEW n \in Nat
  PROVE  \A k \in Nat : /\ Len(Row(n, k)) \in Nat \ {0}
                        /\ 2^k * (Len(Row(n, k)) - 1) < Count(n)
                        /\ Count(n) <= 2^k * Len(Row(n, k))
<1> DEFINE L(k) == Len(Row(n, k))
           S == {k \in Nat : L(k) \in Nat \ {0} /\ 2^k * (L(k) - 1) < Count(n) /\ Count(n) <= 2^k * L(k)}
<1>1. 0 \in S
  <2>1. L(0) = Count(n) /\ Count(n) \in Nat \ {0} /\ 2^0 = 1
    BY RowZero, LeafCountBounds, PowerOfTwo
  <2> HIDE DEF L
  <2> QED
    BY <2>1
<1>2. ASSUME NEW k \in Nat, k \in S PROVE k + 1 \in S
  <2>1. Row(n, k + 1) = Abstract!LevelAbove(Row(n, k))
    BY RowsDefined DEF Row
  <2>2. L(k) \in Nat \ {0} /\ 2^k * (L(k) - 1) < Count(n) /\ Count(n) <= 2^k * L(k)
    BY <1>2
  <2>3. L(k + 1) = (L(k) + 1) \div 2
    BY <2>1, <2>2, LevelIsRow
  <2>4. 2^(k + 1) = 2 * 2^k /\ 2^k \in Nat \ {0} /\ Count(n) \in Nat
    BY PowerOfTwo, LeafCountBounds
  <2> HIDE DEF L
  <2> DEFINE h == L(k + 1)
             p == 2^k
  <2>5. h \in Nat \ {0} /\ (L(k) = 2 * h \/ L(k) = 2 * h - 1)
    BY <2>2, <2>3, Halves
  <2> HIDE DEF h, p
  <2>6. p * (2 * h) = (2 * p) * h /\ p * (2 * h - 1) = (2 * p) * h - p
        /\ p * (2 * h - 2) = (2 * p) * (h - 1) /\ p * (2 * h - 1 - 1) = (2 * p) * (h - 1)
    BY <2>4, <2>5 DEF p
  <2>7. (2 * p) * (h - 1) < Count(n)
    <3>1. 2 * h - 2 <= L(k) - 1 /\ 2 * h - 2 \in Nat /\ L(k) - 1 \in Nat
      BY <2>2, <2>5
    <3>2. p * (2 * h - 2) <= p * (L(k) - 1)
      BY <2>4, <3>1, Products DEF p
    <3>3. p * (2 * h - 2) \in Nat /\ p * (L(k) - 1) \in Nat
      BY <2>4, <3>1 DEF p
    <3> QED
      BY <2>2, <2>4, <2>6, <3>2, <3>3 DEF p
  <2>8. Count(n) <= (2 * p) * h
    <3>1. L(k) <= 2 * h /\ 2 * h \in Nat
      BY <2>2, <2>5
    <3>2. p * L(k) <= p * (2 * h) /\ p * L(k) \in Nat /\ p * (2 * h) \in Nat
      BY <2>2, <2>4, <3>1, Products DEF p
    <3> QED
      BY <2>2, <2>4, <2>6, <3>2 DEF p
  <2> QED
    BY <2>4, <2>5, <2>7, <2>8 DEF h, p
<1> HIDE DEF S
<1>3. Nat \subseteq S
  BY <1>1, <1>2, SetInduction
<1> QED
  BY <1>3 DEF S, L

(* A node of row k is behind 2^k * m leaves or fewer.                      *)
LEMMA InRow ==
  ASSUME NEW n \in Nat, NEW k \in Nat, NEW m \in Nat
  PROVE  /\ 2^k * m < Count(n) => m + 1 <= Len(Row(n, k))
         /\ Count(n) <= 2^k * (m + 1) => Len(Row(n, k)) <= m + 1
<1> DEFINE l == Len(Row(n, k))
<1>1. l \in Nat \ {0} /\ 2^k * (l - 1) < Count(n) /\ Count(n) <= 2^k * l
  BY RowLength
<1>2. 2^k \in Nat \ {0} /\ Count(n) \in Nat
  BY PowerOfTwo, LeafCountBounds
<1> HIDE DEF l
<1>3. 2^k * l \in Nat /\ 2^k * m \in Nat /\ 2^k * (l - 1) \in Nat /\ 2^k * (m + 1) \in Nat
  BY <1>1, <1>2
<1>4. 2^k * m < Count(n) => m < l
  BY <1>1, <1>2, <1>3, Products
<1>5. Count(n) <= 2^k * (m + 1) => l - 1 < m + 1
  <2>1. l - 1 \in Nat /\ m + 1 \in Nat
    BY <1>1
  <2> QED
    BY <1>1, <1>2, <1>3, <2>1, Products
<1> QED
  BY <1>1, <1>4, <1>5 DEF l

-----------------------------------------------------------------------------
(* A node of the next row has two below it, or is one without a neighbour. *)
LEMMA NextRow ==
  ASSUME NEW n \in Nat, NEW k \in Nat, NEW m \in Nat
  PROVE  /\ 2 * m + 2 <= Len(Row(n, k)) =>
              Row(n, k + 1)[m + 1] = Inner(Row(n, k)[2 * m + 1], Row(n, k)[2 * m + 2])
         /\ 2 * m + 1 = Len(Row(n, k)) => Row(n, k + 1)[m + 1] = Row(n, k)[2 * m + 1]
         /\ Len(Row(n, k)) = 1 => Len(Row(n, k + 1)) = 1
<1> DEFINE l == Len(Row(n, k))
<1>1. Row(n, k + 1) = Abstract!LevelAbove(Row(n, k))
  BY RowsDefined DEF Row
<1>2. l \in Nat \ {0}
  BY RowLength
<1>3. /\ Len(Row(n, k + 1)) = (l + 1) \div 2
      /\ \A i \in 1..((l + 1) \div 2) :
           Row(n, k + 1)[i] = IF 2 * i <= l THEN Inner(Row(n, k)[2 * i - 1], Row(n, k)[2 * i])
                              ELSE Row(n, k)[2 * i - 1]
  BY <1>1, <1>2, LevelIsRow
<1>4. 2 * (m + 1) - 1 = 2 * m + 1 /\ 2 * (m + 1) = 2 * m + 2
  OBVIOUS
<1> HIDE DEF l
<1>5. 2 * m + 1 <= l => m + 1 \in 1..((l + 1) \div 2)
  BY <1>2
<1>6. l = 1 => (l + 1) \div 2 = 1
  OBVIOUS
<1>7. 2 * m + 1 <= l =>
        Row(n, k + 1)[m + 1] = IF 2 * m + 2 <= l THEN Inner(Row(n, k)[2 * m + 1], Row(n, k)[2 * m + 2])
                               ELSE Row(n, k)[2 * m + 1]
  BY <1>3, <1>4, <1>5
<1>8. (2 * m + 2 <= l => 2 * m + 1 <= l) /\ (2 * m + 1 = l => 2 * m + 1 <= l /\ ~(2 * m + 2 <= l))
  BY <1>2
<1> QED
  BY <1>3, <1>6, <1>7, <1>8 DEF l

LEMMA PowersGrow ==
  ASSUME NEW k \in Nat
  PROVE  k < 2^k /\ \A j \in Nat : 2^k <= 2^(k + j)
<1> DEFINE S == {j \in Nat : j < 2^j}
           T == {j \in Nat : 2^k <= 2^(k + j)}
<1>1. 0 \in S /\ 0 \in T
  BY PowerOfTwo
<1>2. ASSUME NEW j \in Nat
      PROVE  (j \in S => j + 1 \in S) /\ (j \in T => j + 1 \in T)
  <2>1. 2^(j + 1) = 2 * 2^j /\ 2^j \in Nat \ {0}
    BY PowerOfTwo
  <2>2. 2^(k + j + 1) = 2 * 2^(k + j) /\ 2^(k + j) \in Nat \ {0} /\ 2^k \in Nat
    BY PowerOfTwo
  <2>3. k + (j + 1) = k + j + 1
    OBVIOUS
  <2> QED
    BY <2>1, <2>2, <2>3
<1> HIDE DEF S, T
<1>3. Nat \subseteq S /\ Nat \subseteq T
  BY <1>1, <1>2, SetInduction
<1> QED
  BY <1>3 DEF S, T

(* The powers of two in a number: an odd multiple of 2^j is a multiple of  *)
(* no higher power.                                                        *)
LEMMA OddMultiple ==
  \A k, j, m, q \in Nat : 2^k * m = 2^j * (2 * q + 1) => k <= j
<1> DEFINE S == {k \in Nat : \A j, m, q \in Nat : 2^k * m = 2^j * (2 * q + 1) => k <= j}
<1>1. 0 \in S
  OBVIOUS
<1>2. ASSUME NEW k \in Nat, k \in S PROVE k + 1 \in S
  <2> SUFFICES ASSUME NEW j \in Nat, NEW m \in Nat, NEW q \in Nat, 2^(k + 1) * m = 2^j * (2 * q + 1)
               PROVE  k + 1 <= j
    OBVIOUS
  <2>1. 2^(k + 1) = 2 * 2^k /\ 2^k \in Nat \ {0} /\ 2^0 = 1
    BY PowerOfTwo
  <2>2. 2^(k + 1) * m = 2 * (2^k * m) /\ 2^k * m \in Nat
    BY <2>1
  <2>3. j # 0
    <3>1. j = 0 => 2^j * (2 * q + 1) = 2 * q + 1
      BY <2>1
    <3>2. \A x \in Nat : 2 * x # 2 * q + 1
      OBVIOUS
    <3> QED
      BY <2>2, <3>1, <3>2
  <2> DEFINE i == j - 1
  <2>4. i \in Nat /\ j = i + 1
    BY <2>3
  <2> HIDE DEF i
  <2>5. 2^j = 2 * 2^i /\ 2^i \in Nat \ {0}
    BY <2>4, PowerOfTwo
  <2>6. 2^j * (2 * q + 1) = 2 * (2^i * (2 * q + 1)) /\ 2^i * (2 * q + 1) \in Nat
    BY <2>5
  <2>7. 2^k * m = 2^i * (2 * q + 1)
    BY <2>2, <2>6
  <2>8. k <= i
    BY <1>2, <2>4, <2>7
  <2> QED
    BY <2>4, <2>8
<1> HIDE DEF S
<1>3. Nat \subseteq S
  BY <1>1, <1>2, SetInduction
<1> QED
  BY <1>3 DEF S

(* A last node without a neighbour is the same in every row above, as long *)
(* as it begins at a multiple of the row's leaves per node.                *)
LEMMA Promotion ==
  ASSUME NEW n \in Nat, NEW k \in Nat, NEW m \in Nat,
         2^k * m < Count(n), Count(n) <= 2^k * (m + 1)
  PROVE  \A j, q \in Nat : 2^k * m = 2^(k + j) * q => Row(n, k + j)[q + 1] = Row(n, k)[m + 1]
<1> DEFINE S == {j \in Nat : \A q \in Nat : 2^k * m = 2^(k + j) * q =>
                                              Row(n, k + j)[q + 1] = Row(n, k)[m + 1]}
<1>1. 2^k \in Nat \ {0} /\ Count(n) \in Nat
  BY PowerOfTwo, LeafCountBounds
<1>2. 0 \in S
  <2> SUFFICES ASSUME NEW q \in Nat, 2^k * m = 2^(k + 0) * q
               PROVE  Row(n, k + 0)[q + 1] = Row(n, k)[m + 1]
    OBVIOUS
  <2>1. k + 0 = k
    OBVIOUS
  <2>2. q = m
    BY <1>1, <2>1, Products
  <2> QED
    BY <2>1, <2>2
<1>3. ASSUME NEW j \in Nat, j \in S PROVE j + 1 \in S
  <2> SUFFICES ASSUME NEW q \in Nat, 2^k * m = 2^(k + (j + 1)) * q
               PROVE  Row(n, k + (j + 1))[q + 1] = Row(n, k)[m + 1]
    OBVIOUS
  <2> DEFINE r == k + j
  <2>1. r \in Nat /\ k + (j + 1) = r + 1
    OBVIOUS
  <2>2. 2^k <= 2^r
    BY PowersGrow
  <2>3. \A x \in Nat : 2^k * m = 2^r * x => Row(n, r)[x + 1] = Row(n, k)[m + 1]
    BY <1>3
  <2> HIDE DEF r
  <2>4. 2^(r + 1) = 2 * 2^r /\ 2^r \in Nat \ {0}
    BY <2>1, PowerOfTwo
  <2>5. 2^(r + 1) * q = 2^r * (2 * q)
    BY <2>4
  <2>6. Row(n, r)[2 * q + 1] = Row(n, k)[m + 1]
    BY <2>1, <2>3, <2>5
  <2>7. 2^r * (2 * q) < Count(n)
    BY <2>1, <2>5
  <2>8. 2^r * (2 * q + 1) = 2^r * (2 * q) + 2^r /\ 2^k * (m + 1) = 2^k * m + 2^k
    BY <1>1, <2>4
  <2>9. Count(n) <= 2^r * (2 * q + 1)
    <3>1. 2^k * m = 2^r * (2 * q) /\ 2^k * m \in Nat
      BY <1>1, <2>1, <2>5
    <3> QED
      BY <1>1, <2>2, <2>4, <2>8, <3>1
  <2>10. Len(Row(n, r)) = 2 * q + 1
    <3>1. 2 * q \in Nat /\ Len(Row(n, r)) \in Nat
      BY <2>1, RowLength
    <3>2. 2 * q + 1 <= Len(Row(n, r)) /\ Len(Row(n, r)) <= 2 * q + 1
      BY <2>1, <2>7, <2>9, <3>1, InRow
    <3> QED
      BY <3>1, <3>2
  <2>11. Row(n, r + 1)[q + 1] = Row(n, r)[2 * q + 1]
    BY <2>1, <2>10, NextRow, ZenonT(60)
  <2> QED
    BY <2>1, <2>6, <2>11
<1> HIDE DEF S
<1>4. Nat \subseteq S
  BY <1>2, <1>3, SetInduction
<1> QED
  BY <1>4 DEF S

LEMMA Promoted ==
  ASSUME NEW n \in Nat, NEW k \in Nat, NEW m \in Nat, NEW j \in Nat, NEW q \in Nat,
         2^k * m < Count(n), Count(n) <= 2^k * (m + 1), k <= j, 2^k * m = 2^j * q
  PROVE  Row(n, j)[q + 1] = Row(n, k)[m + 1]
<1>1. PICK i \in Nat : j = k + i
  <2>1. j - k \in Nat /\ j = k + (j - k)
    OBVIOUS
  <2> QED
    BY <2>1
<1>2. \A t, x \in Nat : 2^k * m = 2^(k + t) * x => Row(n, k + t)[x + 1] = Row(n, k)[m + 1]
  BY Promotion
<1> QED
  BY <1>1, <1>2

(* What is above whole leaves does not change when the stream grows.       *)
LEMMA WholeNodes ==
  ASSUME NEW n \in Nat, NEW n2 \in Nat, n <= n2
  PROVE  \A k, i \in Nat : BlockSize * (2^k * (i + 1)) <= n => Row(n, k)[i + 1] = Row(n2, k)[i + 1]
<1> DEFINE S == {k \in Nat : \A i \in Nat : BlockSize * (2^k * (i + 1)) <= n =>
                                              Row(n, k)[i + 1] = Row(n2, k)[i + 1]}
<1>1. BlockSize \in Nat \ {0} /\ 2^0 = 1
  BY BlockAssumption, PowerOfTwo
<1>2. 0 \in S
  <2> SUFFICES ASSUME NEW i \in Nat, BlockSize * (2^0 * (i + 1)) <= n
               PROVE  Row(n, 0)[i + 1] = Row(n2, 0)[i + 1]
    OBVIOUS
  <2>1. BlockSize * (i + 1) <= n /\ BlockSize * (i + 1) = i * BlockSize + BlockSize
        /\ i * BlockSize \in Nat
    BY <1>1
  <2>2. i + 1 \in 1..Count(n) /\ i + 1 \in 1..Count(n2)
    <3>1. i + 1 \in Nat /\ BlockSize * (i + 1) <= n2 /\ BlockSize * (i + 1) \in Nat
      BY <1>1, <2>1
    <3>2. i + 1 <= Count(n) /\ i + 1 <= Count(n2)
      BY <2>1, <3>1, WholeLeaves
    <3> QED
      BY <3>2, LeafCountBounds
  <2>3. ASSUME NEW x \in {n, n2}
        PROVE  Row(x, 0)[i + 1] = Leaf([k \in 1..BlockSize |-> i * BlockSize + k])
    <3>1. ~(x - i * BlockSize < BlockSize) /\ (i + 1) - 1 = i /\ x \in Nat
      BY <1>1, <2>1
    <3>2. Row(x, 0) = Abstract!Leaves(x) /\ i + 1 \in 1..Count(x)
      BY <2>2, RowZero
    <3> QED
      BY <3>1, <3>2 DEF Abstract!Leaves, Abstract!Leaf, Leaf, Count
  <2> QED
    BY <2>3
<1>3. ASSUME NEW k \in Nat, k \in S PROVE k + 1 \in S
  <2> SUFFICES ASSUME NEW i \in Nat, BlockSize * (2^(k + 1) * (i + 1)) <= n
               PROVE  Row(n, k + 1)[i + 1] = Row(n2, k + 1)[i + 1]
    OBVIOUS
  <2>1. 2^(k + 1) = 2 * 2^k /\ 2^k \in Nat \ {0}
    BY PowerOfTwo
  <2> DEFINE c == 2^k * (2 * i + 2)
             h == 2^k * (2 * i + 1)
  <2>2. 2^(k + 1) * (i + 1) = c /\ c \in Nat /\ h \in Nat /\ h < c
    <3>1. c = h + 2^k
      BY <2>1
    <3> QED
      BY <2>1, <3>1
  <2>3. BlockSize * c <= n /\ BlockSize * h <= n
    <3>1. BlockSize * h < BlockSize * c
      BY <1>1, <2>2, Products
    <3>2. BlockSize * c \in Nat /\ BlockSize * h \in Nat /\ BlockSize * c <= n
      BY <1>1, <2>2
    <3> QED
      BY <3>1, <3>2
  <2>4. Row(n, k)[2 * i + 1] = Row(n2, k)[2 * i + 1] /\ Row(n, k)[2 * i + 2] = Row(n2, k)[2 * i + 2]
    <3>1. 2 * i \in Nat /\ 2 * i + 1 \in Nat /\ (2 * i + 1) + 1 = 2 * i + 2
      OBVIOUS
    <3>2. \A x \in Nat : BlockSize * (2^k * (x + 1)) <= n => Row(n, k)[x + 1] = Row(n2, k)[x + 1]
      BY <1>3
    <3> QED
      BY <2>3, <3>1, <3>2
  <2>5. ASSUME NEW x \in {n, n2}
        PROVE  Row(x, k + 1)[i + 1] = Inner(Row(x, k)[2 * i + 1], Row(x, k)[2 * i + 2])
    <3>1. x \in Nat /\ BlockSize * c <= x
      BY <1>1, <2>2, <2>3
    <3>2. c <= Count(x) /\ Count(x) \in Nat
      BY <2>2, <3>1, WholeLeaves, LeafCountBounds
    <3>3. (2 * i + 1) + 1 <= Len(Row(x, k))
      <4>1. 2^k * (2 * i + 1) < Count(x) /\ 2 * i + 1 \in Nat
        BY <2>2, <3>2
      <4> QED
        BY <3>1, <4>1, InRow
    <3>4. 2 * i + 2 <= Len(Row(x, k))
      BY <3>3
    <3> QED
      BY <3>1, <3>4, NextRow, ZenonT(60)
  <2> QED
    BY <2>4, <2>5
<1> HIDE DEF S
<1>4. Nat \subseteq S
  BY <1>2, <1>3, SetInduction
<1> QED
  BY <1>4 DEF S

(* The root is the node of any row that has no other.                      *)
LEMMA SingleNode ==
  ASSUME NEW n \in Nat, NEW k \in Nat, Len(Row(n, k)) = 1
  PROVE  \A j \in Nat : Len(Row(n, k + j)) = 1 /\ Row(n, k + j)[1] = Row(n, k)[1]
<1> DEFINE S == {j \in Nat : Len(Row(n, k + j)) = 1 /\ Row(n, k + j)[1] = Row(n, k)[1]}
<1>1. 0 \in S
  <2>1. k + 0 = k
    OBVIOUS
  <2> QED
    BY <2>1
<1>2. ASSUME NEW j \in Nat, j \in S PROVE j + 1 \in S
  <2>1. k + j \in Nat /\ k + (j + 1) = (k + j) + 1
    OBVIOUS
  <2>2. Len(Row(n, (k + j) + 1)) = 1 /\ Row(n, (k + j) + 1)[0 + 1] = Row(n, k + j)[2 * 0 + 1]
    <3> DEFINE r == k + j
    <3>1. r \in Nat /\ Len(Row(n, r)) = 1
      BY <1>2
    <3> HIDE DEF r
    <3>2. 0 \in Nat /\ 2 * 0 + 1 = Len(Row(n, r))
      BY <3>1
    <3> QED
      BY <3>1, <3>2, NextRow, ZenonT(60) DEF r
  <2>3. 0 + 1 = 1 /\ 2 * 0 + 1 = 1
    OBVIOUS
  <2> QED
    BY <1>2, <2>1, <2>2, <2>3
<1> HIDE DEF S
<1>3. Nat \subseteq S
  BY <1>1, <1>2, SetInduction
<1> QED
  BY <1>3 DEF S

LEMMA RootIs ==
  ASSUME NEW n \in Nat, NEW k \in Nat, Len(Row(n, k)) = 1
  PROVE  Abstract!Root(n) = Row(n, k)[1]
<1> DEFINE c == Count(n)
           top == CHOOSE j \in 0..c : Len(Row(n, j)) = 1
<1>1. c \in Nat \ {0}
  BY LeafCountBounds
<1>2. Len(Row(n, c)) = 1
  <2>1. c <= 2^c * (0 + 1)
    BY <1>1, PowersGrow, PowerOfTwo
  <2>2. Len(Row(n, c)) <= 0 + 1 /\ Len(Row(n, c)) \in Nat \ {0}
    BY <1>1, <2>1, InRow, RowLength
  <2> QED
    BY <2>2
<1>3. top \in 0..c /\ Len(Row(n, top)) = 1
  BY <1>1, <1>2
<1>4. Abstract!Root(n) = Row(n, top)[1]
  BY DEF Abstract!Root, Row, Count
<1> HIDE DEF top, c
<1>5. top \in Nat
  BY <1>1, <1>3
<1>6. CASE k <= top
  <2>1. top - k \in Nat /\ k + (top - k) = top
    BY <1>5, <1>6
  <2> QED
    BY <1>4, <2>1, SingleNode
<1>7. CASE top <= k
  <2>1. k - top \in Nat /\ top + (k - top) = k
    BY <1>5, <1>7
  <2> QED
    BY <1>3, <1>4, <1>5, <2>1, SingleNode
<1> QED
  BY <1>5, <1>6, <1>7

-----------------------------------------------------------------------------
(* What a node on the stack is in the tree over n bytes: on its own at an  *)
(* even place of its row;                                                  *)
Whole(e, n) ==
  \E k, m \in Nat : e.size = 2^k /\ e.first = 2^k * (2 * m) /\ e.hash = Row(n, k)[2 * m + 1]

(* in the carry loop the topmost is the m-th of its row, and the last but  *)
(* for leaves that are not counted yet;                                    *)
Carried(e, n, c, m) ==
  \E k \in Nat : /\ c = 2^k * m /\ e.size = 2^k /\ e.first = 2^k * (m - 1)
                 /\ e.hash = Row(n, k)[m]

(* in the loop of tt_digest it is the last of its row.                     *)
Topmost(e, n) ==
  \E k, m \in Nat : /\ e.first = 2^k * m /\ e.first < Count(n) /\ Count(n) <= 2^k * (m + 1)
                    /\ e.hash = Row(n, k)[m + 1]

Hashes ==
  LET d == Len(nodes) IN
  /\ pc \in {"ready", "block"} => \A i \in 1..index : block[i] = count * BlockSize + i
  /\ pc \in {"ready", "chunks", "block"} => \A i \in 1..d : Whole(nodes[i], fed)
  /\ pc \in {"carry", "fold"} => d > 0 /\ \A i \in 1..(d - 1) : Whole(nodes[i], fed)
  /\ pc = "carry" => /\ Carried(nodes[d], fed, count, b) /\ count <= Count(fed)
                     /\ final => count = Count(fed)
  /\ pc = "fold" => Topmost(nodes[d], fed)
  /\ pc # "done" => hash = NoHash

-----------------------------------------------------------------------------
(* A node that is joined to the one below it: both have the same size.     *)
LEMMA CarriedMeets ==
  ASSUME NEW n \in Nat, NEW e, NEW f, Whole(e, n), Carried(f, n, count, b), count \in Nat,
         b \in Nat, b > 0, b % 2 = 0, f.first = e.first + e.size, count <= Count(n)
  PROVE  /\ e.size = f.size
         /\ Carried(Joined(e, f), n, count, b \div 2)
<1>1. PICK k \in Nat, m \in Nat : e.size = 2^k /\ e.first = 2^k * (2 * m) /\ e.hash = Row(n, k)[2 * m + 1]
  BY DEF Whole
<1>2. PICK j \in Nat : /\ count = 2^j * b /\ f.size = 2^j /\ f.first = 2^j * (b - 1)
                       /\ f.hash = Row(n, j)[b]
  BY DEF Carried
<1> DEFINE h == b \div 2 - 1
<1>3. h \in Nat /\ b = 2 * h + 2 /\ b \div 2 = h + 1
  BY DivisionLeaves
<1> HIDE DEF h
<1>4. 2^k \in Nat \ {0} /\ 2^j \in Nat \ {0} /\ 2^(j + 1) = 2 * 2^j
  BY PowerOfTwo
<1>5. 2^j * (2 * h + 1) = 2^k * (2 * m + 1)
  <2>1. b - 1 = 2 * h + 1
    BY <1>3
  <2>2. 2^k * (2 * m + 1) = 2^k * (2 * m) + 2^k
    BY <1>4
  <2> QED
    BY <1>1, <1>2, <2>1, <2>2
<1>6. k = j
  <2>1. 2 * h + 1 \in Nat /\ 2 * m + 1 \in Nat
    BY <1>3
  <2>2. j <= k
    BY <1>3, <1>5, <2>1, OddMultiple
  <2>3. k <= j
    BY <1>3, <1>5, <2>1, OddMultiple
  <2> QED
    BY <2>2, <2>3
<1>7. m = h
  <2> DEFINE x == 2 * h + 1
             y == 2 * m + 1
  <2>1. x \in Nat /\ y \in Nat /\ 2^k * x = 2^k * y
    BY <1>3, <1>5, <1>6
  <2> HIDE DEF x, y
  <2>2. x = y
    BY <1>4, <2>1, Products
  <2> QED
    BY <1>3, <2>2 DEF x, y
<1>8. 2 * h + 2 <= Len(Row(n, k))
  <2>1. 2^k * (2 * h + 2) = 2^k * (2 * h + 1) + 2^k /\ 2^k * (2 * h + 1) \in Nat
    BY <1>3, <1>4
  <2>2. 2^k * (2 * h + 1) < Count(n) /\ 2 * h + 1 \in Nat
    BY <1>2, <1>3, <1>4, <1>6, <2>1, LeafCountBounds
  <2>3. (2 * h + 1) + 1 <= Len(Row(n, k))
    BY <2>2, InRow
  <2>4. (2 * h + 1) + 1 = 2 * h + 2
    BY <1>3
  <2> QED
    BY <2>3, <2>4
<1>9. Joined(e, f).hash = Row(n, k + 1)[h + 1]
  <2>0. h \in Nat
    BY <1>3
  <2>1. Row(n, k + 1)[h + 1] = Inner(Row(n, k)[2 * h + 1], Row(n, k)[2 * h + 2])
    BY <1>8, <2>0, NextRow
  <2> QED
    BY <1>1, <1>2, <1>3, <1>6, <1>7, <2>1 DEF Joined
<1>10. /\ count = 2^(k + 1) * (h + 1) /\ Joined(e, f).size = 2^(k + 1)
       /\ Joined(e, f).first = 2^(k + 1) * h
  <2>1. 2^k * (2 * h + 2) = (2 * 2^k) * (h + 1) /\ 2^k * (2 * h) = (2 * 2^k) * h
        /\ 2^k + 2^k = 2 * 2^k
    BY <1>3, <1>4
  <2>2. Joined(e, f).size = e.size + f.size /\ Joined(e, f).first = e.first
    BY DEF Joined
  <2> QED
    BY <1>1, <1>2, <1>3, <1>4, <1>6, <1>7, <2>1, <2>2
<1>11. b \div 2 = h + 1 /\ b \div 2 - 1 = h /\ k + 1 \in Nat
  BY <1>3
<1> QED
  BY <1>1, <1>2, <1>6, <1>9, <1>10, <1>11 DEF Carried

(* Joined to the node below it, the last node is the last of a row above.  *)
LEMMA TopmostMeets ==
  ASSUME NEW n \in Nat, NEW e, NEW f, Whole(e, n), Topmost(f, n), f.first = e.first + e.size
  PROVE  Topmost(Joined(e, f), n)
<1>1. PICK k \in Nat, m \in Nat : e.size = 2^k /\ e.first = 2^k * (2 * m) /\ e.hash = Row(n, k)[2 * m + 1]
  BY DEF Whole
<1>2. PICK j \in Nat, q \in Nat : /\ f.first = 2^j * q /\ f.first < Count(n)
                                  /\ Count(n) <= 2^j * (q + 1) /\ f.hash = Row(n, j)[q + 1]
  BY DEF Topmost
<1>3. 2^k \in Nat \ {0} /\ 2^j \in Nat \ {0} /\ 2^(k + 1) = 2 * 2^k /\ Count(n) \in Nat
  BY PowerOfTwo, LeafCountBounds
<1>4. 2^j * q = 2^k * (2 * m + 1) /\ 2^k * (2 * m) \in Nat
  <2>1. 2^k * (2 * m + 1) = 2^k * (2 * m) + 2^k
    BY <1>3
  <2> QED
    BY <1>1, <1>2, <1>3, <2>1
<1>5. j <= k
  BY <1>4, OddMultiple
<1>6. f.hash = Row(n, k)[2 * m + 2]
  <2> DEFINE w == 2 * m + 1
  <2>1. w \in Nat /\ w + 1 = 2 * m + 2 /\ 2^j * q = 2^k * w
    BY <1>4
  <2>2. 2^j * q < Count(n) /\ Count(n) <= 2^j * (q + 1)
    BY <1>2
  <2> HIDE DEF w
  <2>3. Row(n, k)[w + 1] = Row(n, j)[q + 1]
    BY <1>5, <2>1, <2>2, Promoted
  <2> QED
    BY <1>2, <2>1, <2>3
<1>7. 2 * m + 2 <= Len(Row(n, k))
  <2>1. 2 * m + 1 \in Nat /\ (2 * m + 1) + 1 = 2 * m + 2 /\ 2^k * (2 * m + 1) < Count(n)
    BY <1>2, <1>4
  <2> QED
    BY <2>1, InRow
<1>8. Joined(e, f).hash = Row(n, k + 1)[m + 1]
  <2>1. Row(n, k + 1)[m + 1] = Inner(Row(n, k)[2 * m + 1], Row(n, k)[2 * m + 2])
    BY <1>7, NextRow
  <2> QED
    BY <1>1, <1>6, <2>1 DEF Joined
<1>9. 2^k * (2 * m) = (2 * 2^k) * m /\ (2 * 2^k) * (m + 1) = 2^k * (2 * m + 1) + 2^k
  BY <1>3
<1>10. Joined(e, f).first = 2^(k + 1) * m /\ Joined(e, f).first < Count(n)
  <2>1. Joined(e, f).first = e.first
    BY DEF Joined
  <2>2. e.first < f.first
    BY <1>1, <1>3, <1>4
  <2>3. e.first \in Nat /\ f.first \in Nat
    BY <1>1, <1>2, <1>3, <1>4
  <2> QED
    BY <1>1, <1>2, <1>3, <1>9, <2>1, <2>2, <2>3
<1>11. Count(n) <= 2^(k + 1) * (m + 1)
  <2>1. 2^j * (q + 1) = 2^j * q + 2^j
    BY <1>3
  <2>2. 2^j <= 2^k
    <3>1. k - j \in Nat /\ j + (k - j) = k
      BY <1>5
    <3>2. 2^j <= 2^(j + (k - j))
      BY <3>1, PowersGrow
    <3> QED
      BY <3>1, <3>2
  <2>3. 2^j * q \in Nat
    BY <1>3
  <2> QED
    BY <1>2, <1>3, <1>4, <1>9, <2>1, <2>2, <2>3
<1> QED
  BY <1>8, <1>10, <1>11 DEF Topmost

(* The leaf in progress is the next one of the stream.                     *)
LEMMA LeafInRow ==
  ASSUME NEW n \in Nat, NEW c \in Nat, NEW i \in 0..BlockSize, c + 1 <= Count(n),
         c * BlockSize + i <= n, i = BlockSize \/ n = c * BlockSize + i
  PROVE  Row(n, 0)[c + 1] = Leaf([x \in 1..i |-> c * BlockSize + x])
<1>1. BlockSize \in Nat \ {0} /\ c * BlockSize \in Nat /\ i \in Nat
  BY BlockAssumption
<1>2. Row(n, 0) = Abstract!Leaves(n) /\ c + 1 \in 1..Count(n) /\ (c + 1) - 1 = c
  BY RowZero, LeafCountBounds
<1> DEFINE s == IF n - c * BlockSize < BlockSize THEN n - c * BlockSize ELSE BlockSize
<1>3. s = i
  BY <1>1
<1>4. Row(n, 0)[c + 1] = Leaf([x \in 1..s |-> c * BlockSize + x])
  BY <1>2 DEF Abstract!Leaves, Abstract!Leaf, Leaf, Count
<1> QED
  BY <1>3, <1>4

(* The leaves of a node on the stack have been counted.                    *)
LEMMA NodesEnd ==
  ASSUME IndInv
  PROVE  /\ Len(nodes) \in Nat
         /\ \A i \in 1..Len(nodes) : /\ nodes[i].first \in Nat /\ nodes[i].size \in Nat
                                     /\ nodes[i].first + nodes[i].size <= count
<1> DEFINE d == Len(nodes)
           S == {j \in Nat : j < d => nodes[d - j].first + nodes[d - j].size <= count}
<1>1. /\ d \in Nat /\ count \in Nat
      /\ \A i \in 1..d : nodes[i].first \in Nat /\ nodes[i].size \in Nat \ {0}
      /\ d > 0 => nodes[d].first + nodes[d].size = count
      /\ \A i \in 1..(d - 1) : nodes[i + 1].first = nodes[i].first + nodes[i].size
  BY DEF IndInv, TypeOK, NodesOK, Tiling
<1> HIDE DEF d
<1>2. 0 \in S
  <2>1. d - 0 = d
    BY <1>1
  <2> QED
    BY <1>1, <2>1
<1>3. ASSUME NEW j \in Nat, j \in S PROVE j + 1 \in S
  <2> SUFFICES ASSUME j + 1 < d
               PROVE  nodes[d - (j + 1)].first + nodes[d - (j + 1)].size <= count
    OBVIOUS
  <2> DEFINE i == d - (j + 1)
  <2>1. i \in 1..(d - 1) /\ i \in 1..d /\ i + 1 \in 1..d /\ d - j = i + 1
    BY <1>1
  <2>2. nodes[i + 1].first + nodes[i + 1].size <= count
    BY <1>1, <1>3, <2>1
  <2> HIDE DEF i
  <2>3. nodes[i].first + nodes[i].size <= count
    <3>1. nodes[i + 1].first \in Nat /\ nodes[i + 1].size \in Nat
      BY <1>1, <2>1
    <3> QED
      BY <1>1, <2>1, <2>2, <3>1
  <2> QED
    BY <2>3 DEF i
<1> HIDE DEF S
<1>4. Nat \subseteq S
  BY <1>2, <1>3, SetInduction
<1>5. ASSUME NEW i \in 1..d
      PROVE  nodes[i].first + nodes[i].size <= count
  <2>1. d - i \in Nat /\ d - i < d /\ d - (d - i) = i
    BY <1>1
  <2>2. d - i \in S
    BY <1>4, <2>1
  <2> QED
    BY <2>1, <2>2 DEF S
<1> QED
  BY <1>1, <1>5 DEF d

-----------------------------------------------------------------------------
(* A node over whole leaves stays what it is when the stream grows.        *)
LEMMA StaysWhole ==
  ASSUME NEW n \in Nat, NEW n2 \in Nat, n <= n2, NEW e, Whole(e, n),
         NEW c \in Nat, e.first + e.size <= c, c * BlockSize <= n
  PROVE  Whole(e, n2)
<1>1. PICK k \in Nat, m \in Nat : e.size = 2^k /\ e.first = 2^k * (2 * m) /\ e.hash = Row(n, k)[2 * m + 1]
  BY DEF Whole
<1>2. BlockSize \in Nat \ {0} /\ 2^k \in Nat \ {0}
  BY BlockAssumption, PowerOfTwo
<1> DEFINE i == 2 * m
           w == 2^k * (i + 1)
<1>3. i \in Nat /\ w \in Nat /\ w = e.first + e.size
  <2>1. 2^k * (2 * m + 1) = 2^k * (2 * m) + 2^k
    BY <1>2
  <2> QED
    BY <1>1, <1>2, <2>1
<1>4. BlockSize * w <= n
  <2> HIDE DEF w
  <2>1. BlockSize * w <= BlockSize * c /\ BlockSize * w \in Nat
    BY <1>2, <1>3, Products
  <2>2. BlockSize * c = c * BlockSize /\ c * BlockSize \in Nat
    BY <1>2
  <2> QED
    BY <2>1, <2>2
<1> HIDE DEF i
<1>5. Row(n, k)[i + 1] = Row(n2, k)[i + 1]
  BY <1>3, <1>4, WholeNodes
<1> QED
  BY <1>1, <1>5 DEF Whole, i

LEMMA InitHashes == Init => Hashes
<1> SUFFICES ASSUME Init PROVE Hashes
  OBVIOUS
<1>1. nodes = <<>> /\ Len(nodes) = 0 /\ pc = "ready" /\ index = 0 /\ hash = NoHash
  BY DEF Init
<1> QED
  BY <1>1 DEF Hashes

LEMMA UpdateHashes ==
  ASSUME IndInv, Hashes, NEW n \in Chunks, UpdatePartial(n) \/ UpdateFill(n) \/ UpdateAligned(n)
  PROVE  Hashes'
<1>1. n \in Nat /\ BlockSize \in Nat \ {0}
  BY ChunkAssumption, BlockAssumption
<1>2. /\ count \in Nat /\ fed \in Nat /\ index \in 0..BlockSize
      /\ pc = "ready" /\ fed = count * BlockSize + index /\ index < BlockSize
      /\ count * BlockSize \in Nat
  BY <1>1 DEF IndInv, TypeOK, Accounted, UpdatePartial, UpdateFill, UpdateAligned
<1>3. fed' = fed + n /\ UNCHANGED <<nodes, count, hash>>
  BY DEF UpdatePartial, UpdateFill, UpdateAligned
<1>4. hash = NoHash /\ \A i \in 1..Len(nodes) : Whole(nodes[i], fed)
  BY <1>2 DEF Hashes
<1>5. \A i \in 1..Len(nodes) : Whole(nodes[i], fed')
  <2> TAKE i \in 1..Len(nodes)
  <2>1. nodes[i].first + nodes[i].size <= count /\ fed' \in Nat /\ fed <= fed' /\ count * BlockSize <= fed
    BY <1>1, <1>2, <1>3, NodesEnd
  <2> QED
    BY <1>2, <1>4, <2>1, StaysWhole
<1>6. \A i \in 1..index : block[i] = count * BlockSize + i
  BY <1>2 DEF Hashes
<1>7. CASE UpdatePartial(n)
  <2>1. pc' = "ready" /\ index' = index + n /\ block' = Copied(index, n, fed) /\ index + n < BlockSize
    BY <1>1, <1>2, <1>7 DEF UpdatePartial
  <2>2. \A i \in 1..index' : block'[i] = count * BlockSize + i
    <3> TAKE i \in 1..index'
    <3>1. i \in 1..BlockSize /\ i \in Nat
      BY <1>1, <1>2, <2>1
    <3>2. block'[i] = IF index < i /\ i <= index + n THEN fed + i - index ELSE block[i]
      BY <2>1, <3>1 DEF Copied
    <3> QED
      BY <1>1, <1>2, <1>6, <2>1, <3>1, <3>2
  <2> QED
    BY <1>3, <1>4, <1>5, <2>1, <2>2 DEF Hashes
<1>8. CASE UpdateFill(n)
  <2>1. pc' = "block" /\ index' = BlockSize /\ block' = Copied(index, BlockSize - index, fed)
    BY <1>8 DEF UpdateFill
  <2>2. \A i \in 1..index' : block'[i] = count * BlockSize + i
    <3> TAKE i \in 1..index'
    <3>1. i \in 1..BlockSize /\ i \in Nat
      BY <1>1, <2>1
    <3>2. block'[i] = IF index < i /\ i <= index + (BlockSize - index) THEN fed + i - index ELSE block[i]
      BY <2>1, <3>1 DEF Copied
    <3> QED
      BY <1>1, <1>2, <1>6, <3>1, <3>2
  <2> QED
    BY <1>3, <1>4, <1>5, <2>1, <2>2 DEF Hashes
<1>9. CASE UpdateAligned(n)
  <2>1. pc' = "chunks"
    BY <1>9 DEF UpdateAligned
  <2> QED
    BY <1>3, <1>4, <1>5, <2>1 DEF Hashes
<1> QED
  BY <1>7, <1>8, <1>9

LEMMA ChunkHashes ==
  ASSUME IndInv, Hashes, WholeBlock \/ Leftover
  PROVE  Hashes'
<1>1. BlockSize \in Nat \ {0}
  BY BlockAssumption
<1>2. /\ count \in Nat /\ fed \in Nat /\ len \in Nat /\ pc = "chunks" /\ fed = count * BlockSize + len
      /\ count * BlockSize \in Nat /\ fed - len = count * BlockSize
  BY <1>1 DEF IndInv, TypeOK, Accounted, WholeBlock, Leftover
<1>3. hash = NoHash /\ \A i \in 1..Len(nodes) : Whole(nodes[i], fed)
  BY <1>2 DEF Hashes
<1>4. PICK n \in 0..BlockSize : block' = Copied(0, n, fed - len) /\ index' = n
  BY <1>1, <1>2 DEF WholeBlock, Leftover
<1>5. \A i \in 1..index' : block'[i] = count * BlockSize + i
  <2> TAKE i \in 1..index'
  <2>1. i \in 1..BlockSize /\ i \in Nat /\ 0 < i /\ i <= 0 + n
    BY <1>1, <1>4
  <2>2. block'[i] = (fed - len) + i - 0
    BY <1>4, <2>1 DEF Copied
  <2> QED
    BY <1>2, <2>1, <2>2
<1>6. pc' \in {"block", "ready"} /\ UNCHANGED <<nodes, count, hash, fed>>
  BY DEF WholeBlock, Leftover
<1> QED
  BY <1>3, <1>5, <1>6 DEF Hashes

LEMMA HashBlockHashes ==
  ASSUME IndInv, Hashes, HashBlock
  PROVE  Hashes'
<1>1. BlockSize \in Nat \ {0} /\ 2^0 = 1 /\ 2^0 \in Nat
  BY BlockAssumption, PowerOfTwo
<1>2. /\ count \in Nat /\ fed \in Nat /\ len \in Nat /\ index \in 0..BlockSize
      /\ count * BlockSize \in Nat /\ pc = "block"
      /\ ~final => fed = count * BlockSize + index + len /\ index = BlockSize
      /\ final => fed = count * BlockSize + index /\ index < BlockSize /\ (index = 0 => count = 0)
  BY <1>1 DEF IndInv, TypeOK, Accounted, HashBlock
<1>3. /\ hash = NoHash /\ \A i \in 1..Len(nodes) : Whole(nodes[i], fed)
      /\ \A i \in 1..index : block[i] = count * BlockSize + i
  BY <1>2 DEF Hashes
<1>4. count + 1 <= Count(fed) /\ (final => count + 1 = Count(fed)) /\ Count(fed) \in Nat
  <2>1. BlockSize * (count + 1) = count * BlockSize + BlockSize /\ BlockSize * count = count * BlockSize
    BY <1>1, <1>2
  <2>2. CASE final
    <3>1. fed <= BlockSize * (count + 1) /\ (BlockSize * count < fed \/ count + fed = 0)
      BY <1>1, <1>2, <2>1, <2>2
    <3> QED
      BY <1>2, <3>1, LeavesOf
  <2>3. CASE ~final
    <3>1. BlockSize * (count + 1) <= fed /\ count + 1 \in Nat
      BY <1>1, <1>2, <2>1, <2>3
    <3> QED
      BY <1>2, <2>3, <3>1, WholeLeaves, LeafCountBounds
  <2> QED
    BY <2>2, <2>3
<1> DEFINE t == Leaf([i \in 1..index |-> block[i]])
           e == [first |-> count, size |-> 1, hash |-> t]
<1>5. t = Row(fed, 0)[count + 1]
  <2>1. [i \in 1..index |-> block[i]] = [i \in 1..index |-> count * BlockSize + i]
    BY <1>3
  <2>2. count * BlockSize + index <= fed /\ (index = BlockSize \/ fed = count * BlockSize + index)
    BY <1>1, <1>2
  <2>3. Row(fed, 0)[count + 1] = Leaf([i \in 1..index |-> count * BlockSize + i])
    BY <1>2, <1>4, <2>2, LeafInRow
  <2> QED
    BY <2>1, <2>3
<1>6. e.first = count /\ e.size = 1 /\ e.hash = t
  OBVIOUS
<1>7. /\ nodes' = Append(nodes, e) /\ count' = count + 1 /\ b' = count + 1 /\ pc' = "carry"
      /\ UNCHANGED <<hash, final, fed>>
  BY DEF HashBlock
<1> HIDE DEF t, e
<1>8. /\ Len(nodes) \in Nat /\ Len(nodes') = Len(nodes) + 1
      /\ \A i \in 1..Len(nodes) : nodes'[i] = nodes[i]
      /\ nodes'[Len(nodes) + 1] = e
  BY <1>7, PushNode DEF IndInv, TypeOK, NodesOK
<1>9. Carried(e, fed', count', b')
  <2>1. /\ count' = 2^0 * b' /\ e.size = 2^0 /\ e.first = 2^0 * (b' - 1)
        /\ e.hash = Row(fed', 0)[b'] /\ 0 \in Nat
    BY <1>1, <1>2, <1>5, <1>6, <1>7
  <2> QED
    BY <2>1 DEF Carried
<1>10. \A i \in 1..(Len(nodes') - 1) : Whole(nodes'[i], fed')
  BY <1>3, <1>7, <1>8
<1>11. Len(nodes') > 0 /\ nodes'[Len(nodes')] = e
  BY <1>8
<1> QED
  BY <1>3, <1>4, <1>7, <1>9, <1>10, <1>11 DEF Hashes

-----------------------------------------------------------------------------
(* tt_compose replaces the two topmost nodes by one.                       *)
LEMMA Composed ==
  ASSUME IndInv, Len(nodes) >= 2, Compose
  PROVE  LET d == Len(nodes) IN
         /\ d \in Nat /\ Len(nodes') = d - 1
         /\ \A i \in 1..(d - 2) : nodes'[i] = nodes[i]
         /\ nodes'[d - 1] = Joined(nodes[d - 1], nodes[d])
         /\ nodes[d].first = nodes[d - 1].first + nodes[d - 1].size
<1> DEFINE d == Len(nodes)
           e == Joined(nodes[d - 1], nodes[d])
<1>1. nodes' = Append(SubSeq(nodes, 1, d - 2), e)
  BY DEF Compose
<1> HIDE DEF e
<1>2. /\ d \in Nat /\ Len(nodes') = d - 1
      /\ \A i \in 1..(d - 2) : nodes'[i] = nodes[i]
      /\ nodes'[Len(nodes')] = e
  BY <1>1, JoinTopNodes, SMTT(30) DEF IndInv, TypeOK, NodesOK
<1>3. nodes[d].first = nodes[d - 1].first + nodes[d - 1].size
  <2>1. d - 1 \in 1..(d - 1) /\ (d - 1) + 1 = d
    BY <1>2
  <2>2. nodes[(d - 1) + 1].first = nodes[d - 1].first + nodes[d - 1].size
    BY <2>1 DEF IndInv, Tiling
  <2> QED
    BY <2>1, <2>2
<1> QED
  BY <1>2, <1>3 DEF e

(* In the carry loop the two topmost nodes have the same size.             *)
LEMMA CarryMeets ==
  ASSUME IndInv, Hashes, pc = "carry", b % 2 = 0
  PROVE  LET d == Len(nodes)
             e == nodes[d - 1]
             f == nodes[d]
         IN  /\ d \in Nat /\ d >= 2 /\ e.size = f.size
             /\ Carried(Joined(e, f), fed, count, b \div 2)
<1> DEFINE d == Len(nodes)
<1>1. /\ d \in Nat /\ d > 0 /\ count \in Nat /\ fed \in Nat /\ b \in Nat /\ b > 0
      /\ Carried(nodes[d], fed, count, b) /\ count <= Count(fed)
      /\ \A i \in 1..(d - 1) : Whole(nodes[i], fed)
  BY DEF IndInv, TypeOK, Depth, NodesOK, Hashes
<1>2. d >= 2
  <2>0. d # 1 => d >= 2
    <3> HIDE DEF d
    <3>1. d \in Nat /\ d > 0
      BY <1>1
    <3> QED
      BY <3>1
  <2> SUFFICES ASSUME d = 1 PROVE FALSE
    BY <2>0
  <2>1. nodes[1].first = 0
    BY <1>1 DEF IndInv, Tiling
  <2>2. PICK k \in Nat : nodes[d].first = 2^k * (b - 1)
    BY <1>1 DEF Carried
  <2>3. 2^k \in Nat \ {0} /\ b - 1 \in Nat /\ b - 1 # 0
    BY <1>1, PowerOfTwo
  <2>4. 2^k * 0 < 2^k * (b - 1) /\ 2^k * 0 = 0
    <3>1. 2^k * 0 = 0
      BY <2>3
    <3>2. 2^k * 0 < 2^k * (b - 1)
      <4> DEFINE c == b - 1
      <4>1. 2^k \in Nat \ {0} /\ c \in Nat /\ c # 0
        BY <2>3
      <4> HIDE DEF c
      <4>2. 0 < c /\ 0 \in Nat
        BY <4>1
      <4>3. 2^k * 0 < 2^k * c
        BY <4>1, <4>2, Products
      <4> QED
        BY <4>3 DEF c
    <3> QED
      BY <3>1, <3>2
  <2> QED
    BY <2>1, <2>2, <2>4
<1>3. nodes[d].first = nodes[d - 1].first + nodes[d - 1].size
  <2>1. d - 1 \in 1..(d - 1) /\ (d - 1) + 1 = d
    BY <1>1, <1>2
  <2>2. nodes[(d - 1) + 1].first = nodes[d - 1].first + nodes[d - 1].size
    BY <2>1 DEF IndInv, Tiling
  <2> QED
    BY <2>1, <2>2
<1>4. Whole(nodes[d - 1], fed)
  BY <1>1, <1>2
<1> HIDE DEF d
<1>5. nodes[d - 1].size = nodes[d].size /\ Carried(Joined(nodes[d - 1], nodes[d]), fed, count, b \div 2)
  BY <1>1, <1>3, <1>4, CarriedMeets
<1> QED
  BY <1>1, <1>2, <1>5 DEF d

LEMMA CarryHashes ==
  ASSUME IndInv, Hashes, Carry
  PROVE  Hashes'
<1> DEFINE d == Len(nodes)
           e == Joined(nodes[d - 1], nodes[d])
<1>1. /\ pc = "carry" /\ b % 2 = 0 /\ Compose /\ b' = b \div 2
      /\ UNCHANGED <<count, hash, pc, final, fed>>
  BY DEF Carry
<1>2. d \in Nat /\ d >= 2 /\ Carried(e, fed, count, b \div 2)
  BY <1>1, CarryMeets
<1>3. /\ Len(nodes') = d - 1 /\ \A i \in 1..(d - 2) : nodes'[i] = nodes[i]
      /\ nodes'[d - 1] = e
  BY <1>1, <1>2, Composed
<1>4. /\ hash = NoHash /\ count <= Count(fed) /\ (final => count = Count(fed))
      /\ \A i \in 1..(d - 1) : Whole(nodes[i], fed)
  BY <1>1 DEF Hashes
<1> HIDE DEF d, e
<1>5. Len(nodes') > 0 /\ \A i \in 1..(Len(nodes') - 1) : Whole(nodes'[i], fed')
  BY <1>1, <1>2, <1>3, <1>4
<1>6. Carried(nodes'[Len(nodes')], fed', count', b')
  BY <1>1, <1>2, <1>3
<1> QED
  BY <1>1, <1>4, <1>5, <1>6 DEF Hashes

LEMMA CarryEndHashes ==
  ASSUME IndInv, Hashes, CarryEnd
  PROVE  Hashes'
<1> DEFINE d == Len(nodes)
<1>1. /\ pc = "carry" /\ b % 2 = 1 /\ pc' = IF final THEN "fold" ELSE "chunks"
      /\ UNCHANGED <<count, index, block, nodes, hash, final, fed>>
  BY DEF CarryEnd
<1>2. /\ d \in Nat /\ d > 0 /\ count \in Nat /\ fed \in Nat /\ b \in Nat /\ b > 0
      /\ Carried(nodes[d], fed, count, b) /\ (final => count = Count(fed)) /\ hash = NoHash
      /\ \A i \in 1..(d - 1) : Whole(nodes[i], fed)
  BY <1>1 DEF IndInv, TypeOK, Depth, NodesOK, Hashes
<1>3. PICK k \in Nat : /\ count = 2^k * b /\ nodes[d].size = 2^k /\ nodes[d].first = 2^k * (b - 1)
                       /\ nodes[d].hash = Row(fed, k)[b]
  BY <1>2 DEF Carried
<1>4. CASE final
  <2> DEFINE m == b - 1
  <2>1. m \in Nat /\ b = m + 1 /\ 2^k \in Nat \ {0}
    BY <1>2, PowerOfTwo
  <2>2. nodes[d].first < count
    <3>1. 2^k * m < 2^k * b
      BY <1>2, <2>1, Products
    <3> QED
      BY <1>3, <3>1
  <2>3. nodes[d].first < Count(fed) /\ Count(fed) <= 2^k * (m + 1)
    <3>1. Count(fed) = count /\ count <= count
      BY <1>2, <1>4
    <3> QED
      BY <1>3, <2>1, <2>2, <3>1
  <2>4. nodes[d].first = 2^k * m /\ nodes[d].hash = Row(fed, k)[m + 1]
    BY <1>3, <2>1
  <2> HIDE DEF m
  <2>5. Topmost(nodes[d], fed)
    BY <2>1, <2>3, <2>4 DEF Topmost
  <2> QED
    BY <1>1, <1>2, <1>4, <2>5 DEF Hashes
<1>5. CASE ~final
  <2> DEFINE m == b \div 2
  <2>1. m \in Nat /\ b = 2 * m + 1 /\ b - 1 = 2 * m
    BY <1>1, <1>2
  <2> HIDE DEF m
  <2>2. Whole(nodes[d], fed)
    BY <1>3, <2>1 DEF Whole
  <2>3. \A i \in 1..d : Whole(nodes[i], fed)
    BY <1>2, <2>2
  <2> QED
    BY <1>1, <1>2, <1>5, <2>3 DEF Hashes
<1> QED
  BY <1>4, <1>5

LEMMA FinalHashes ==
  ASSUME IndInv, Hashes, Final
  PROVE  Hashes'
<1> DEFINE d == Len(nodes)
<1>1. BlockSize \in Nat \ {0}
  BY BlockAssumption
<1>2. /\ pc = "ready" /\ UNCHANGED <<count, block, index, nodes, hash, fed>>
      /\ pc' = IF index > 0 \/ nodes = <<>> THEN "block" ELSE "fold"
  BY DEF Final
<1>3. /\ d \in Nat /\ nodes \in Seq(Range(nodes)) /\ count \in Nat /\ fed \in Nat /\ index \in 0..BlockSize
      /\ fed = count * BlockSize + index /\ count * BlockSize \in Nat
      /\ hash = NoHash /\ \A i \in 1..d : Whole(nodes[i], fed)
      /\ \A i \in 1..index : block[i] = count * BlockSize + i
  BY <1>1, <1>2 DEF IndInv, TypeOK, Accounted, NodesOK, Hashes
<1>4. CASE index > 0 \/ nodes = <<>>
  BY <1>2, <1>3, <1>4 DEF Hashes
<1>5. CASE ~(index > 0 \/ nodes = <<>>)
  <2>1. index = 0 /\ d > 0 /\ pc' = "fold"
    BY <1>2, <1>3, <1>5
  <2>2. count > 0 /\ nodes[d].first + nodes[d].size = count
    BY <1>3, <2>1 DEF IndInv, Tiling
  <2>3. Count(fed) = count
    <3> DEFINE c == count - 1
    <3>1. c \in Nat /\ count = c + 1
      BY <1>3, <2>2
    <3>2. BlockSize * (c + 1) = BlockSize * c + BlockSize /\ BlockSize * (c + 1) = count * BlockSize
          /\ BlockSize * c \in Nat
      BY <1>1, <3>1
    <3>3. fed <= BlockSize * (c + 1) /\ BlockSize * c < fed
      BY <1>1, <1>3, <2>1, <3>2
    <3> HIDE DEF c
    <3>4. Count(fed) = c + 1
      BY <1>3, <3>1, <3>3, LeavesOf
    <3> QED
      BY <3>1, <3>4
  <2>4. PICK k \in Nat, m \in Nat : /\ nodes[d].size = 2^k /\ nodes[d].first = 2^k * (2 * m)
                                    /\ nodes[d].hash = Row(fed, k)[2 * m + 1]
    <3> HIDE DEF d
    <3>1. d \in 1..d
      BY <1>3, <2>1
    <3>2. Whole(nodes[d], fed)
      BY <1>3, <3>1
    <3> QED
      BY <3>2 DEF Whole
  <2> DEFINE q == 2 * m
  <2>5. q \in Nat /\ 2^k \in Nat \ {0}
    BY PowerOfTwo
  <2>6. nodes[d].first = 2^k * q /\ nodes[d].hash = Row(fed, k)[q + 1]
    BY <2>4
  <2> HIDE DEF q
  <2>7. 2^k * (q + 1) = 2^k * q + 2^k /\ 2^k * q \in Nat
    BY <2>5
  <2>8. nodes[d].first < Count(fed) /\ Count(fed) <= 2^k * (q + 1)
    BY <1>3, <2>2, <2>3, <2>4, <2>5, <2>6, <2>7
  <2>9. Topmost(nodes[d], fed)
    BY <2>5, <2>6, <2>8 DEF Topmost
  <2> QED
    BY <1>2, <1>3, <2>1, <2>9 DEF Hashes
<1> QED
  BY <1>4, <1>5

LEMMA FoldHashes ==
  ASSUME IndInv, Hashes, Fold
  PROVE  Hashes'
<1> DEFINE d == Len(nodes)
           e == Joined(nodes[d - 1], nodes[d])
<1>1. pc = "fold" /\ d > 1 /\ Compose /\ UNCHANGED <<count, hash, pc, final, fed>>
  BY DEF Fold
<1>2. /\ d \in Nat /\ fed \in Nat /\ hash = NoHash /\ Topmost(nodes[d], fed)
      /\ \A i \in 1..(d - 1) : Whole(nodes[i], fed)
  BY <1>1 DEF IndInv, TypeOK, NodesOK, Hashes
<1>3. /\ Len(nodes') = d - 1 /\ \A i \in 1..(d - 2) : nodes'[i] = nodes[i]
      /\ nodes'[d - 1] = e /\ nodes[d].first = nodes[d - 1].first + nodes[d - 1].size
  BY <1>1, <1>2, Composed
<1>4. Topmost(e, fed)
  <2>1. Whole(nodes[d - 1], fed)
    BY <1>1, <1>2
  <2> HIDE DEF d
  <2> QED
    BY <1>2, <1>3, <2>1, TopmostMeets
<1> HIDE DEF d, e
<1>5. Len(nodes') > 0 /\ \A i \in 1..(Len(nodes') - 1) : Whole(nodes'[i], fed')
  BY <1>1, <1>2, <1>3
<1>6. Topmost(nodes'[Len(nodes')], fed')
  BY <1>1, <1>3, <1>4
<1> QED
  BY <1>1, <1>2, <1>5, <1>6 DEF Hashes

(* The last node is the root.                                              *)
LEMMA DigestIsRoot ==
  ASSUME IndInv, Hashes, Digest
  PROVE  hash' = Abstract!Root(fed) /\ Hashes'
<1>1. pc = "fold" /\ Len(nodes) <= 1 /\ hash' = nodes[1].hash /\ pc' = "done"
  BY DEF Digest
<1>2. /\ Len(nodes) \in Nat /\ Len(nodes) > 0 /\ fed \in Nat /\ Topmost(nodes[Len(nodes)], fed)
  BY <1>1 DEF IndInv, TypeOK, NodesOK, Hashes
<1>3. Len(nodes) = 1 /\ nodes[1].first = 0
  <2> DEFINE d == Len(nodes)
  <2>1. d \in Nat /\ d > 0 /\ d <= 1
    BY <1>1, <1>2
  <2>2. d > 0 => nodes[1].first = 0
    BY DEF IndInv, Tiling
  <2> HIDE DEF d
  <2>3. d = 1
    BY <2>1
  <2> QED
    BY <2>2, <2>3 DEF d
<1>4. PICK k \in Nat, m \in Nat : /\ 0 = 2^k * m /\ Count(fed) <= 2^k * (m + 1)
                                  /\ nodes[1].hash = Row(fed, k)[m + 1]
  BY <1>2, <1>3 DEF Topmost
<1>5. m = 0
  <2>1. 2^k \in Nat \ {0} /\ 2^k * 0 = 0
    BY PowerOfTwo
  <2>2. 2^k * m = 2^k * 0 /\ 0 \in Nat
    BY <1>4, <2>1
  <2> QED
    BY <2>1, <2>2, Products
<1>6. Len(Row(fed, k)) = 1
  <2>1. Len(Row(fed, k)) <= m + 1 /\ Len(Row(fed, k)) \in Nat \ {0}
    BY <1>2, <1>4, InRow, RowLength
  <2> QED
    BY <1>5, <2>1
<1>7. Abstract!Root(fed) = Row(fed, k)[1]
  BY <1>2, <1>6, RootIs
<1>8. hash' = Abstract!Root(fed)
  BY <1>1, <1>4, <1>5, <1>7
<1>9. Hashes'
  BY <1>1 DEF Hashes
<1> QED
  BY <1>8, <1>9

LEMMA NextHashes ==
  ASSUME IndInv, Hashes, [Next]_vars
  PROVE  Hashes'
<1>1. CASE UNCHANGED vars
  BY <1>1 DEF vars, Hashes
<1>2. CASE Update
  BY <1>2, UpdateHashes DEF Update
<1> QED
  BY <1>1, <1>2, ChunkHashes, HashBlockHashes, CarryHashes, CarryEndHashes, FinalHashes, FoldHashes,
     DigestIsRoot DEF Next

-----------------------------------------------------------------------------
(* What the stack holds are nodes of the THEX tree over the bytes fed.     *)
THEOREM NodesOfTheTree == Spec => [](IndInv /\ Hashes)
<1>1. Init => IndInv /\ Hashes
  BY InitInv, InitHashes
<1>2. (IndInv /\ Hashes) /\ [Next]_vars => (IndInv /\ Hashes)'
  <2> SUFFICES ASSUME IndInv, Hashes, [Next]_vars
               PROVE  IndInv' /\ Hashes'
    OBVIOUS
  <2> QED
    BY NextInv, NextHashes
<1> QED
  BY <1>1, <1>2, PTL DEF Spec

(* The carry loop of tt_block joins complete trees of the same size only.  *)
THEOREM NeighboursJoined == Spec => []JoinsNeighbours
<1>1. IndInv /\ Hashes => JoinsNeighbours
  <2> SUFFICES ASSUME IndInv, Hashes, pc = "carry", b % 2 = 0
               PROVE  LET d == Len(nodes) IN d >= 2 /\ nodes[d - 1].size = nodes[d].size
    BY DEF JoinsNeighbours
  <2> QED
    BY CarryMeets
<1> QED
  BY <1>1, NodesOfTheTree, PTL

(* The context implements the tree hash: whatever the calls of tt_update,  *)
(* tt_digest stores the root of the THEX tree over all bytes.              *)
THEOREM ComputesTheTree == Spec => ImplementsTreeHash
<1>1. Init => Abstract!Init
  BY DEF Init, Abstract!Init
<1>2. ASSUME IndInv, Hashes, [Next]_vars
      PROVE  [Abstract!Next]_<<fed, hash>>
  <2>1. CASE Update
    <3>1. PICK n \in Chunks : UpdatePartial(n) \/ UpdateFill(n) \/ UpdateAligned(n)
      BY <2>1 DEF Update
    <3>2. n \in Nat /\ fed \in Nat /\ pc = "ready" /\ fed + n <= MaxBytes /\ fed' = fed + n /\ hash' = hash
      BY <1>2, <3>1, ChunkAssumption DEF IndInv, TypeOK, UpdatePartial, UpdateFill, UpdateAligned
    <3>3. hash = NoHash /\ n \in 0..MaxBytes
      BY <1>2, <3>2, BoundAssumption DEF Hashes
    <3>4. Abstract!Absorb(n)
      BY <3>2, <3>3 DEF Abstract!Absorb
    <3> QED
      BY <3>3, <3>4 DEF Abstract!Next
  <2>2. CASE Digest
    <3>1. hash = NoHash /\ hash' = Abstract!Root(fed) /\ fed' = fed
      BY <1>2, <2>2, DigestIsRoot DEF Digest, Hashes
    <3>2. Abstract!Finish
      BY <3>1 DEF Abstract!Finish
    <3> QED
      BY <3>2 DEF Abstract!Next
  <2>3. CASE WholeBlock \/ Leftover \/ HashBlock \/ Carry \/ CarryEnd \/ Final \/ Fold \/ UNCHANGED vars
    BY <2>3 DEF WholeBlock, Leftover, HashBlock, Carry, CarryEnd, Final, Fold, vars
  <2> QED
    BY <1>2, <2>1, <2>2, <2>3 DEF Next
<1> QED
  BY <1>1, <1>2, NodesOfTheTree, PTL DEF Spec, ImplementsTreeHash, Abstract!Spec
=============================================================================

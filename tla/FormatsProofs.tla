---------------------------- MODULE FormatsProofs -----------------------------
(***************************************************************************)
(* Proofs about base 32 and base 16: the functions of Codec, the jobs of   *)
(* MCFormats that use them and the option -c of Convert, for bytes of any  *)
(* number, buffers of any size and texts of any length; behind these,      *)
(* about the padding of Tiger, for messages of any length, about the       *)
(* searches of Search, for data and patterns of any length and any number, *)
(* and about the prefixes and classes of any address.  FormatsKnown is     *)
(* what every job of MCFormats comes from.                                 *)
(*                                                                         *)
(* The encoders and decoders are compared bit by bit.  A place among the   *)
(* bits is place i of group h of forty bits; the shifts and masks are      *)
(* checked for each of the forty places, and what is left is where the     *)
(* group begins.  The loop of base32_decode is a recursive function; what  *)
(* it has stored after so many characters (Progress) is proved of its      *)
(* turns by induction.                                                     *)
(*                                                                         *)
(* The local union of tiger is followed byte by byte through the steps of  *)
(* the padding.  Memory is a permutation of the bytes of each word, so     *)
(* what is stored between two places where words begin is the same in      *)
(* every layout; what the bytes held before is seen nowhere.               *)
(*                                                                         *)
(* The loops of compat_memmem and prime_up are recursive functions too;    *)
(* what their locals say of the part that was searched (Searched) and of   *)
(* the sieve (Sieved) so far is kept by each turn.                         *)
(***************************************************************************)
EXTENDS MCFormats, Convert, FiniteSetTheorems, WellFoundedInduction, TLAPS

(* Induction: a set that contains 0 and the successor of each of its       *)
(* numbers contains every number.                                          *)
LEMMA SetInduction ==
  ASSUME NEW S, 0 \in S, \A n \in Nat : n \in S => n + 1 \in S
  PROVE  Nat \subseteq S
<1> DEFINE T0 == Nat \ S
<1> SUFFICES ASSUME T0 # {} PROVE FALSE
  OBVIOUS
<1>1. PICK x \in T0 : \A y \in T0 : ~ (<<y, x>> \in OpToRel(<, Nat))
  BY WFMin, NatLessThanWellFounded
<1>2. \A y \in T0 : ~ (y < x)
  BY <1>1 DEF OpToRel
<1>3. x # 0 /\ x - 1 \in Nat /\ x - 1 \notin T0
  BY <1>2
<1> QED
  BY <1>3

(* The smaller one of two numbers.                                         *)
LEMMA MinOfTwo ==
  ASSUME NEW a \in Int, NEW b \in Int
  PROVE  Min({a, b}) = IF a <= b THEN a ELSE b
<1> DEFINE m == IF a <= b THEN a ELSE b
<1>1. m \in {a, b} /\ \A y \in {a, b} : m <= y
  OBVIOUS
<1>2. \A x \in {a, b} : (\A y \in {a, b} : x <= y) => x = m
  OBVIOUS
<1> HIDE DEF m
<1>3. Min({a, b}) \in {a, b} /\ \A y \in {a, b} : Min({a, b}) <= y
  BY <1>1 DEF Min
<1>4. Min({a, b}) = m
  BY <1>2, <1>3
<1> QED
  BY <1>4 DEF m

-----------------------------------------------------------------------------
(* Base 32: five bytes and eight symbols.                                  *)

(* The bits of eight symbols are those of the five bytes.                  *)
LEMMA GroupBits ==
  ASSUME NEW x \in [1..5 -> Byte], NEW i \in 1..40
  PROVE  Bit(5, Symbols(x), i) = Bit(8, x, i)
<1> USE DEF Symbols, Bit, CeilDiv, Weight
<1>0. /\ x[1] \in 0..255 /\ x[2] \in 0..255 /\ x[3] \in 0..255
      /\ x[4] \in 0..255 /\ x[5] \in 0..255
  BY DEF Byte
<1> USE <1>0
<1>1. CASE i \in 1..5
  BY <1>1
<1>2. CASE i \in 6..10
  BY <1>2
<1>3. CASE i \in 11..15
  BY <1>3
<1>4. CASE i \in 16..20
  BY <1>4
<1>5. CASE i \in 21..25
  BY <1>5
<1>6. CASE i \in 26..30
  BY <1>6
<1>7. CASE i \in 31..35
  BY <1>7
<1>8. CASE i \in 36..40
  BY <1>8
<1> QED
  BY <1>1, <1>2, <1>3, <1>4, <1>5, <1>6, <1>7, <1>8

(* The shifts of the decoder keep every bit: bit i of the five bytes is    *)
(* bit i of the eight symbols.                                             *)
LEMMA OctetBits ==
  ASSUME NEW s \in [1..8 -> 0..31], NEW i \in 1..40
  PROVE  Bit(8, Octets(s), i) = Bit(5, s, i)
<1> USE DEF Octets, Bit, CeilDiv, Weight
<1>0. /\ s[1] \in 0..31 /\ s[2] \in 0..31 /\ s[3] \in 0..31 /\ s[4] \in 0..31
      /\ s[5] \in 0..31 /\ s[6] \in 0..31 /\ s[7] \in 0..31 /\ s[8] \in 0..31
  OBVIOUS
<1> USE <1>0
<1>1. CASE i \in 1..5
  BY <1>1
<1>2. CASE i \in 6..10
  BY <1>2
<1>3. CASE i \in 11..15
  BY <1>3
<1>4. CASE i \in 16..20
  BY <1>4
<1>5. CASE i \in 21..25
  BY <1>5
<1>6. CASE i \in 26..30
  BY <1>6
<1>7. CASE i \in 31..35
  BY <1>7
<1>8. CASE i \in 36..40
  BY <1>8
<1> QED
  BY <1>1, <1>2, <1>3, <1>4, <1>5, <1>6, <1>7, <1>8

(* Tuples.                                                                 *)
LEMMA EightOf ==
  ASSUME NEW S, NEW a \in S, NEW b \in S, NEW c \in S, NEW d \in S,
         NEW e \in S, NEW f \in S, NEW g \in S, NEW h \in S
  PROVE  <<a, b, c, d, e, f, g, h>> \in [1..8 -> S]
OBVIOUS

(* The shifts and masks of the encoder make symbols.                       *)
LEMMA SymbolsOfBytes ==
  ASSUME NEW x \in [1..5 -> Byte]
  PROVE  Symbols(x) \in [1..8 -> 0..31]
<1>1. x[1] \in 0..255 /\ x[2] \in 0..255 /\ x[3] \in 0..255 /\ x[4] \in 0..255 /\ x[5] \in 0..255
  BY DEF Byte
<1>2. /\ x[1] \div 8 \in 0..31
      /\ (x[1] % 8) * 4 + (x[2] \div 64) \in 0..31
      /\ (x[2] \div 2) % 32 \in 0..31
      /\ (x[2] % 2) * 16 + (x[3] \div 16) \in 0..31
  BY <1>1
<1>3. /\ (x[3] % 16) * 2 + (x[4] \div 128) \in 0..31
      /\ (x[4] \div 4) % 32 \in 0..31
      /\ (x[4] % 4) * 8 + (x[5] \div 32) \in 0..31
      /\ x[5] % 32 \in 0..31
  BY <1>1
<1> QED
  BY <1>2, <1>3, EightOf, Zenon DEF Symbols

(* The shifts and masks of the decoder make bytes.                         *)
LEMMA OctetsOfSymbols ==
  ASSUME NEW s \in [1..8 -> 0..31]
  PROVE  Octets(s) \in [1..5 -> Byte]
<1>1. /\ s[1] \in 0..31 /\ s[2] \in 0..31 /\ s[3] \in 0..31 /\ s[4] \in 0..31
      /\ s[5] \in 0..31 /\ s[6] \in 0..31 /\ s[7] \in 0..31 /\ s[8] \in 0..31
  OBVIOUS
<1>2. /\ s[1] * 8 + (s[2] \div 4) \in Byte
      /\ (s[2] % 4) * 64 + (s[3] * 2) + (s[4] \div 16) \in Byte
      /\ (s[4] % 16) * 16 + (s[5] \div 2) \in Byte
      /\ (s[5] % 2) * 128 + (s[6] * 4) + (s[7] \div 8) \in Byte
      /\ (s[7] % 8) * 32 + s[8] \in Byte
  BY <1>1 DEF Byte
<1> QED
  BY <1>2 DEF Octets

(* Decoding what was encoded.                                              *)
LEMMA OctetsAreBytes ==
  ASSUME NEW x \in [1..5 -> Byte]
  PROVE  Octets(Symbols(x)) = x
<1>1. x[1] \in 0..255 /\ x[2] \in 0..255 /\ x[3] \in 0..255 /\ x[4] \in 0..255 /\ x[5] \in 0..255
  BY DEF Byte
<1>2. /\ (x[1] \div 8) * 8 + (((x[1] % 8) * 4 + (x[2] \div 64)) \div 4) = x[1]
      /\ (((x[1] % 8) * 4 + (x[2] \div 64)) % 4) * 64 + (((x[2] \div 2) % 32) * 2)
           + (((x[2] % 2) * 16 + (x[3] \div 16)) \div 16) = x[2]
  BY <1>1
<1>3. (((x[2] % 2) * 16 + (x[3] \div 16)) % 16) * 16 + (((x[3] % 16) * 2 + (x[4] \div 128)) \div 2) = x[3]
  BY <1>1
<1>4. (((x[3] % 16) * 2 + (x[4] \div 128)) % 2) * 128 + (((x[4] \div 4) % 32) * 4)
           + (((x[4] % 4) * 8 + (x[5] \div 32)) \div 8) = x[4]
  BY <1>1
<1>5. (((x[4] % 4) * 8 + (x[5] \div 32)) % 8) * 32 + (x[5] % 32) = x[5]
  BY <1>1
<1>6. Octets(Symbols(x)) = <<x[1], x[2], x[3], x[4], x[5]>>
  BY <1>2, <1>3, <1>4, <1>5 DEF Octets, Symbols
<1>7. x = <<x[1], x[2], x[3], x[4], x[5]>>
  OBVIOUS
<1> QED
  BY <1>6, <1>7

-----------------------------------------------------------------------------
(* The recursive function of the turns of base32_decode.                   *)

(* The loop of base32_decode: its turns exist.                             *)
TurnsUpTo(g, size, chars, N) ==
  g = [k \in 0..N |->
         IF k = 0 THEN [pads |-> 3, dst |-> <<>>, ret |-> 0, end |-> FALSE]
         ELSE Base32Turn(size, chars, g[k - 1], k)]

(* There is a table of as many turns as one likes: by induction, a table   *)
(* is made longer by one turn.                                             *)
LEMMA TurnsExist ==
  ASSUME NEW size, NEW chars
  PROVE  \A N \in Nat : \E g : TurnsUpTo(g, size, chars, N)
<1> DEFINE first == [pads |-> 3, dst |-> <<>>, ret |-> 0, end |-> FALSE]
           S == {N \in Nat : \E g : TurnsUpTo(g, size, chars, N)}
<1>1. 0 \in S
  <2> DEFINE z == [k \in 0..0 |-> first]
  <2>1. TurnsUpTo(z, size, chars, 0)
    BY DEF TurnsUpTo
  <2> QED
    BY <2>1
<1>2. ASSUME NEW N \in Nat, N \in S PROVE N + 1 \in S
  <2>1. PICK g : TurnsUpTo(g, size, chars, N)
    BY <1>2
  <2> DEFINE h == [k \in 0..(N + 1) |->
                     IF k = N + 1 THEN Base32Turn(size, chars, g[N], N + 1) ELSE g[k]]
  <2>2. ASSUME NEW k \in 0..(N + 1)
        PROVE  h[k] = IF k = 0 THEN first ELSE Base32Turn(size, chars, h[k - 1], k)
    <3>1. CASE k = N + 1
      <4>1. k # 0 /\ k - 1 = N /\ N \in 0..(N + 1) /\ N # N + 1
        BY <3>1
      <4> QED
        BY <3>1, <4>1
    <3>2. CASE k # N + 1
      <4>1. k \in 0..N /\ k \in 0..(N + 1)
        BY <3>2
      <4>2. h[k] = g[k]
        BY <3>2
      <4>3. k # 0 => k - 1 \in 0..(N + 1) /\ k - 1 # N + 1
        BY <4>1
      <4>4. k # 0 => h[k - 1] = g[k - 1]
        BY <4>3
      <4> HIDE DEF h
      <4> QED
        BY <2>1, <4>1, <4>2, <4>4 DEF TurnsUpTo
    <3> QED
      BY <3>1, <3>2
  <2>3. h = [k \in 0..(N + 1) |-> h[k]]
    OBVIOUS
  <2> HIDE DEF h
  <2>4. TurnsUpTo(h, size, chars, N + 1)
    BY <2>2, <2>3 DEF TurnsUpTo
  <2> QED
    BY <2>4
<1> HIDE DEF S
<1>3. Nat \subseteq S
  BY <1>1, <1>2, SetInduction
<1> QED
  BY <1>3 DEF S

(* So the recursive function of the turns is what its equations say.       *)
LEMMA TurnsAre ==
  ASSUME NEW size, NEW chars, Len(chars) \in Nat
  PROVE  /\ Base32Turns(size, chars)[0] = [pads |-> 3, dst |-> <<>>, ret |-> 0, end |-> FALSE]
         /\ \A k \in 1..Len(chars) :
              Base32Turns(size, chars)[k] = Base32Turn(size, chars, Base32Turns(size, chars)[k - 1], k)
<1> DEFINE t == Base32Turns(size, chars)
<1>1. \E g : TurnsUpTo(g, size, chars, Len(chars))
  BY TurnsExist
<1>2. TurnsUpTo(t, size, chars, Len(chars))
  BY <1>1 DEF TurnsUpTo, Base32Turns
<1> HIDE DEF t
<1>3. 0 \in 0..Len(chars) /\ \A k \in 1..Len(chars) : k \in 0..Len(chars) /\ k # 0
  OBVIOUS
<1>4. /\ t[0] = [pads |-> 3, dst |-> <<>>, ret |-> 0, end |-> FALSE]
      /\ \A k \in 1..Len(chars) : t[k] = Base32Turn(size, chars, t[k - 1], k)
  BY <1>2, <1>3 DEF TurnsUpTo
<1> QED
  BY <1>4 DEF t

-----------------------------------------------------------------------------
(* base32_decode: the invariant of its loop.                               *)

(* What the turns of base32_decode have done.                              *)
Pads(chars, k) == Cardinality({j \in 1..k : chars[j] = Pad})

(* Byte m of what the symbols of a chars stand for.                         *)
Octet(chars, m) ==
  Octets([j \in 1..8 |-> Symbol(chars[8 * CeilDiv(m, 5) - 8 + j])])[1 + ((m - 1) % 5)]

(* The bytes of n groups, as far as there is room.                         *)
OctetsUpTo(size, chars, n) ==
  [m \in 1..(IF size <= 5 * n THEN size ELSE 5 * n) |-> Octet(chars, m)]

(* Behind character k the loop goes on.                                    *)
Alive(size, chars, k) ==
  /\ \A j \in 1..k : chars[j] # Bad
  /\ Pads(chars, k) < 3
  /\ k > 0 => 5 * (k \div 8) < size

(* It ended at character e.                                                *)
StoppedAt(size, chars, e, st) ==
  /\ Alive(size, chars, e - 1) /\ ~Alive(size, chars, e)
  /\ st.end
  /\ chars[e] = Bad => st.ret = -1 /\ st.dst = OctetsUpTo(size, chars, (e - 1) \div 8)
  /\ chars[e] # Bad => st.ret = Len(st.dst) /\ st.dst = OctetsUpTo(size, chars, e \div 8)

Progress(size, chars, k, st) ==
  /\ Alive(size, chars, k) =>
       st = [pads |-> 3 - Pads(chars, k), dst |-> OctetsUpTo(size, chars, k \div 8),
             ret |-> 5 * (k \div 8), end |-> FALSE]
  /\ ~Alive(size, chars, k) => \E e \in 1..k : StoppedAt(size, chars, e, st)

(* The number of the '=' in the first characters, and how it grows.        *)
LEMMA PadsCount ==
  ASSUME NEW chars, NEW k \in Nat
  PROVE  /\ Pads(chars, 0) = 0
         /\ Pads(chars, k) \in Nat
         /\ Pads(chars, k + 1) = IF chars[k + 1] = Pad THEN Pads(chars, k) + 1 ELSE Pads(chars, k)
<1> DEFINE P(n) == {j \in 1..n : chars[j] = Pad}
<1>1. P(0) = {}
  OBVIOUS
<1>2. IsFiniteSet(P(k))
  <2>1. IsFiniteSet(1..k) /\ P(k) \subseteq 1..k
    BY FS_Interval
  <2> QED
    BY <2>1, FS_Subset
<1>3. k + 1 \notin P(k) /\ P(k + 1) = IF chars[k + 1] = Pad THEN P(k) \cup {k + 1} ELSE P(k)
  <2>1. 1..(k + 1) = (1..k) \cup {k + 1} /\ k + 1 \notin 1..k
    OBVIOUS
  <2> QED
    BY <2>1
<1> HIDE DEF P
<1>4. Cardinality(P(0)) = 0 /\ Cardinality(P(k)) \in Nat
  BY <1>1, <1>2, FS_EmptySet, FS_CardinalityType
<1>5. Cardinality(P(k) \cup {k + 1}) = Cardinality(P(k)) + 1
  BY <1>2, <1>3, FS_AddElement
<1> QED
  BY <1>3, <1>4, <1>5 DEF Pads, P

(* The length of what was stored.                                          *)
LEMMA OctetsLength ==
  ASSUME NEW size \in Nat, NEW chars, NEW n \in Nat
  PROVE  Len(OctetsUpTo(size, chars, n)) = IF size <= 5 * n THEN size ELSE 5 * n
<1> DEFINE l == IF size <= 5 * n THEN size ELSE 5 * n
<1>1. l \in Nat
  OBVIOUS
<1> HIDE DEF l
<1>2. Len([m \in 1..l |-> Octet(chars, m)]) = l
  BY <1>1
<1> QED
  BY <1>2 DEF OctetsUpTo, l

(* What the symbols of group h + 1 stand for.                              *)
GroupOctets(chars, h) == Octets([j \in 1..8 |-> Symbol(chars[8 * h + j])])

(* The group that a byte is in.                                            *)
LEMMA OctetOfGroup ==
  ASSUME NEW chars, NEW m, NEW i, NEW n \in Nat,
         CeilDiv(m, 5) = n + 1, 1 + ((m - 1) % 5) = i
  PROVE  Octet(chars, m) = GroupOctets(chars, n)[i]
<1>1. \A j \in 1..8 : 8 * CeilDiv(m, 5) - 8 + j = 8 * n + j
  OBVIOUS
<1>2. [j \in 1..8 |-> Symbol(chars[8 * CeilDiv(m, 5) - 8 + j])] = [j \in 1..8 |-> Symbol(chars[8 * n + j])]
  BY <1>1
<1>3. Octet(chars, m) = Octets([j \in 1..8 |-> Symbol(chars[8 * CeilDiv(m, 5) - 8 + j])])[i]
  BY DEF Octet
<1> QED
  BY <1>2, <1>3 DEF GroupOctets

(* A group is copied out.                                                  *)
LEMMA CopyGroup ==
  ASSUME NEW size \in Nat, NEW chars, NEW n \in Nat, 5 * n < size
  PROVE  CopyOut(OctetsUpTo(size, chars, n), GroupOctets(chars, n), size)
           = OctetsUpTo(size, chars, n + 1)
<1> DEFINE d == OctetsUpTo(size, chars, n)
           o == GroupOctets(chars, n)
           c == IF 5 <= size - 5 * n THEN 5 ELSE size - 5 * n
           l == IF size <= 5 * (n + 1) THEN size ELSE 5 * (n + 1)
           p == 5 * n
           q == SubSeq(o, 1, c)
<1>1. p \in Nat /\ c \in 1..5 /\ l = p + c
  OBVIOUS
<1>2. Len(d) = p /\ d = [m \in 1..p |-> Octet(chars, m)]
  BY OctetsLength DEF OctetsUpTo
<1>3. Min({5, size - Len(d)}) = c
  <2>1. size - p \in Int
    BY <1>1
  <2>2. Min({5, size - p}) = IF 5 <= size - p THEN 5 ELSE size - p
    BY <2>1, MinOfTwo
  <2> HIDE DEF d
  <2> QED
    BY <2>2, <1>2
<1>4. Len(o) = 5 /\ o = [i \in 1..5 |-> o[i]]
  BY DEF Octets, GroupOctets
<1>5. q = [i \in 1..c |-> o[i]]
  <2> HIDE DEF o, c
  <2> QED
    BY <1>1, <1>4
<1>6. ASSUME NEW i \in 1..c PROVE o[i] = Octet(chars, p + i)
  <2> DEFINE r == p + i
  <2>1. i \in 1..5
    BY <1>1
  <2>2. CeilDiv(r, 5) = n + 1 /\ 1 + ((r - 1) % 5) = i
    BY <2>1 DEF CeilDiv
  <2> HIDE DEF r
  <2>3. Octet(chars, r) = o[i]
    BY <2>2, OctetOfGroup
  <2> QED
    BY <2>3 DEF r
<1>7. Len(q) = c /\ d \o q = [m \in 1..(p + c) |-> IF m <= p THEN d[m] ELSE q[m - p]]
  <2> HIDE DEF d, q, c, p
  <2>1. Len(q) = c
    BY <1>1, <1>5
  <2> QED
    BY <1>1, <1>2, <1>5, <2>1
<1>8. \A m \in 1..(p + c) : (IF m <= p THEN d[m] ELSE q[m - p]) = Octet(chars, m)
  <2> HIDE DEF d, q, c, p, o
  <2> TAKE m \in 1..(p + c)
  <2>1. CASE m <= p
    <3>1. m \in 1..p
      BY <1>1, <2>1
    <3> QED
      BY <2>1, <3>1, <1>2
  <2>2. CASE ~ (m <= p)
    <3>1. m - p \in 1..c /\ p + (m - p) = m
      BY <1>1, <2>2
    <3>2. q[m - p] = Octet(chars, p + (m - p))
      BY <3>1, <1>5, <1>6
    <3> QED
      BY <2>2, <3>1, <3>2
  <2> QED
    BY <2>1, <2>2
<1>9. d \o q = [m \in 1..l |-> Octet(chars, m)]
  <2> HIDE DEF d, q, c, p, o, l
  <2> QED
    BY <1>1, <1>7, <1>8
<1>10. CopyOut(d, o, size) = d \o q
  <2> HIDE DEF d, o, c
  <2> QED
    BY <1>3 DEF CopyOut
<1> QED
  BY <1>9, <1>10 DEF OctetsUpTo

(* A turn of the loop.                                                     *)
LEMMA Turned ==
  ASSUME NEW size \in Nat, NEW chars, NEW k \in Nat \ {0}, NEW st,
         Progress(size, chars, k - 1, st)
  PROVE  Progress(size, chars, k, Base32Turn(size, chars, st, k))
<1> DEFINE new == Base32Turn(size, chars, st, k)
<1>0. k - 1 \in Nat /\ k - 1 + 1 = k
  OBVIOUS
<1>p. /\ Pads(chars, k - 1) \in Nat
      /\ Pads(chars, k) = IF chars[k] = Pad THEN Pads(chars, k - 1) + 1 ELSE Pads(chars, k - 1)
  BY <1>0, PadsCount
<1>m. Alive(size, chars, k) => Alive(size, chars, k - 1)
  <2> SUFFICES ASSUME Alive(size, chars, k) PROVE Alive(size, chars, k - 1)
    OBVIOUS
  <2>1. \A j \in 1..(k - 1) : chars[j] # Bad
    BY DEF Alive
  <2>2. Pads(chars, k - 1) < 3
    <3>1. Pads(chars, k) < 3
      BY DEF Alive
    <3> QED
      BY <1>p, <3>1
  <2>3. 5 * ((k - 1) \div 8) < size
    <3>1. 5 * (k \div 8) < size
      BY DEF Alive
    <3> QED
      BY <3>1
  <2> QED
    BY <2>1, <2>2, <2>3 DEF Alive
<1>1. CASE ~Alive(size, chars, k - 1)
  <2>1. PICK e \in 1..(k - 1) : StoppedAt(size, chars, e, st)
    BY <1>1 DEF Progress
  <2>2. new = st
    BY <2>1 DEF StoppedAt, Base32Turn
  <2>3. e \in 1..k
    BY <2>1
  <2>4. ~Alive(size, chars, k)
    BY <1>1, <1>m
  <2> HIDE DEF new
  <2> QED
    BY <2>1, <2>2, <2>3, <2>4 DEF Progress, new
<1>2. CASE Alive(size, chars, k - 1) /\ chars[k] = Bad
  <2>1. st = [pads |-> 3 - Pads(chars, k - 1), dst |-> OctetsUpTo(size, chars, (k - 1) \div 8),
              ret |-> 5 * ((k - 1) \div 8), end |-> FALSE]
    BY <1>2 DEF Progress
  <2>2. new = [st EXCEPT !.ret = -1, !.end = TRUE]
    BY <2>1, <1>2 DEF Base32Turn
  <2>3. new.end /\ new.ret = -1 /\ new.dst = OctetsUpTo(size, chars, (k - 1) \div 8)
    <3> HIDE DEF new
    <3> QED
      BY <2>1, <2>2
  <2>4. ~Alive(size, chars, k)
    BY <1>2, k \in 1..k DEF Alive
  <2> HIDE DEF new
  <2>5. StoppedAt(size, chars, k, new)
    BY <1>2, <2>3, <2>4 DEF StoppedAt
  <2>6. k \in 1..k
    OBVIOUS
  <2> QED
    BY <2>4, <2>5, <2>6 DEF Progress, new
<1>3. CASE Alive(size, chars, k - 1) /\ chars[k] # Bad
  <2> DEFINE n == k \div 8
             dst == OctetsUpTo(size, chars, n)
             pads == 3 - Pads(chars, k)
  <2>1. st = [pads |-> 3 - Pads(chars, k - 1), dst |-> OctetsUpTo(size, chars, (k - 1) \div 8),
              ret |-> 5 * ((k - 1) \div 8), end |-> FALSE]
    BY <1>3 DEF Progress
  <2>2. (IF chars[k] = Pad THEN st.pads - 1 ELSE st.pads) = pads
    BY <2>1, <1>p
  <2>3. (IF k % 8 = 0 THEN CopyOut(st.dst, Octets([j \in 1..8 |-> Symbol(chars[k - 8 + j])]), size)
         ELSE st.dst) = dst
    <3>1. CASE k % 8 = 0
      <4> DEFINE b == (k - 1) \div 8
      <4>1. b \in Nat /\ n = b + 1 /\ k - 8 = 8 * b /\ k > 1
        BY <3>1
      <4>2. 5 * b < size
        BY <1>3, <4>1 DEF Alive
      <4>3. CopyOut(OctetsUpTo(size, chars, b), GroupOctets(chars, b), size)
              = OctetsUpTo(size, chars, b + 1)
        <5> HIDE DEF b, n
        <5> QED
          BY <4>1, <4>2, CopyGroup
      <4>4. st.dst = OctetsUpTo(size, chars, b)
        BY <2>1
      <4>5. Octets([j \in 1..8 |-> Symbol(chars[k - 8 + j])]) = GroupOctets(chars, b)
        BY <4>1 DEF GroupOctets
      <4> HIDE DEF b, n
      <4> QED
        BY <3>1, <4>1, <4>3, <4>4, <4>5
    <3>2. CASE k % 8 # 0
      <4>1. (k - 1) \div 8 = n
        BY <3>2
      <4> HIDE DEF n
      <4> QED
        BY <2>1, <4>1, <3>2
    <3> QED
      BY <3>1, <3>2
  <2>4. new = [pads |-> pads, dst |-> dst, ret |-> Len(dst), end |-> pads = 0 \/ Len(dst) = size]
    <3>1. ~st.end
      BY <2>1
    <3> HIDE DEF dst, pads
    <3> QED
      BY <1>3, <2>2, <2>3, <3>1 DEF Base32Turn
  <2>5. n \in Nat /\ Len(dst) = IF size <= 5 * n THEN size ELSE 5 * n
    <3>1. n \in Nat
      OBVIOUS
    <3> HIDE DEF n
    <3> QED
      BY <3>1, OctetsLength
  <2>6. Alive(size, chars, k) <=> Pads(chars, k) < 3 /\ 5 * n < size
    <3>1. \A j \in 1..k : j \in 1..(k - 1) \/ j = k
      OBVIOUS
    <3>2. \A j \in 1..k : chars[j] # Bad
      BY <1>3, <3>1 DEF Alive
    <3> QED
      BY <3>2 DEF Alive
  <2>7. Pads(chars, k) \in 0..3
    BY <1>3, <1>p DEF Alive
  <2> HIDE DEF n, dst, new
  <2>8. CASE Alive(size, chars, k)
    <3>1. pads # 0 /\ Len(dst) # size /\ Len(dst) = 5 * n
      BY <2>5, <2>6, <2>7, <2>8
    <3>2. new = [pads |-> 3 - Pads(chars, k), dst |-> dst, ret |-> 5 * n, end |-> FALSE]
      BY <2>4, <3>1
    <3> QED
      BY <2>8, <3>2 DEF Progress, dst, n, new
  <2>9. CASE ~Alive(size, chars, k)
    <3>1. pads = 0 \/ Len(dst) = size
      BY <2>5, <2>6, <2>7, <2>9
    <3>2. new.end /\ new.dst = dst /\ new.ret = Len(dst)
      <4> HIDE DEF pads
      <4> QED
        BY <2>4, <3>1
    <3>3. StoppedAt(size, chars, k, new)
      BY <1>3, <2>9, <3>2 DEF StoppedAt, dst, n
    <3>4. k \in 1..k
      OBVIOUS
    <3> QED
      BY <2>9, <3>3, <3>4 DEF Progress, new
  <2> QED
    BY <2>8, <2>9
<1> QED
  BY <1>1, <1>2, <1>3

(* What base32_decode has done when it ends.                               *)
LEMMA DecodeProgress ==
  ASSUME NEW size \in Nat, NEW chars, Len(chars) \in Nat
  PROVE  Progress(size, chars, Len(chars), Base32Decode(size, chars))
<1> DEFINE t == Base32Turns(size, chars)
           S == {k \in Nat : k <= Len(chars) => Progress(size, chars, k, t[k])}
<1>1. 0 \in S
  <2>1. t[0] = [pads |-> 3, dst |-> <<>>, ret |-> 0, end |-> FALSE]
    BY TurnsAre
  <2>2. Pads(chars, 0) = 0
    BY PadsCount
  <2>3. Alive(size, chars, 0)
    BY <2>2 DEF Alive
  <2>4. OctetsUpTo(size, chars, 0 \div 8) = <<>>
    <3>1. (IF size <= 5 * (0 \div 8) THEN size ELSE 5 * (0 \div 8)) = 0
      OBVIOUS
    <3>2. OctetsUpTo(size, chars, 0 \div 8) = [m \in 1..0 |-> Octet(chars, m)]
      BY <3>1 DEF OctetsUpTo
    <3> QED
      BY <3>2
  <2>5. 3 - 0 = 3 /\ 5 * (0 \div 8) = 0
    OBVIOUS
  <2> HIDE DEF t
  <2>6. Progress(size, chars, 0, t[0])
    BY <2>1, <2>2, <2>3, <2>4, <2>5 DEF Progress
  <2> QED
    BY <2>6
<1>2. ASSUME NEW n \in Nat, n \in S PROVE n + 1 \in S
  <2> HIDE DEF t
  <2> SUFFICES ASSUME n + 1 <= Len(chars) PROVE Progress(size, chars, n + 1, t[n + 1])
    OBVIOUS
  <2> DEFINE k == n + 1
  <2>1. k \in 1..Len(chars) /\ k \in Nat \ {0} /\ k - 1 = n
    OBVIOUS
  <2>2. t[k] = Base32Turn(size, chars, t[k - 1], k)
    BY <2>1, TurnsAre DEF t
  <2>3. Progress(size, chars, k - 1, t[k - 1])
    BY <2>1, <1>2
  <2> HIDE DEF k
  <2>4. Progress(size, chars, k, t[k])
    BY <2>1, <2>2, <2>3, Turned
  <2> QED
    BY <2>4 DEF k
<1> HIDE DEF S
<1>3. Nat \subseteq S
  BY <1>1, <1>2, SetInduction
<1> QED
  BY <1>3 DEF S, t, Base32Decode

-----------------------------------------------------------------------------
(* base32_encode.                                                          *)

(* What base32_encode makes.                                               *)
SymbolAt(bytes, k) == Symbols(Group(bytes, CeilDiv(k, 8)))[1 + ((k - 1) % 8)]

(* A group is made of bytes, the zeros behind the last one included.       *)
LEMMA GroupOfBytes ==
  ASSUME NEW bytes \in Seq(Byte), NEW g \in Nat \ {0}
  PROVE  Group(bytes, g) \in [1..5 -> Byte]
<1>1. \A j \in 1..5 : 5 * (g - 1) + j <= Len(bytes) => 5 * (g - 1) + j \in 1..Len(bytes)
  OBVIOUS
<1>2. 0 \in Byte
  BY DEF Byte
<1>3. \A k \in 1..Len(bytes) : bytes[k] \in Byte
  OBVIOUS
<1> QED
  BY <1>1, <1>2, <1>3 DEF Group

(* The length of the text of so many bytes: as many characters as hold     *)
(* the bits, but for the exceptions.                                       *)
LEMMA EncodedLength ==
  ASSUME NEW len \in Nat
  PROVE  /\ Base32Length(len) \in Nat
         /\ 5 * Base32Length(len) <= 8 * len + 40
         /\ Base32Length(len) = IF len = 0 THEN 8 ELSE IF len % 5 = 2 THEN CeilDiv(8 * len, 5) - 1
                                ELSE CeilDiv(8 * len, 5)
<1> DEFINE q == len \div 5
           r == len % 5
<1>1. q \in Nat /\ r \in 0..4 /\ len = 5 * q + r
  OBVIOUS
<1> HIDE DEF q, r
<1>2. SymbolCount(1) = 2 /\ SymbolCount(2) = 3 /\ SymbolCount(3) = 5 /\ SymbolCount(4) = 7
  BY DEF SymbolCount
<1>3. SymbolCount(0) = 8 /\ SymbolCount(5) = 8
  BY DEF SymbolCount
<1>4. CASE len = 0
  <2>1. Base32Length(len) = 8 * (1 - 1) + SymbolCount(len - 5 * (1 - 1))
    BY <1>4 DEF Base32Length, GroupCount
  <2> QED
    BY <2>1, <1>3, <1>4
<1>5. CASE len # 0 /\ r = 0
  <2>1. CeilDiv(len, 5) = q /\ len - 5 * (q - 1) = 5 /\ CeilDiv(8 * len, 5) = 8 * q /\ len % 5 = 0
    BY <1>1, <1>5 DEF CeilDiv
  <2>2. Base32Length(len) = 8 * (q - 1) + 8
    BY <2>1, <1>3, <1>5 DEF Base32Length, GroupCount
  <2> QED
    BY <2>1, <2>2, <1>1, <1>5
<1>6. CASE r # 0
  <2>1. CeilDiv(len, 5) = q + 1 /\ len - 5 * (q + 1 - 1) = r /\ len # 0 /\ len % 5 = r
    BY <1>1, <1>6 DEF CeilDiv
  <2>2. Base32Length(len) = 8 * q + SymbolCount(r)
    BY <2>1, <1>1, <1>6 DEF Base32Length, GroupCount
  <2>3. CASE r = 1
    BY <1>1, <1>2, <2>1, <2>2, <2>3 DEF CeilDiv
  <2>4. CASE r = 2
    BY <1>1, <1>2, <2>1, <2>2, <2>4 DEF CeilDiv
  <2>5. CASE r = 3
    BY <1>1, <1>2, <2>1, <2>2, <2>5 DEF CeilDiv
  <2>6. CASE r = 4
    BY <1>1, <1>2, <2>1, <2>2, <2>6 DEF CeilDiv
  <2> QED
    BY <1>1, <1>6, <2>3, <2>4, <2>5, <2>6
<1> QED
  BY <1>4, <1>5, <1>6

(* A text of base 32, character by character.                              *)
LEMMA Encoded ==
  ASSUME NEW size \in Nat, NEW bytes \in Seq(Byte),
         NEW n, n = Min({size, Base32Length(Len(bytes))})
  PROVE  /\ n \in Nat /\ n <= size /\ n <= Base32Length(Len(bytes))
         /\ n = IF size <= Base32Length(Len(bytes)) THEN size ELSE Base32Length(Len(bytes))
         /\ Base32Encode(size, bytes) = [k \in 1..n |-> SymbolAt(bytes, k)]
         /\ Len(Base32Encode(size, bytes)) = n
         /\ \A k \in Nat \ {0} : SymbolAt(bytes, k) \in 0..31
<1> DEFINE l == Base32Length(Len(bytes))
<1>1. l \in Nat
  BY EncodedLength
<1>2. n = IF size <= l THEN size ELSE l
  <2> HIDE DEF l
  <2>1. Min({size, l}) = IF size <= l THEN size ELSE l
    BY <1>1, MinOfTwo
  <2> QED
    BY <2>1 DEF l
<1>3. n \in Nat /\ n <= size /\ n <= l
  <2> HIDE DEF l
  <2> QED
    BY <1>1, <1>2
<1>4. Base32Encode(size, bytes) = [k \in 1..n |-> SymbolAt(bytes, k)]
  BY DEF Base32Encode, SymbolAt
<1>5. Len([k \in 1..n |-> SymbolAt(bytes, k)]) = n
  BY <1>3
<1>6. ASSUME NEW k \in Nat \ {0} PROVE SymbolAt(bytes, k) \in 0..31
  <2>1. CeilDiv(k, 8) \in Nat \ {0} /\ 1 + ((k - 1) % 8) \in 1..8
    BY DEF CeilDiv
  <2>2. Symbols(Group(bytes, CeilDiv(k, 8))) \in [1..8 -> 0..31]
    BY <2>1, GroupOfBytes, SymbolsOfBytes
  <2> QED
    BY <2>1, <2>2 DEF SymbolAt
<1> QED
  BY <1>2, <1>3, <1>4, <1>5, <1>6

(* Bit i of group h + 1.                                                   *)
LEMMA BitPlace ==
  ASSUME NEW h \in Nat, NEW i \in 1..40
  PROVE  /\ CeilDiv(40 * h + i, 5) = 8 * h + CeilDiv(i, 5)
         /\ CeilDiv(i, 5) \in 1..8 /\ CeilDiv(i, 8) \in 1..5
         /\ CeilDiv(8 * h + CeilDiv(i, 5), 8) = h + 1
         /\ 1 + (((8 * h + CeilDiv(i, 5)) - 1) % 8) = CeilDiv(i, 5)
         /\ ((40 * h + i) - 1) % 5 = (i - 1) % 5
         /\ ((40 * h + i) - 1) % 8 = (i - 1) % 8
         /\ CeilDiv(40 * h + i, 8) = 5 * h + CeilDiv(i, 8)
<1>1. CeilDiv(40 * h + i, 5) = 8 * h + CeilDiv(i, 5) /\ CeilDiv(i, 5) \in 1..8
  BY DEF CeilDiv
<1>2. CeilDiv(40 * h + i, 8) = 5 * h + CeilDiv(i, 8) /\ CeilDiv(i, 8) \in 1..5
  BY DEF CeilDiv
<1>3. ((40 * h + i) - 1) % 5 = (i - 1) % 5
  OBVIOUS
<1>4. ((40 * h + i) - 1) % 8 = (i - 1) % 8
  OBVIOUS
<1>5. \A j \in 1..8 : CeilDiv(8 * h + j, 8) = h + 1 /\ 1 + (((8 * h + j) - 1) % 8) = j
  BY DEF CeilDiv
<1> QED
  BY <1>1, <1>2, <1>3, <1>4, <1>5

(* The bits of zero.                                                       *)
LEMMA ZeroBits == \A i \in 0..7 : (0 \div Weight[8 - i]) % 2 = 0
BY DEF Weight

(* base32_encode keeps the bits: bit m of the text is bit m of the bytes,  *)
(* or zero behind them.                                                    *)
LEMMA EncodedBits ==
  ASSUME NEW size \in Nat, NEW bytes \in Seq(Byte),
         NEW m \in 1..(5 * Len(Base32Encode(size, bytes)))
  PROVE  Bit(5, Base32Encode(size, bytes), m)
           = IF m <= 8 * Len(bytes) THEN Bit(8, bytes, m) ELSE 0
<1> DEFINE chars == Base32Encode(size, bytes)
           n == Min({size, Base32Length(Len(bytes))})
           h == (m - 1) \div 40
           i == 1 + ((m - 1) % 40)
           g == h + 1
           k == CeilDiv(m, 5)
           group == Group(bytes, g)
           b == CeilDiv(m, 8)
<1>1. n \in Nat /\ chars = [j \in 1..n |-> SymbolAt(bytes, j)] /\ Len(chars) = n
  BY Encoded
<1> HIDE DEF n, chars
<1>2. m \in Nat \ {0} /\ m <= 5 * n
  BY <1>1 DEF chars
<1>3. k \in 1..n
  BY <1>1, <1>2 DEF CeilDiv
<1>h. h \in Nat /\ i \in 1..40 /\ m = 40 * h + i
  BY <1>2
<1> HIDE DEF h, i
<1>4. /\ g \in Nat \ {0} /\ i \in 1..40
      /\ CeilDiv(k, 8) = g /\ 1 + ((k - 1) % 8) = CeilDiv(i, 5)
      /\ CeilDiv(i, 5) \in 1..8 /\ CeilDiv(i, 8) \in 1..5
      /\ (m - 1) % 5 = (i - 1) % 5 /\ (m - 1) % 8 = (i - 1) % 8
      /\ b = 5 * (g - 1) + CeilDiv(i, 8)
  <2>1. g \in Nat \ {0} /\ g - 1 = h
    BY <1>h
  <2>2. k = 8 * h + CeilDiv(i, 5) /\ b = 5 * h + CeilDiv(i, 8)
    BY <1>h, BitPlace
  <2>3. CeilDiv(k, 8) = g /\ 1 + ((k - 1) % 8) = CeilDiv(i, 5)
    <3>1. /\ CeilDiv(8 * h + CeilDiv(i, 5), 8) = h + 1
          /\ 1 + (((8 * h + CeilDiv(i, 5)) - 1) % 8) = CeilDiv(i, 5)
      BY <1>h, BitPlace
    <3> QED
      BY <2>2, <3>1
  <2>4. (m - 1) % 5 = (i - 1) % 5 /\ (m - 1) % 8 = (i - 1) % 8
    BY <1>h, BitPlace
  <2>5. CeilDiv(i, 5) \in 1..8 /\ CeilDiv(i, 8) \in 1..5
    BY <1>h, BitPlace
  <2> HIDE DEF k, b, g
  <2> QED
    BY <1>h, <2>1, <2>2, <2>3, <2>4, <2>5
<1> HIDE DEF g
<1>5. chars[k] = Symbols(group)[CeilDiv(i, 5)]
  <2> HIDE DEF k
  <2> QED
    BY <1>1, <1>3, <1>4 DEF SymbolAt
<1>6. Bit(5, chars, m) = Bit(5, Symbols(group), i)
  <2>1. Bit(5, chars, m) = (chars[k] \div Weight[5 - ((m - 1) % 5)]) % 2
    BY DEF Bit
  <2>2. Bit(5, Symbols(group), i) = (Symbols(group)[CeilDiv(i, 5)] \div Weight[5 - ((i - 1) % 5)]) % 2
    BY DEF Bit
  <2> HIDE DEF k, group
  <2> QED
    BY <2>1, <2>2, <1>4, <1>5
<1>7. group \in [1..5 -> Byte]
  BY <1>4, GroupOfBytes
<1>8. Bit(5, Symbols(group), i) = Bit(8, group, i)
  <2> HIDE DEF group
  <2> QED
    BY <1>4, <1>7, GroupBits
<1>9. group[CeilDiv(i, 8)] = IF b <= Len(bytes) THEN bytes[b] ELSE 0
  BY <1>4 DEF Group
<1>10. Bit(8, group, i) = (group[CeilDiv(i, 8)] \div Weight[8 - ((m - 1) % 8)]) % 2
  <2> HIDE DEF group
  <2> QED
    BY <1>4 DEF Bit
<1>11. b <= Len(bytes) <=> m <= 8 * Len(bytes)
  <2>1. Len(bytes) \in Nat
    OBVIOUS
  <2> QED
    BY <1>2, <2>1 DEF CeilDiv
<1>12. (m - 1) % 8 \in 0..7
  BY <1>2
<1>13. CASE m <= 8 * Len(bytes)
  <2>1. Bit(8, bytes, m) = (bytes[b] \div Weight[8 - ((m - 1) % 8)]) % 2
    BY DEF Bit
  <2> HIDE DEF group, b
  <2> QED
    BY <2>1, <1>6, <1>8, <1>9, <1>10, <1>11, <1>13 DEF chars
<1>14. CASE ~ (m <= 8 * Len(bytes))
  <2> HIDE DEF group, b
  <2> QED
    BY <1>6, <1>8, <1>9, <1>10, <1>11, <1>12, <1>14, ZeroBits DEF chars
<1> QED
  BY <1>13, <1>14

-----------------------------------------------------------------------------
(* base32_decode on what base32_encode made.                               *)

(* A chars that was encoded whole, and filled up or not.                    *)
Whole32(bytes, p, chars) ==
  LET len == Len(bytes)
      needed == CeilDiv(8 * len, 5)
  IN  /\ len > 0 /\ len % 5 # 2
      /\ p \in {0, (8 - (needed % 8)) % 8}
      /\ Len(chars) = needed + p
      /\ \A k \in 1..needed : chars[k] = SymbolAt(bytes, k)
      /\ \A k \in (needed + 1)..(needed + p) : chars[k] = Pad

(* The whole text of some bytes, as it is or filled up, is what the        *)
(* decoder is given.                                                       *)
LEMMA FilledUp ==
  ASSUME NEW size \in Nat, NEW bytes \in Seq(Byte), Len(bytes) > 0,
         Len(Base32Encode(size, bytes)) = CeilDiv(8 * Len(bytes), 5),
         NEW p \in {0, (8 - (CeilDiv(8 * Len(bytes), 5) % 8)) % 8}
  PROVE  Whole32(bytes, p, Base32Encode(size, bytes) \o [k \in 1..p |-> Pad])
<1> DEFINE n == CeilDiv(8 * Len(bytes), 5)
           e == Base32Encode(size, bytes)
           f == [k \in 1..p |-> Pad]
           chars == e \o f
<1>1. n \in Nat /\ p \in Nat
  BY DEF CeilDiv
<1>2. Len(e) = n
  OBVIOUS
<1>3. e = [k \in 1..n |-> SymbolAt(bytes, k)]
  <2> DEFINE m == Min({size, Base32Length(Len(bytes))})
  <2>1. e = [k \in 1..m |-> SymbolAt(bytes, k)] /\ Len(e) = m
    BY Encoded
  <2> HIDE DEF m, e, n
  <2> QED
    BY <2>1, <1>2
<1>4. Len(bytes) % 5 # 2
  <2> DEFINE l == Base32Length(Len(bytes))
             m == Min({size, l})
  <2>1. m <= l /\ Len(e) = m /\ m \in Nat
    BY Encoded
  <2>2. l \in Nat /\ (Len(bytes) % 5 = 2 => l = n - 1)
    BY EncodedLength
  <2> HIDE DEF m, l, e, n
  <2> QED
    BY <2>1, <2>2, <1>1, <1>2
<1>5. Len(f) = p /\ f = [k \in 1..p |-> Pad]
  BY <1>1
<1> HIDE DEF e, f
<1>6. Len(chars) = n + p /\ chars = [k \in 1..(n + p) |-> IF k <= n THEN e[k] ELSE f[k - n]]
  <2> HIDE DEF n
  <2> QED
    BY <1>1, <1>2, <1>3, <1>5
<1>7. \A k \in 1..n : chars[k] = SymbolAt(bytes, k)
  <2> HIDE DEF n, chars
  <2> TAKE k \in 1..n
  <2>1. k \in 1..(n + p) /\ k <= n
    BY <1>1
  <2> QED
    BY <2>1, <1>3, <1>6
<1>8. \A k \in (n + 1)..(n + p) : chars[k] = Pad
  <2> HIDE DEF n, chars
  <2> TAKE k \in (n + 1)..(n + p)
  <2>1. k \in 1..(n + p) /\ ~ (k <= n) /\ k - n \in 1..p
    BY <1>1
  <2> QED
    BY <2>1, <1>5, <1>6
<1> HIDE DEF chars
<1>9. Whole32(bytes, p, chars)
  BY <1>4, <1>6, <1>7, <1>8 DEF Whole32
<1> QED
  BY <1>9 DEF chars, e, f

(* How many characters it has.                                             *)
LEMMA Sizes ==
  ASSUME NEW len \in Nat, len % 5 # 2,
         NEW p \in {0, (8 - (CeilDiv(8 * len, 5) % 8)) % 8}
  PROVE  LET q == len \div 5
             r == len % 5
             n == CeilDiv(8 * len, 5)
         IN  /\ q \in Nat /\ len = 5 * q + r /\ n \in Nat /\ p \in Nat
             /\ \/ r = 0 /\ n = 8 * q /\ p = 0
                \/ r = 1 /\ n = 8 * q + 2 /\ p \in {0, 6}
                \/ r = 3 /\ n = 8 * q + 5 /\ p \in {0, 3}
                \/ r = 4 /\ n = 8 * q + 7 /\ p \in {0, 1}
<1> DEFINE q == len \div 5
           r == len % 5
           n == CeilDiv(8 * len, 5)
<1>1. q \in Nat /\ r \in 0..4 /\ len = 5 * q + r /\ r # 2
  OBVIOUS
<1>2. p = 0 \/ p = (8 - (n % 8)) % 8
  OBVIOUS
<1> HIDE DEF q, r
<1>3. n = CeilDiv(8 * (5 * q + r), 5)
  BY <1>1
<1> HIDE DEF n
<1>4. CASE r = 0
  <2>1. n = 8 * q
    BY <1>1, <1>3, <1>4 DEF CeilDiv
  <2> QED
    BY <1>1, <1>2, <1>4, <2>1 DEF q, r, n
<1>5. CASE r = 1
  <2>1. n = 8 * q + 2
    BY <1>1, <1>3, <1>5 DEF CeilDiv
  <2>2. (8 - (n % 8)) % 8 = 6
    BY <1>1, <2>1
  <2> QED
    BY <1>1, <1>2, <1>5, <2>1, <2>2 DEF q, r, n
<1>6. CASE r = 3
  <2>1. n = 8 * q + 5
    BY <1>1, <1>3, <1>6 DEF CeilDiv
  <2>2. (8 - (n % 8)) % 8 = 3
    BY <1>1, <2>1
  <2> QED
    BY <1>1, <1>2, <1>6, <2>1, <2>2 DEF q, r, n
<1>7. CASE r = 4
  <2>1. n = 8 * q + 7
    BY <1>1, <1>3, <1>7 DEF CeilDiv
  <2>2. (8 - (n % 8)) % 8 = 1
    BY <1>1, <2>1
  <2> QED
    BY <1>1, <1>2, <1>7, <2>1, <2>2 DEF q, r, n
<1> QED
  BY <1>1, <1>4, <1>5, <1>6, <1>7

(* The groups that are decoded are those that were encoded.                *)
LEMMA GroupBack ==
  ASSUME NEW bytes \in Seq(Byte), NEW p, NEW chars, Whole32(bytes, p, chars), NEW h \in Nat,
         8 * (h + 1) <= CeilDiv(8 * Len(bytes), 5) \/
           (h = Len(bytes) \div 5 /\ Len(bytes) % 5 \in {3, 4} /\ 8 * (h + 1) <= Len(chars))
  PROVE  GroupOctets(chars, h) = Group(bytes, h + 1)
<1> DEFINE len == Len(bytes)
           n == CeilDiv(8 * len, 5)
           g == h + 1
           x == Group(bytes, g)
           s == Symbols(x)
<1>0. len \in Nat /\ len > 0 /\ len % 5 # 2 /\ p \in {0, (8 - (n % 8)) % 8} /\ Len(chars) = n + p
  BY DEF Whole32
<1>1. x \in [1..5 -> Byte] /\ s \in [1..8 -> 0..31]
  <2>1. g \in Nat \ {0}
    OBVIOUS
  <2> HIDE DEF g
  <2>2. x \in [1..5 -> Byte]
    BY <2>1, GroupOfBytes
  <2> HIDE DEF x
  <2> QED
    BY <2>2, SymbolsOfBytes
<1>2. ASSUME NEW j \in 1..8 PROVE Symbol(chars[8 * h + j]) = s[j]
  <2> DEFINE k == 8 * h + j
  <2>0. s[j] # Pad
    <3>1. \A v \in 0..31 : v # Pad
      BY DEF Pad
    <3> HIDE DEF s
    <3>2. s[j] \in 0..31
      BY <1>1
    <3> QED
      BY <3>1, <3>2
  <2>1. CASE k <= n
    <3>1. k \in 1..n
      BY <2>1
    <3>2. chars[k] = SymbolAt(bytes, k)
      BY <3>1 DEF Whole32
    <3>3. CeilDiv(k, 8) = g /\ 1 + ((k - 1) % 8) = j
      BY DEF CeilDiv
    <3> HIDE DEF k, g
    <3>4. chars[k] = s[j]
      BY <3>2, <3>3 DEF SymbolAt
    <3> HIDE DEF s
    <3> QED
      BY <3>4, <2>0 DEF Symbol, k
  <2>2. CASE k > n
    <3>1. /\ h = len \div 5 /\ len % 5 \in {3, 4} /\ 8 * (h + 1) <= n + p
      <4>1. n \in Nat
        BY <1>0 DEF CeilDiv
      <4> HIDE DEF len, n
      <4>2. ~ (8 * (h + 1) <= n)
        BY <2>2, <4>1
      <4> QED
        BY <4>2, <1>0 DEF len, n
    <3>2. LET q == len \div 5
              r == len % 5
          IN  /\ q \in Nat /\ len = 5 * q + r /\ n \in Nat /\ p \in Nat
              /\ \/ r = 0 /\ n = 8 * q /\ p = 0
                 \/ r = 1 /\ n = 8 * q + 2 /\ p \in {0, 6}
                 \/ r = 3 /\ n = 8 * q + 5 /\ p \in {0, 3}
                 \/ r = 4 /\ n = 8 * q + 7 /\ p \in {0, 1}
      BY <1>0, Sizes
    <3> DEFINE r == len % 5
    <3>6. /\ len = 5 * h + r /\ n \in Nat /\ p \in Nat /\ r \in {3, 4}
          /\ r = 3 => n = 8 * h + 5 /\ p \in {0, 3}
          /\ r = 4 => n = 8 * h + 7 /\ p \in {0, 1}
      BY <3>1, <3>2
    <3> HIDE DEF n, len, r
    <3>3. \/ len = 5 * h + 3 /\ n = 8 * h + 5 /\ p \in {0, 3}
          \/ len = 5 * h + 4 /\ n = 8 * h + 7 /\ p \in {0, 1}
      BY <3>6
    <3>4. chars[k] = Pad
      <4>1. k \in (n + 1)..(n + p)
        <5>1. k <= 8 * (h + 1) /\ k \in Nat
          OBVIOUS
        <5> HIDE DEF k
        <5> QED
          BY <5>1, <2>2, <3>1, <3>2
      <4> QED
        BY <4>1 DEF Whole32, n, len
    <3>5. s[j] = 0
      <4>1. x[5] = 0 /\ (len = 5 * h + 3 => x[4] = 0)
        <5>1. 5 * (g - 1) + 5 = 5 * h + 5 /\ 5 * (g - 1) + 4 = 5 * h + 4
          OBVIOUS
        <5>2. ~ (5 * h + 5 <= len) /\ (len = 5 * h + 3 => ~ (5 * h + 4 <= len))
          BY <3>3
        <5> HIDE DEF g
        <5> QED
          BY <5>1, <5>2 DEF Group, len
      <4>2. CASE len = 5 * h + 3
        <5>1. j \in 6..8
          BY <2>2, <3>3, <4>2
        <5>2. x[4] = 0 /\ x[5] = 0
          BY <4>1, <4>2
        <5> HIDE DEF x
        <5> QED
          BY <5>1, <5>2 DEF Symbols
      <4>3. CASE len = 5 * h + 4
        <5>1. j = 8
          BY <2>2, <3>3, <4>3
        <5>2. x[5] = 0
          BY <4>1
        <5> HIDE DEF x
        <5> QED
          BY <5>1, <5>2 DEF Symbols
      <4> QED
        BY <3>3, <4>2, <4>3
    <3> HIDE DEF s
    <3> QED
      BY <3>4, <3>5 DEF Symbol
  <2>3. n \in Int /\ k \in Int
    BY <1>0 DEF CeilDiv
  <2> HIDE DEF n
  <2> QED
    BY <2>1, <2>2, <2>3
<1> HIDE DEF s, x
<1>3. [j \in 1..8 |-> Symbol(chars[8 * h + j])] = s
  BY <1>1, <1>2
<1>4. Octets(s) = x
  BY <1>1, OctetsAreBytes DEF s
<1>5. Octets([j \in 1..8 |-> Symbol(chars[8 * h + j])]) = x
  BY <1>3, <1>4
<1> QED
  BY <1>5 DEF x, g, GroupOctets

(* Where its pads are.                                                     *)
LEMMA PadsOfWhole ==
  ASSUME NEW bytes \in Seq(Byte), NEW p \in Nat, NEW chars, Whole32(bytes, p, chars),
         NEW n \in Nat, n = CeilDiv(8 * Len(bytes), 5)
  PROVE  /\ \A k \in 1..(n + p) : chars[k] # Bad
         /\ \A k \in 0..(n + p) : Pads(chars, k) = IF k <= n THEN 0 ELSE k - n
<1>1. \A k \in 1..n : chars[k] \in 0..31
  <2>1. \A k \in Nat \ {0} : SymbolAt(bytes, k) \in 0..31
    BY Encoded
  <2> QED
    BY <2>1 DEF Whole32
<1>2. \A k \in (n + 1)..(n + p) : chars[k] = Pad
  BY DEF Whole32
<1>3. \A v \in 0..31 : v # Pad /\ v # Bad
  BY DEF Pad, Bad
<1>4. Pad # Bad
  BY DEF Pad, Bad
<1>5. \A k \in 1..(n + p) : k \in 1..n \/ k \in (n + 1)..(n + p)
  OBVIOUS
<1>6. \A k \in 1..(n + p) : chars[k] # Bad
  BY <1>1, <1>2, <1>3, <1>4, <1>5
<1>7. ASSUME NEW k \in 0..(n + p) PROVE Pads(chars, k) = IF k <= n THEN 0 ELSE k - n
  <2>1. CASE k <= n
    <3>1. \A j \in 1..k : j \in 1..n
      BY <2>1
    <3>2. {j \in 1..k : chars[j] = Pad} = {}
      BY <3>1, <1>1, <1>3
    <3> QED
      BY <2>1, <3>2, FS_EmptySet DEF Pads
  <2>2. CASE k > n
    <3>1. \A j \in 1..k : j \in 1..n \/ j \in (n + 1)..k
      OBVIOUS
    <3>2. \A j \in (n + 1)..k : j \in (n + 1)..(n + p) /\ j \in 1..k /\ j \notin 1..n
      OBVIOUS
    <3>3. {j \in 1..k : chars[j] = Pad} = (n + 1)..k
      BY <3>1, <3>2, <1>1, <1>2, <1>3
    <3>4. Cardinality((n + 1)..k) = k - n
      <4>1. n + 1 \in Int /\ k \in Int /\ ~ (n + 1 > k) /\ k - (n + 1) + 1 = k - n
        BY <2>2
      <4>2. Cardinality((n + 1)..k) = IF n + 1 > k THEN 0 ELSE k - (n + 1) + 1
        BY <4>1, FS_Interval
      <4> QED
        BY <4>1, <4>2
    <3>5. ~ (k <= n)
      BY <2>2
    <3>6. Pads(chars, k) = k - n
      BY <3>3, <3>4 DEF Pads
    <3> QED
      BY <3>5, <3>6
  <2> QED
    BY <2>1, <2>2
<1> QED
  BY <1>6, <1>7

(* The bytes of the groups that are decoded.                               *)
LEMMA OctetsBack ==
  ASSUME NEW bytes \in Seq(Byte), NEW p, NEW chars, Whole32(bytes, p, chars),
         NEW room \in Nat, NEW g \in Nat,
         \/ 8 * g <= CeilDiv(8 * Len(bytes), 5)
         \/ g = Len(bytes) \div 5 + 1 /\ Len(bytes) % 5 \in {3, 4} /\ 8 * g <= Len(chars)
  PROVE  OctetsUpTo(room, chars, g) =
           [m \in 1..(IF room <= 5 * g THEN room ELSE 5 * g) |-> IF m <= Len(bytes) THEN bytes[m] ELSE 0]
<1> DEFINE l == IF room <= 5 * g THEN room ELSE 5 * g
           len == Len(bytes)
<1>0. len \in Nat /\ l \in Nat /\ l <= 5 * g
  OBVIOUS
<1>1. ASSUME NEW m \in 1..l PROVE Octet(chars, m) = IF m <= len THEN bytes[m] ELSE 0
  <2> DEFINE h == (m - 1) \div 5
             i == 1 + ((m - 1) % 5)
  <2>1. /\ h \in Nat /\ h + 1 <= g /\ i \in 1..5 /\ m = 5 * h + i
        /\ CeilDiv(m, 5) = h + 1
    <3> HIDE DEF len
    <3>1. m \in Nat /\ 1 <= m /\ m <= 5 * g
      BY <1>0
    <3> QED
      BY <3>1 DEF CeilDiv
  <2> HIDE DEF h
  <2>2. \/ 8 * (h + 1) <= CeilDiv(8 * len, 5)
        \/ h = len \div 5 /\ len % 5 \in {3, 4} /\ 8 * (h + 1) <= Len(chars)
    <3>1. CASE 8 * g <= CeilDiv(8 * len, 5)
      <4>1. CeilDiv(8 * len, 5) \in Nat
        BY <1>0 DEF CeilDiv
      <4> QED
        BY <2>1, <3>1, <4>1
    <3>2. CASE g = len \div 5 + 1 /\ len % 5 \in {3, 4} /\ 8 * g <= Len(chars)
      <4>1. CASE h + 1 = g
        <5>1. h = len \div 5
          BY <1>0, <2>1, <3>2, <4>1
        <5> QED
          BY <3>2, <4>1, <5>1
      <4>2. CASE h + 1 # g
        <5>1. h + 1 <= len \div 5
          BY <1>0, <2>1, <3>2, <4>2
        <5>2. 8 * (len \div 5) <= CeilDiv(8 * len, 5) /\ CeilDiv(8 * len, 5) \in Nat /\ len \div 5 \in Nat
          BY <1>0 DEF CeilDiv
        <5> QED
          BY <2>1, <5>1, <5>2
      <4> QED
        BY <4>1, <4>2
    <3> QED
      BY <3>1, <3>2
  <2>3. GroupOctets(chars, h) = Group(bytes, h + 1)
    BY <2>1, <2>2, GroupBack
  <2>4. Octet(chars, m) = GroupOctets(chars, h)[i]
    BY <2>1, OctetOfGroup, ZenonT(60)
  <2> HIDE DEF i, len
  <2>5. Octet(chars, m) = Group(bytes, h + 1)[i]
    BY <2>3, <2>4
  <2>6. 5 * (h + 1 - 1) + i = m
    BY <2>1
  <2>7. Group(bytes, h + 1)[i] = IF 5 * (h + 1 - 1) + i <= len THEN bytes[5 * (h + 1 - 1) + i] ELSE 0
    BY <2>1 DEF Group, len
  <2> QED
    BY <2>5, <2>6, <2>7
<1> HIDE DEF l, len
<1>2. [m \in 1..l |-> Octet(chars, m)] = [m \in 1..l |-> IF m <= len THEN bytes[m] ELSE 0]
  BY <1>1
<1> QED
  BY <1>2 DEF OctetsUpTo, l, len

(* Two sequences as one.                                                   *)
LEMMA Joining ==
  ASSUME NEW S, NEW a \in Seq(S), NEW b \in Seq(S)
  PROVE  /\ a \o b \in Seq(S) /\ Len(a \o b) = Len(a) + Len(b)
         /\ Len(a) \in Nat /\ Len(b) \in Nat
         /\ \A m \in 1..(Len(a) + Len(b)) : (a \o b)[m] = IF m <= Len(a) THEN a[m] ELSE b[m - Len(a)]
OBVIOUS

(* The chars of a first part of the bytes, with zeros behind them.          *)
LEMMA FirstBytes ==
  ASSUME NEW bytes \in Seq(Byte), NEW l \in Nat
  PROVE  /\ l <= Len(bytes) =>
              SubSeq(bytes, 1, l) = [m \in 1..l |-> IF m <= Len(bytes) THEN bytes[m] ELSE 0]
         /\ l <= Len(bytes) + 4 =>
              SubSeq(bytes \o [k \in 1..4 |-> 0], 1, l) = [m \in 1..l |-> IF m <= Len(bytes) THEN bytes[m] ELSE 0]
<1> DEFINE len == Len(bytes)
           z == [k \in 1..4 |-> 0]
           s == bytes \o z
<1>1. len \in Nat /\ Len(z) = 4
  OBVIOUS
<1>2. ASSUME l <= len
      PROVE  SubSeq(bytes, 1, l) = [m \in 1..l |-> IF m <= len THEN bytes[m] ELSE 0]
  <2>1. SubSeq(bytes, 1, l) = [m \in 1..l |-> bytes[m]]
    BY <1>2
  <2>2. \A m \in 1..l : m <= len
    BY <1>2
  <2> QED
    BY <2>1, <2>2
<1>3. ASSUME l <= len + 4
      PROVE  SubSeq(s, 1, l) = [m \in 1..l |-> IF m <= len THEN bytes[m] ELSE 0]
  <2>0. z \in Seq(Byte)
    BY DEF Byte
  <2>1. /\ s \in Seq(Byte) /\ Len(s) = len + 4
        /\ \A m \in 1..(len + 4) : s[m] = IF m <= len THEN bytes[m] ELSE z[m - len]
    <3> HIDE DEF z
    <3>1. /\ s \in Seq(Byte) /\ Len(s) = len + Len(z)
          /\ \A m \in 1..(len + Len(z)) : s[m] = IF m <= len THEN bytes[m] ELSE z[m - len]
      BY <2>0, Joining, Zenon
    <3> QED
      BY <1>1, <3>1
  <2>3. \A m \in 1..(len + 4) : s[m] = IF m <= len THEN bytes[m] ELSE 0
    <3>1. \A m \in 1..(len + 4) : ~ (m <= len) => m - len \in 1..4
      BY <1>1
    <3> HIDE DEF s
    <3> QED
      BY <2>1, <3>1
  <2>4. \A m \in 1..l : m \in 1..(len + 4)
    BY <1>1, <1>3
  <2> HIDE DEF s
  <2>5. SubSeq(s, 1, l) = [m \in 1..l |-> s[m]]
    BY <1>1, <1>3, <2>1
  <2> QED
    BY <2>3, <2>4, <2>5
<1> QED
  BY <1>2, <1>3

(* How many groups were decoded: all, or as many as there was room for; a  *)
(* last group that is not whole only if it was filled up.                  *)
LEMMA GroupsDecoded ==
  ASSUME NEW bytes \in Seq(Byte), NEW p, NEW chars, Whole32(bytes, p, chars), NEW room \in Nat,
         NEW q, q = Len(bytes) \div 5
  PROVE  \E g \in Nat :
           /\ Base32Decode(room, chars).dst = OctetsUpTo(room, chars, g)
           /\ Base32Decode(room, chars).ret = Len(Base32Decode(room, chars).dst)
           /\ \/ g <= q /\ (g = q \/ 5 * g >= room)
              \/ g = q + 1 /\ Len(bytes) % 5 \in {3, 4} /\ 8 * g <= Len(chars)
<1> DEFINE len == Len(bytes)
           n == CeilDiv(8 * len, 5)
           r == len % 5
           l == n + p
           result == Base32Decode(room, chars)
           Known(g) == \/ g <= q /\ (g = q \/ 5 * g >= room)
                       \/ g = q + 1 /\ r \in {3, 4} /\ 8 * g <= l
<1>1. len \in Nat /\ len > 0 /\ r # 2 /\ p \in {0, (8 - (n % 8)) % 8} /\ Len(chars) = l
  BY DEF Whole32
<1>2. /\ q \in Nat /\ len = 5 * q + r /\ n \in Nat /\ p \in Nat
      /\ \/ r = 0 /\ n = 8 * q /\ p = 0
         \/ r = 1 /\ n = 8 * q + 2 /\ p \in {0, 6}
         \/ r = 3 /\ n = 8 * q + 5 /\ p \in {0, 3}
         \/ r = 4 /\ n = 8 * q + 7 /\ p \in {0, 1}
  BY <1>1, Sizes
<1>3. l \in Nat /\ l > 0
  BY <1>1, <1>2
<1>4. /\ \A k \in 1..l : chars[k] # Bad
      /\ \A k \in 0..l : Pads(chars, k) = IF k <= n THEN 0 ELSE k - n
  BY <1>2, PadsOfWhole
<1> HIDE DEF n, r, len
<1>5. Progress(room, chars, l, result)
  BY <1>1, <1>3, DecodeProgress
<1>6. CASE Alive(room, chars, l)
  <2> DEFINE g == l \div 8
  <2>1. result.dst = OctetsUpTo(room, chars, g) /\ result.ret = 5 * g
    <3> HIDE DEF result, l
    <3> QED
      BY <1>5, <1>6 DEF Progress
  <2>2. 5 * g < room /\ Pads(chars, l) < 3
    BY <1>3, <1>6 DEF Alive
  <2>3. p < 3
    <3>1. Pads(chars, l) = IF l <= n THEN 0 ELSE l - n
      BY <1>3, <1>4
    <3> QED
      BY <2>2, <3>1, <1>2
  <2>4. g \in Nat /\ Known(g)
    BY <1>2, <2>3
  <2>5. Len(result.dst) = 5 * g
    <3>1. Len(OctetsUpTo(room, chars, g)) = 5 * g
      <4>1. ~ (room <= 5 * g)
        BY <2>2, <2>4
      <4> HIDE DEF g
      <4> QED
        BY <2>4, <4>1, OctetsLength
    <3> QED
      BY <2>1, <3>1
  <2> HIDE DEF g, result
  <2> QED
    BY <1>1, <2>1, <2>4, <2>5 DEF result, r, len
<1>7. CASE ~Alive(room, chars, l)
  <2>1. PICK e \in 1..l : StoppedAt(room, chars, e, result)
    BY <1>5, <1>7 DEF Progress
  <2> DEFINE g == e \div 8
  <2>2. chars[e] # Bad
    BY <1>4
  <2>3. result.dst = OctetsUpTo(room, chars, g) /\ result.ret = Len(result.dst)
    <3> HIDE DEF result
    <3> QED
      BY <2>1, <2>2 DEF StoppedAt
  <2>4. e \in Nat /\ e > 0 /\ e <= l /\ g \in Nat
    BY <1>3
  <2>5. /\ Pads(chars, e) = IF e <= n THEN 0 ELSE e - n
        /\ Pads(chars, e - 1) = IF e - 1 <= n THEN 0 ELSE (e - 1) - n
    <3>1. e \in 0..l /\ e - 1 \in 0..l
      BY <1>3
    <3> QED
      BY <1>4, <3>1
  <2>6. Pads(chars, e - 1) < 3
    BY <2>1 DEF StoppedAt, Alive
  <2>7. ~ (Pads(chars, e) < 3) \/ ~ (5 * g < room)
    <3>1. \A j \in 1..e : j \in 1..l
      BY <1>3
    <3>2. \A j \in 1..e : chars[j] # Bad
      BY <1>4, <3>1
    <3> QED
      BY <2>1, <3>2 DEF StoppedAt, Alive
  <2>8. Known(g)
    <3>1. CASE ~ (Pads(chars, e) < 3)
      <4>1. e = n + 3
        BY <1>2, <2>4, <2>5, <2>6, <3>1
      <4>2. p = 3 \/ p = 6
        BY <1>2, <2>4, <4>1
      <4> QED
        BY <1>2, <2>4, <4>1, <4>2
    <3>2. CASE Pads(chars, e) < 3
      <4>1. 5 * g >= room
        BY <2>4, <2>7, <3>2
      <4>2. e < n + 3
        BY <1>2, <2>4, <2>5, <3>2
      <4>3. g <= q \/ (g = q + 1 /\ r \in {3, 4} /\ 8 * g <= l)
        BY <1>2, <2>4, <4>2
      <4> HIDE DEF g
      <4> QED
        BY <4>1, <4>3
    <3> QED
      BY <3>1, <3>2
  <2> HIDE DEF g, result
  <2> QED
    BY <1>1, <2>3, <2>4, <2>8 DEF result, r, len
<1> QED
  BY <1>6, <1>7

(* What base32_decode gives result of what base32_encode made.               *)
Decoding32(bytes, room, result) ==
  /\ Len(result.dst) <= room /\ result.ret = Len(result.dst)
  /\ \/ result.dst = SubSeq(bytes, 1, Min({room, 5 * (Len(bytes) \div 5)}))
     \/ /\ Len(bytes) % 5 \in {3, 4}
        /\ result.dst = SubSeq(bytes \o [k \in 1..4 |-> 0], 1, Min({room, 5 * CeilDiv(Len(bytes), 5)}))

(* So the bytes come back, as DecodesBack says.                            *)
LEMMA DecodedBack32 ==
  ASSUME NEW bytes \in Seq(Byte), NEW p, NEW chars, Whole32(bytes, p, chars), NEW room \in Nat
  PROVE  Decoding32(bytes, room, Base32Decode(room, chars))
<1>b. PICK result : result = Base32Decode(room, chars)
  OBVIOUS
<1> DEFINE len == Len(bytes)
           q == len \div 5
           n == CeilDiv(8 * len, 5)
<1>1. len \in Nat /\ q \in Nat /\ 5 * q <= len /\ n \in Nat /\ 8 * q <= n
  BY DEF CeilDiv
<1> HIDE DEF q, n
<1>2. PICK g \in Nat :
        /\ result.dst = OctetsUpTo(room, chars, g)
        /\ result.ret = Len(result.dst)
        /\ \/ g <= q /\ (g = q \/ 5 * g >= room)
           \/ g = q + 1 /\ len % 5 \in {3, 4} /\ 8 * g <= Len(chars)
  BY <1>b, GroupsDecoded DEF q
<1> DEFINE l == IF room <= 5 * g THEN room ELSE 5 * g
<1>3. l \in Nat /\ l <= room
  OBVIOUS
<1>4. Len(result.dst) = l
  BY <1>2, OctetsLength
<1>5. result.dst = [m \in 1..l |-> IF m <= len THEN bytes[m] ELSE 0]
  <2>1. \/ 8 * g <= n
        \/ g = len \div 5 + 1 /\ len % 5 \in {3, 4} /\ 8 * g <= Len(chars)
    <3>1. CASE g <= q
      BY <1>1, <3>1
    <3>2. CASE g = q + 1 /\ len % 5 \in {3, 4} /\ 8 * g <= Len(chars)
      BY <3>2 DEF q
    <3> QED
      BY <1>2, <3>1, <3>2
  <2>2. OctetsUpTo(room, chars, g) = [m \in 1..l |-> IF m <= len THEN bytes[m] ELSE 0]
    BY <2>1, OctetsBack DEF n
  <2> HIDE DEF l, len
  <2> QED
    BY <1>2, <2>2
<1>6. ASSUME g <= q /\ (g = q \/ 5 * g >= room)
      PROVE  result.dst = SubSeq(bytes, 1, Min({room, 5 * (Len(bytes) \div 5)}))
  <2>1. l = Min({room, 5 * q}) /\ l <= len
    <3>1. 5 * q \in Int
      BY <1>1
    <3>2. Min({room, 5 * q}) = IF room <= 5 * q THEN room ELSE 5 * q
      BY <3>1, MinOfTwo
    <3> QED
      BY <1>1, <1>6, <3>2
  <2> HIDE DEF l
  <2>2. SubSeq(bytes, 1, l) = [m \in 1..l |-> IF m <= len THEN bytes[m] ELSE 0]
    BY <1>3, <2>1, FirstBytes
  <2>3. result.dst = SubSeq(bytes, 1, Min({room, 5 * q}))
    BY <1>5, <2>1, <2>2
  <2> QED
    BY <2>3, <1>6, Zenon DEF q
<1>7. ASSUME g = q + 1 /\ len % 5 \in {3, 4} /\ 8 * g <= Len(chars)
      PROVE  /\ Len(bytes) % 5 \in {3, 4}
             /\ result.dst = SubSeq(bytes \o [k \in 1..4 |-> 0], 1, Min({room, 5 * CeilDiv(Len(bytes), 5)}))
  <2> DEFINE c == CeilDiv(len, 5)
  <2>1. c = q + 1 /\ 5 * (q + 1) <= len + 4
    <3>1. len % 5 \in {3, 4}
      BY <1>7
    <3> HIDE DEF len
    <3> QED
      BY <1>1, <3>1 DEF q, CeilDiv
  <2> HIDE DEF c
  <2>2. l = Min({room, 5 * c}) /\ l <= len + 4
    <3>1. 5 * c \in Int /\ c = g
      BY <1>1, <1>7, <2>1
    <3>2. Min({room, 5 * c}) = IF room <= 5 * c THEN room ELSE 5 * c
      BY <3>1, MinOfTwo
    <3> QED
      BY <1>1, <1>7, <2>1, <3>1, <3>2
  <2> HIDE DEF l
  <2>3. SubSeq(bytes \o [k \in 1..4 |-> 0], 1, l) = [m \in 1..l |-> IF m <= len THEN bytes[m] ELSE 0]
    BY <1>3, <2>2, FirstBytes
  <2>4. result.dst = SubSeq(bytes \o [k \in 1..4 |-> 0], 1, Min({room, 5 * c}))
    BY <1>5, <2>2, <2>3
  <2> QED
    BY <1>7, <2>4, Zenon DEF c
<1>8. Len(result.dst) <= room /\ result.ret = Len(result.dst)
  BY <1>2, <1>3, <1>4
<1>9. \/ g <= q /\ (g = q \/ 5 * g >= room)
      \/ g = q + 1 /\ len % 5 \in {3, 4} /\ 8 * g <= Len(chars)
  BY <1>2
<1> QED
  BY <1>b, <1>6, <1>7, <1>8, <1>9, Zenon DEF Decoding32

-----------------------------------------------------------------------------
(* Base 16: a byte and its two digits.                                     *)
LEMMA DigitBits ==
  ASSUME NEW b \in Byte, NEW i \in 1..8
  PROVE  ((IF i <= 4 THEN b \div 16 ELSE b % 16) \div Weight[4 - ((i - 1) % 4)]) % 2
           = (b \div Weight[8 - (i - 1)]) % 2
<1> USE DEF Byte, Weight
<1>1. CASE i \in 1..4
  BY <1>1
<1>2. CASE i = 5
  BY <1>2
<1>3. CASE i = 6
  BY <1>3
<1>4. CASE i = 7
  BY <1>4
<1>5. CASE i = 8
  BY <1>5
<1> QED
  BY <1>1, <1>2, <1>3, <1>4, <1>5

(* Where a bit stands among bytes and among digits.                        *)
LEMMA DigitPlace ==
  ASSUME NEW m \in Nat \ {0}, NEW h, NEW i, h = (m - 1) \div 8, i = 1 + ((m - 1) % 8)
  PROVE  /\ h \in Nat /\ i \in 1..8 /\ m = 8 * h + i
         /\ CeilDiv(m, 8) = h + 1 /\ (m - 1) % 8 = i - 1
         /\ CeilDiv(m, 4) = IF i <= 4 THEN 2 * (h + 1) - 1 ELSE 2 * (h + 1)
         /\ (m - 1) % 4 = (i - 1) % 4
<1> DEFINE a == (m - 1) \div 8
           c == 1 + ((m - 1) % 8)
<1>1. a \in Nat /\ c \in 1..8 /\ m = 8 * a + c /\ (m - 1) % 8 = c - 1
  OBVIOUS
<1> HIDE DEF a, c
<1>2. /\ CeilDiv(m, 8) = a + 1
      /\ CeilDiv(m, 4) = IF c <= 4 THEN 2 * (a + 1) - 1 ELSE 2 * (a + 1)
      /\ (m - 1) % 4 = (c - 1) % 4
  BY <1>1 DEF CeilDiv
<1>3. h = a /\ i = c
  BY DEF a, c
<1> QED
  BY <1>1, <1>2, <1>3

(* Sequences of bytes and of their digits have the same bits.              *)
LEMMA SameDigits ==
  ASSUME NEW bytes, NEW chars, NEW n \in Nat,
         \A k \in 1..n : bytes[k] \in Byte,
         \A k \in 1..n : chars[2 * k - 1] = bytes[k] \div 16 /\ chars[2 * k] = bytes[k] % 16,
         NEW m \in 1..(8 * n)
  PROVE  Bit(4, chars, m) = Bit(8, bytes, m)
<1> DEFINE h == (m - 1) \div 8
           i == 1 + ((m - 1) % 8)
           k == h + 1
<1>1. m \in Nat \ {0}
  OBVIOUS
<1>2. /\ h \in Nat /\ i \in 1..8 /\ m = 8 * h + i
      /\ CeilDiv(m, 8) = h + 1 /\ (m - 1) % 8 = i - 1
      /\ CeilDiv(m, 4) = IF i <= 4 THEN 2 * (h + 1) - 1 ELSE 2 * (h + 1)
      /\ (m - 1) % 4 = (i - 1) % 4
  BY <1>1, DigitPlace, ZenonT(60)
<1> HIDE DEF h, i
<1>3. k \in 1..n
  BY <1>2
<1> DEFINE b == bytes[k]
<1>4. b \in Byte /\ chars[2 * k - 1] = b \div 16 /\ chars[2 * k] = b % 16
  BY <1>3
<1> HIDE DEF k
<1>5. chars[CeilDiv(m, 4)] = IF i <= 4 THEN b \div 16 ELSE b % 16
  BY <1>2, <1>4 DEF k
<1>6. bytes[CeilDiv(m, 8)] = b
  BY <1>2 DEF k
<1> HIDE DEF b
<1>7. ((IF i <= 4 THEN b \div 16 ELSE b % 16) \div Weight[4 - ((i - 1) % 4)]) % 2
           = (b \div Weight[8 - (i - 1)]) % 2
  BY <1>2, <1>4, DigitBits
<1>8. Bit(4, chars, m) = (chars[CeilDiv(m, 4)] \div Weight[4 - ((m - 1) % 4)]) % 2
  BY DEF Bit
<1>9. Bit(8, bytes, m) = (bytes[CeilDiv(m, 8)] \div Weight[8 - ((m - 1) % 8)]) % 2
  BY DEF Bit
<1>10. Bit(4, chars, m) = ((IF i <= 4 THEN b \div 16 ELSE b % 16) \div Weight[4 - ((i - 1) % 4)]) % 2
  BY <1>2, <1>5, <1>8
<1>11. Bit(8, bytes, m) = (b \div Weight[8 - (i - 1)]) % 2
  BY <1>2, <1>6, <1>9
<1> QED
  BY <1>7, <1>10, <1>11

(* What base16_encode makes.                                               *)
LEMMA Encoded16 ==
  ASSUME NEW bytes, NEW n \in Nat, n = Len(bytes)
  PROVE  /\ Len(Base16Encode(bytes)) = 2 * n
         /\ Base16Encode(bytes) = [k \in 1..(2 * n) |-> Base16Encode(bytes)[k]]
         /\ \A k \in 1..(2 * n) : Base16Encode(bytes)[k] =
              IF k % 2 = 1 THEN bytes[CeilDiv(k, 2)] \div 16 ELSE bytes[CeilDiv(k, 2)] % 16
         /\ \A k \in 1..n : /\ Base16Encode(bytes)[2 * k - 1] = bytes[k] \div 16
                            /\ Base16Encode(bytes)[2 * k] = bytes[k] % 16
<1> DEFINE e == Base16Encode(bytes)
           v(k) == IF k % 2 = 1 THEN bytes[CeilDiv(k, 2)] \div 16 ELSE bytes[CeilDiv(k, 2)] % 16
<1>1. e = [k \in 1..(2 * n) |-> v(k)]
  BY DEF Base16Encode
<1> HIDE DEF e
<1>2. 2 * n \in Nat
  OBVIOUS
<1>3. Len(e) = 2 * n /\ e = [k \in 1..(2 * n) |-> e[k]]
  <2> HIDE DEF v
  <2> QED
    BY <1>1, <1>2
<1>4. \A k \in 1..(2 * n) : e[k] = v(k)
  BY <1>1
<1>5. ASSUME NEW k \in 1..n
      PROVE  /\ e[2 * k - 1] = bytes[k] \div 16
             /\ e[2 * k] = bytes[k] % 16
  <2>1. 2 * k - 1 \in 1..(2 * n) /\ 2 * k \in 1..(2 * n)
    OBVIOUS
  <2>2. (2 * k - 1) % 2 = 1 /\ CeilDiv(2 * k - 1, 2) = k
    BY DEF CeilDiv
  <2>3. (2 * k) % 2 = 0 /\ CeilDiv(2 * k, 2) = k
    BY DEF CeilDiv
  <2>4. e[2 * k - 1] = v(2 * k - 1) /\ e[2 * k] = v(2 * k)
    BY <1>4, <2>1
  <2>5. v(2 * k - 1) = bytes[k] \div 16
    BY <2>2
  <2>6. v(2 * k) = bytes[k] % 16
    BY <2>3
  <2> QED
    BY <2>4, <2>5, <2>6
<1> QED
  BY <1>3, <1>4, <1>5 DEF e

-----------------------------------------------------------------------------
(* base16_decode.                                                          *)

(* What base16_decode makes of digits and characters that are none.       *)
Whole16(size, n) == IF size < n \div 2 THEN size ELSE n \div 2
Half16(size, n) == IF n = 2 * Whole16(size, n) + 1 THEN 1 ELSE 0

(* A set of positions that is not empty has a first one.                   *)
LEMMA LastOf ==
  ASSUME NEW n \in Nat, NEW B \in SUBSET (1..n), B # {}
  PROVE  Min(B) \in B
<1> DEFINE P(i) == i \in B
<1>1. PICK b \in B : TRUE
  OBVIOUS
<1> DEFINE S == {i \in Nat : \A j \in 0..i : j \notin B}
<1>2. CASE \E i \in B : \A j \in B : i <= j
  BY <1>2 DEF Min
<1>3. CASE ~ \E i \in B : \A j \in B : i <= j
  <2>1. 0 \in S
    OBVIOUS
  <2>2. ASSUME NEW i \in Nat, i \in S
        PROVE  i + 1 \in S
    <3>1. \A j \in B : i + 1 <= j
      BY <2>2
    <3>2. i + 1 \notin B
      BY <3>1, <1>3
    <3> QED
      BY <2>2, <3>2
  <2>3. Nat \subseteq S
    <3> HIDE DEF S
    <3> QED
      BY <2>1, <2>2, SetInduction
  <2>4. b \in Nat /\ b \in B
    BY <1>1
  <2>5. b \in S
    BY <2>3, <2>4
  <2> QED
    BY <2>4, <2>5
<1> QED
  BY <1>2, <1>3

(* How many digits are decoded, and to how many bytes.                     *)
LEMMA Places16 ==
  ASSUME NEW size \in Nat, NEW n \in Nat
  PROVE  /\ Whole16(size, n) \in Nat /\ Half16(size, n) \in {0, 1}
         /\ (IF size < n \div 2 THEN size * 2 ELSE n) = 2 * Whole16(size, n) + Half16(size, n)
         /\ 2 * Whole16(size, n) + Half16(size, n) <= n
         /\ Half16(size, n) = 1 => n = 2 * Whole16(size, n) + 1
         /\ CeilDiv(2 * Whole16(size, n) + Half16(size, n), 2) = Whole16(size, n) + Half16(size, n)
         /\ (2 * Whole16(size, n) + Half16(size, n)) \div 2 = Whole16(size, n)
         /\ Whole16(size, n) <= size
<1>1. n \div 2 \in Nat /\ (n = 2 * (n \div 2) \/ n = 2 * (n \div 2) + 1)
  OBVIOUS
<1> QED
  BY <1>1 DEF Whole16, Half16, CeilDiv

(* The digits of the byte that two digits make.                            *)
LEMMA DigitOf ==
  ASSUME NEW a \in 0..15, NEW b \in 0..15
  PROVE  /\ a * 16 + b \in Byte
         /\ (a * 16 + b) \div 16 = a /\ (a * 16 + b) % 16 = b
BY DEF Byte

(* The byte that is made of two digits, neither of them a NUL.             *)
LEMMA LowAdded ==
  ASSUME NEW a \in 0..15, NEW b \in 0..15
  PROVE  WithLow(HighBits(a), b) = a * 16 + b
BY DEF WithLow, HighBits, Nul

DigitsDecoded(chars, w, half, r) ==
  /\ (\A k \in 1..(2 * w + half) : chars[k] \in 0..Nul) =>
       /\ r.ret = w
       /\ r.dst = [k \in 1..(w + half) |-> r.dst[k]]
       /\ Len(r.dst) = w + half
       /\ \A k \in 1..w :
            chars[2 * k - 1] \in 0..15 /\ chars[2 * k] \in 0..15 =>
              r.dst[k] = chars[2 * k - 1] * 16 + chars[2 * k] /\ r.dst[k] \in Byte
  /\ (\E k \in 1..(2 * w + half) : chars[k] \notin 0..Nul) =>
       /\ r.ret = -1
       /\ Len(r.dst) \in Nat /\ Len(r.dst) <= w + 1
       /\ r.dst = [k \in 1..Len(r.dst) |-> r.dst[k]]

(* What base16_decode makes of a text: every pair of digits a byte, or a   *)
(* failure.                                                                *)
LEMMA Decoded16 ==
  ASSUME NEW size \in Nat, NEW chars, NEW n \in Nat, n = Len(chars),
         \A k \in 1..n : chars[k] \in Int
  PROVE  DigitsDecoded(chars, Whole16(size, n), Half16(size, n), Base16Decode(size, chars))
<1>W. PICK w : w = Whole16(size, n)
  OBVIOUS
<1>H. PICK half : half = Half16(size, n)
  OBVIOUS
<1>R. PICK r : r = Base16Decode(size, chars)
  OBVIOUS
<1> DEFINE l == 2 * w + half
           bad == {k \in 1..l : chars[k] \notin 0..Nul}
           good == IF bad = {} THEN l ELSE Min(bad) - 1
           v(k) == IF 2 * k <= good THEN WithLow(HighBits(chars[2 * k - 1]), chars[2 * k])
                   ELSE HighBits(chars[2 * k - 1])
           c == CeilDiv(good, 2)
<1>1. /\ w \in Nat /\ half \in {0, 1} /\ (IF size < n \div 2 THEN size * 2 ELSE n) = l /\ l <= n
      /\ CeilDiv(l, 2) = w + half /\ l \div 2 = w /\ l \in Nat
  <2>1. /\ Whole16(size, n) \in Nat /\ Half16(size, n) \in {0, 1}
        /\ (IF size < n \div 2 THEN size * 2 ELSE n) = 2 * Whole16(size, n) + Half16(size, n)
        /\ 2 * Whole16(size, n) + Half16(size, n) <= n
        /\ CeilDiv(2 * Whole16(size, n) + Half16(size, n), 2) = Whole16(size, n) + Half16(size, n)
        /\ (2 * Whole16(size, n) + Half16(size, n)) \div 2 = Whole16(size, n)
    BY Places16
  <2>2. /\ w \in Nat /\ half \in {0, 1} /\ (IF size < n \div 2 THEN size * 2 ELSE n) = l /\ l <= n
        /\ CeilDiv(l, 2) = w + half /\ l \div 2 = w
    BY <2>1, <1>W, <1>H, Zenon
  <2>3. l \in Nat
    <3>1. w \in Nat /\ half \in {0, 1}
      BY <2>2, Zenon
    <3>2. half \in Nat
      BY <3>1
    <3> QED
      BY <3>1, <3>2
  <2> QED
    BY <2>2, <2>3, Zenon
<1>w. w \in Nat /\ half \in {0, 1} /\ l = 2 * w + half
  BY <1>1, Zenon
<1> HIDE DEF l
<1>2. r = [dst |-> [k \in 1..c |-> v(k)], ret |-> IF bad = {} THEN l \div 2 ELSE -1]
  <2>1. r = Base16Decode(size, chars) /\ Len(chars) = n /\ (IF size < n \div 2 THEN size * 2 ELSE n) = l
    BY <1>1, <1>R
  <2> QED
    BY <2>1, Zenon DEF Base16Decode
<1>3. /\ r.dst = [k \in 1..c |-> v(k)]
      /\ r.ret = IF bad = {} THEN l \div 2 ELSE -1
  <2> HIDE DEF v, c, bad
  <2> QED
    BY <1>2
<1>4. ASSUME \A k \in 1..l : chars[k] \in 0..Nul
      PROVE  /\ r.ret = w
             /\ r.dst = [k \in 1..(w + half) |-> r.dst[k]]
             /\ Len(r.dst) = w + half
             /\ \A k \in 1..w :
                  chars[2 * k - 1] \in 0..15 /\ chars[2 * k] \in 0..15 =>
                    r.dst[k] = chars[2 * k - 1] * 16 + chars[2 * k] /\ r.dst[k] \in Byte
  <2>1. bad = {}
    BY <1>4
  <2>2. good = l /\ c = w + half
    <3> HIDE DEF bad
    <3>1. good = l
      BY <2>1
    <3> HIDE DEF good
    <3> QED
      BY <3>1, <1>1
  <2>3. r.ret = w
    BY <1>1, <1>3, <2>1
  <2>4. r.dst = [k \in 1..(w + half) |-> v(k)] /\ w + half \in Nat
    BY <1>1, <1>3, <2>2
  <2>5. r.dst = [k \in 1..(w + half) |-> r.dst[k]] /\ Len(r.dst) = w + half
    <3> HIDE DEF v
    <3> QED
      BY <2>4
  <2>6. ASSUME NEW k \in 1..w, chars[2 * k - 1] \in 0..15, chars[2 * k] \in 0..15
        PROVE  r.dst[k] = chars[2 * k - 1] * 16 + chars[2 * k] /\ r.dst[k] \in Byte
    <3>1. k \in 1..(w + half) /\ 2 * k <= l /\ 2 * k - 1 \in 1..l /\ 2 * k \in 1..l
      BY <1>w
    <3>2. r.dst[k] = v(k)
      <4> HIDE DEF v
      <4> QED
        BY <2>4, <3>1
    <3>3. v(k) = chars[2 * k - 1] * 16 + chars[2 * k]
      <4>1. v(k) = WithLow(HighBits(chars[2 * k - 1]), chars[2 * k])
        BY <2>2, <3>1
      <4> QED
        BY <2>6, <4>1, LowAdded, Zenon
    <3>4. chars[2 * k - 1] \in 0..15 /\ chars[2 * k] \in 0..15
      BY <2>6
    <3>5. chars[2 * k - 1] * 16 + chars[2 * k] \in Byte
      BY <3>4, DigitOf
    <3>6. r.dst[k] = chars[2 * k - 1] * 16 + chars[2 * k]
      <4> HIDE DEF v
      <4> QED
        BY <3>2, <3>3, Zenon
    <3> QED
      BY <3>5, <3>6, Zenon
  <2> QED
    BY <2>3, <2>5, <2>6
<1>5. ASSUME \E k \in 1..l : chars[k] \notin 0..Nul
      PROVE  /\ r.ret = -1
             /\ Len(r.dst) \in Nat /\ Len(r.dst) <= w + 1
             /\ r.dst = [k \in 1..Len(r.dst) |-> r.dst[k]]
  <2>1. bad # {} /\ bad \in SUBSET (1..l)
    BY <1>5
  <2>2. Min(bad) \in 1..l
    <3>1. Min(bad) \in bad
      <4> HIDE DEF bad
      <4> QED
        BY <1>1, <2>1, LastOf
    <3> QED
      BY <2>1, <3>1
  <2>3. good \in 0..(l - 1)
    <3> HIDE DEF bad
    <3>1. good = Min(bad) - 1
      BY <2>1
    <3>2. l \in Nat
      BY <1>w
    <3> HIDE DEF good
    <3> QED
      BY <2>2, <3>1, <3>2
  <2>4. c \in Nat /\ c <= w + 1
    <3> HIDE DEF good
    <3> QED
      BY <2>3, <1>w DEF CeilDiv
  <2>5. r.ret = -1
    BY <1>3, <2>1
  <2>6. Len(r.dst) = c /\ r.dst = [k \in 1..c |-> r.dst[k]]
    <3> HIDE DEF v, c
    <3> QED
      BY <1>3, <2>4
  <2> QED
    BY <2>4, <2>5, <2>6
<1> QED
  BY <1>4, <1>5, <1>W, <1>H, <1>R, Zenon DEF l, DigitsDecoded

-----------------------------------------------------------------------------
(* The jobs of MCFormats and what is printed and parsed of them.           *)

(* The kind of a job says which set of jobs it is from.                    *)
LEMMA JobsKnown ==
  ASSUME job \in Jobs
  PROVE  /\ job.kind = "base32" => job \in Base32Jobs
         /\ job.kind = "base16" => job \in Base16Jobs
         /\ job.kind = "prefix" => job \in PrefixJobs
         /\ job.kind = "class" => job \in ClassJobs
         /\ job.kind = "path" => job \in PathJobs
         /\ job.kind = "join" => job \in JoinJobs
         /\ job.kind = "url" => job \in UrlJobs
         /\ job.kind = "split" => job \in SplitJobs
         /\ job.kind = "line" => job \in LineJobs
         /\ job.kind = "find" => job \in FindJobs
         /\ job.kind = "prime" => job \in PrimeJobs
         /\ job.kind = "tiger" => job \in TigerJobs
<1>1. job \in Base32Jobs => job.kind = "base32"
  BY DEF Base32Jobs
<1>2. job \in Base16Jobs => job.kind = "base16"
  BY DEF Base16Jobs
<1>3. job \in AddressJobs => job.kind = "address"
  BY DEF AddressJobs
<1>4. job \in CutJobs => job.kind = "cut"
  BY DEF CutJobs
<1>5. job \in ClassJobs => job.kind = "class"
  BY DEF ClassJobs
<1>6. job \in TextJobs => job.kind = "text"
  BY DEF TextJobs
<1>7. job \in PrefixJobs => job.kind = "prefix"
  <2>1. \A A, B, C : job \in [kind : {"prefix"}, a : A, bit : B, prefix : C] => job.kind = "prefix"
    OBVIOUS
  <2> QED
    BY <2>1 DEF PrefixJobs
<1>8. job \in DateJobs => job.kind = "date"
  <2>1. \A f, tm : job \in DateJobsOf(f, tm) => job.kind = "date"
    BY DEF DateJobsOf
  <2> QED
    BY <2>1 DEF DateJobs
<1>9. job \in OrderJobs => job.kind = "order"
  BY DEF OrderJobs
<1>10. job \in PathJobs => job.kind = "path"
  BY DEF PathJobs
<1>11. job \in JoinJobs => job.kind = "join"
  BY DEF JoinJobs
<1>12. job \in UrlJobs => job.kind = "url"
  BY DEF UrlJobs
<1>13. job \in SplitJobs => job.kind = "split"
  BY DEF SplitJobs
<1>14. job \in LineJobs => job.kind = "line"
  BY DEF LineJobs
<1>15. job \in FindJobs => job.kind = "find"
  BY DEF FindJobs
<1>16. job \in PrimeJobs => job.kind = "prime"
  BY DEF PrimeJobs
<1>17. job \in TigerJobs => job.kind = "tiger"
  BY DEF TigerJobs
<1> QED
  BY <1>1, <1>2, <1>3, <1>4, <1>5, <1>6, <1>7, <1>8, <1>9, <1>10, <1>11, <1>12, <1>13, <1>14,
     <1>15, <1>16, <1>17 DEF Jobs

(* What was printed is what is printed of the job, and what was parsed of  *)
(* it is what its function returns.                                        *)
Parsed ==
  CASE job.kind = "base32" ->
         Base32Decode(job.room, Filled(IF job.pads THEN (8 - (Len(text) % 8)) % 8 ELSE 0))
    [] job.kind = "base16" -> Base16Decode(job.room, text)
    [] job.kind = "class" -> [multicast |-> IsMulticast(BytesOf(job.addr)), link |-> IsLinkLocal(BytesOf(job.addr)),
                              site |-> IsSiteLocal(BytesOf(job.addr)), private |-> IsPrivate(job.addr)]
    [] job.kind = "prefix" -> Matches(job.a, Flipped(job.a, job.bit), job.prefix)
    [] job.kind = "path" -> UriCanonizePath(job.path, job.same)
    [] job.kind = "join" -> CreatePathname(job.path, job.file)
    [] job.kind = "url" -> UrlDecode(job.size, text)
    [] job.kind = "split" -> UrlSplit(text \o <<NUL>> \o job.behind, job.size)
    [] job.kind = "line" -> SecondLine(TokenLine(job.size, text))
    [] job.kind = "find" -> Memmem(job.data \o job.behind, Len(job.data), job.pattern)
    [] job.kind = "prime" -> PrimeUp(job.n)
    [] job.kind = "tiger" -> TigerInput(job.length, job.layout)
    [] OTHER -> back

FormatsInv ==
  /\ job \in Jobs
  /\ pc \in {"parse", "done"} => text = TextOf
  /\ pc = "done" => back = Parsed

(* FormatsInv is inductive: what is printed and parsed is determined by    *)
(* the job, of which no step changes anything.                             *)
LEMMA FormatsKnown == Spec => []FormatsInv
<1>1. Init => FormatsInv
  BY DEF Init, FormatsInv
<1>2. FormatsInv /\ [Next]_vars => FormatsInv'
  <2> SUFFICES ASSUME FormatsInv, [Next]_vars
               PROVE  FormatsInv'
    OBVIOUS
  <2>1. CASE ToText
    BY <2>1 DEF FormatsInv, ToText, TextOf
  <2>2. ASSUME NEW kind, NEW value, Result(kind, value)
        PROVE  /\ job' = job /\ text' = text /\ pc' = "done" /\ job.kind = kind /\ back' = value
               /\ TextOf' = TextOf /\ text = TextOf
    BY <2>2 DEF Result, FormatsInv, TextOf
  <2>3. CASE ParseBase32
    <3>1. /\ job' = job /\ text' = text /\ job.kind = "base32"
          /\ TextOf' = TextOf /\ text = TextOf
      BY <2>2, <2>3 DEF ParseBase32
    <3>2. Parsed' = back'
      BY <3>1, <2>3 DEF ParseBase32, Result, Parsed, Filled
    <3> QED
      BY <3>1, <3>2 DEF FormatsInv
  <2>4. CASE ParseBase16
    <3>1. /\ job' = job /\ text' = text /\ job.kind = "base16"
          /\ TextOf' = TextOf /\ text = TextOf
      BY <2>2, <2>4 DEF ParseBase16
    <3>2. Parsed' = back'
      BY <3>1, <2>4 DEF ParseBase16, Result, Parsed
    <3> QED
      BY <3>1, <3>2 DEF FormatsInv
  <2>5. CASE ParseAddress
    <3>1. /\ job' = job /\ text' = text /\ job.kind = "address"
          /\ TextOf' = TextOf /\ text = TextOf
      BY <2>2, <2>5 DEF ParseAddress
    <3>2. Parsed' = back'
      BY <3>1, <2>5 DEF ParseAddress, Result, Parsed
    <3> QED
      BY <3>1, <3>2 DEF FormatsInv
  <2>6. CASE ParseText
    <3>1. /\ job' = job /\ text' = text /\ job.kind = "text"
          /\ TextOf' = TextOf /\ text = TextOf
      BY <2>2, <2>6 DEF ParseText
    <3>2. Parsed' = back'
      BY <3>1, <2>6 DEF ParseText, Result, Parsed
    <3> QED
      BY <3>1, <3>2 DEF FormatsInv
  <2>7. CASE Classify
    <3>1. /\ job' = job /\ text' = text /\ job.kind = "class"
          /\ TextOf' = TextOf /\ text = TextOf
      BY <2>2, <2>7 DEF Classify
    <3>2. Parsed' = back'
      BY <3>1, <2>7 DEF Classify, Result, Parsed
    <3> QED
      BY <3>1, <3>2 DEF FormatsInv
  <2>8. CASE MatchPrefix
    <3>1. /\ job' = job /\ text' = text /\ job.kind = "prefix"
          /\ TextOf' = TextOf /\ text = TextOf
      BY <2>2, <2>8 DEF MatchPrefix
    <3>2. Parsed' = back'
      BY <3>1, <2>8 DEF MatchPrefix, Result, Parsed
    <3> QED
      BY <3>1, <3>2 DEF FormatsInv
  <2>9. CASE ReadDate
    <3>1. /\ job' = job /\ text' = text /\ job.kind = "date"
          /\ TextOf' = TextOf /\ text = TextOf
      BY <2>2, <2>9 DEF ReadDate
    <3>2. Parsed' = back'
      BY <3>1, <2>9 DEF ReadDate, Result, Parsed
    <3> QED
      BY <3>1, <3>2 DEF FormatsInv
  <2>10. CASE CompareDates
    <3>1. /\ job' = job /\ text' = text /\ job.kind = "order"
          /\ TextOf' = TextOf /\ text = TextOf
      BY <2>2, <2>10 DEF CompareDates
    <3>2. Parsed' = back'
      BY <3>1, <2>10 DEF CompareDates, Result, Parsed
    <3> QED
      BY <3>1, <3>2 DEF FormatsInv
  <2>11. CASE CanonizePath
    <3>1. /\ job' = job /\ text' = text /\ job.kind = "path"
          /\ TextOf' = TextOf /\ text = TextOf
      BY <2>2, <2>11 DEF CanonizePath
    <3>2. Parsed' = back'
      BY <3>1, <2>11 DEF CanonizePath, Result, Parsed
    <3> QED
      BY <3>1, <3>2 DEF FormatsInv
  <2>12. CASE JoinPath
    <3>1. /\ job' = job /\ text' = text /\ job.kind = "join"
          /\ TextOf' = TextOf /\ text = TextOf
      BY <2>2, <2>12 DEF JoinPath
    <3>2. Parsed' = back'
      BY <3>1, <2>12 DEF JoinPath, Result, Parsed
    <3> QED
      BY <3>1, <3>2 DEF FormatsInv
  <2>13. CASE DecodeUrl
    <3>1. /\ job' = job /\ text' = text /\ job.kind = "url"
          /\ TextOf' = TextOf /\ text = TextOf
      BY <2>2, <2>13 DEF DecodeUrl
    <3>2. Parsed' = back'
      BY <3>1, <2>13 DEF DecodeUrl, Result, Parsed
    <3> QED
      BY <3>1, <3>2 DEF FormatsInv
  <2>14. CASE SplitUrl
    <3>1. /\ job' = job /\ text' = text /\ job.kind = "split"
          /\ TextOf' = TextOf /\ text = TextOf
      BY <2>2, <2>14 DEF SplitUrl
    <3>2. Parsed' = back'
      BY <3>1, <2>14 DEF SplitUrl, Result, Parsed
    <3> QED
      BY <3>1, <3>2 DEF FormatsInv
  <2>15. CASE ReadLines
    <3>1. /\ job' = job /\ text' = text /\ job.kind = "line"
          /\ TextOf' = TextOf /\ text = TextOf
      BY <2>2, <2>15 DEF ReadLines
    <3>2. Parsed' = back'
      BY <3>1, <2>15 DEF ReadLines, Result, Parsed, SecondLine
    <3> QED
      BY <3>1, <3>2 DEF FormatsInv
  <2>16. CASE FindData
    <3>1. /\ job' = job /\ text' = text /\ job.kind = "find"
          /\ TextOf' = TextOf /\ text = TextOf
      BY <2>2, <2>16 DEF FindData
    <3>2. Parsed' = back'
      BY <3>1, <2>16 DEF FindData, Result, Parsed
    <3> QED
      BY <3>1, <3>2 DEF FormatsInv
  <2>17. CASE FindPrime
    <3>1. /\ job' = job /\ text' = text /\ job.kind = "prime"
          /\ TextOf' = TextOf /\ text = TextOf
      BY <2>2, <2>17 DEF FindPrime
    <3>2. Parsed' = back'
      BY <3>1, <2>17 DEF FindPrime, Result, Parsed
    <3> QED
      BY <3>1, <3>2 DEF FormatsInv
  <2>18. CASE HashMessage
    <3>1. /\ job' = job /\ text' = text /\ job.kind = "tiger"
          /\ TextOf' = TextOf /\ text = TextOf
      BY <2>2, <2>18 DEF HashMessage
    <3>2. Parsed' = back'
      BY <3>1, <2>18 DEF HashMessage, Result, Parsed
    <3> QED
      BY <3>1, <3>2 DEF FormatsInv
  <2>19. CASE UNCHANGED vars
    BY <2>19 DEF vars, FormatsInv, TextOf, Parsed, Filled, SecondLine
  <2> QED
    BY <2>1, <2>3, <2>4, <2>5, <2>6, <2>7, <2>8, <2>9, <2>10, <2>11, <2>12, <2>13, <2>14, <2>15, <2>16, <2>17, <2>18, <2>19 DEF Next
<1> QED
  BY <1>1, <1>2, PTL DEF Spec

(* The beginning of a sequence, from what stands at its places.            *)
LEMMA Beginning ==
  ASSUME NEW S, NEW s \in Seq(S), NEW n \in Nat, n <= Len(s),
         NEW f, DOMAIN f = 1..n, f = [i \in DOMAIN f |-> f[i]], \A i \in 1..n : f[i] = s[i]
  PROVE  SubSeq(s, 1, n) = f
<1>1. SubSeq(s, 1, n) = [i \in 1..n |-> s[i]]
  OBVIOUS
<1> QED
  BY <1>1

(* A string of bits, place by place.                                       *)
LEMMA BitStringOf ==
  ASSUME NEW w \in Nat, NEW s, NEW n \in Nat, Len(s) = n
  PROVE  /\ DOMAIN BitString(w, s) = 1..(w * n)
         /\ BitString(w, s) = [m \in DOMAIN BitString(w, s) |-> BitString(w, s)[m]]
         /\ \A m \in 1..(w * n) : BitString(w, s)[m] = Bit(w, s, m)
BY DEF BitString

(* The length of the text of n bytes, and the bits of the bytes and zeros. *)
TextLength(n) == IF n = 0 THEN 8 ELSE IF n % 5 = 2 THEN CeilDiv(8 * n, 5) - 1 ELSE CeilDiv(8 * n, 5)
BitsAndZeros(bytes) == BitString(8, bytes) \o [k \in 1..40 |-> 0]

(* What EncodesBits says of base 32.                                       *)
Encoding32(bytes, size, t) ==
  /\ Len(t) = Min({size, TextLength(Len(bytes))})
  /\ BitString(5, t) = SubSeq(BitsAndZeros(bytes), 1, 5 * Len(t))

(* The text of base 32 is as EncodesBits says, for bytes of any number     *)
(* and a destination of any size.                                          *)
LEMMA Encodes32 ==
  ASSUME NEW size \in Nat, NEW bytes \in Seq(Byte)
  PROVE  Encoding32(bytes, size, Base32Encode(size, bytes))
<1>e. PICK e : e = Base32Encode(size, bytes)
  OBVIOUS
<1>n. PICK n : n = Len(e)
  OBVIOUS
<1>l. PICK len : len = Len(bytes)
  OBVIOUS
<1> DEFINE zeros == [k \in 1..40 |-> 0]
           whole == BitString(8, bytes)
           S == {Bit(8, bytes, m) : m \in 1..(8 * len)} \cup {0}
<1>1. len \in Nat /\ 8 * len \in Nat /\ 40 \in Nat
  BY <1>l
<1>2. /\ n = Min({size, Base32Length(len)})
      /\ Min({size, Base32Length(len)}) \in Nat
      /\ Min({size, Base32Length(len)}) <= Base32Length(len)
  BY <1>e, <1>n, <1>l, Encoded
<1>3. /\ Base32Length(len) \in Nat /\ 5 * Base32Length(len) <= 8 * len + 40
      /\ Base32Length(len) = IF len = 0 THEN 8 ELSE IF len % 5 = 2 THEN CeilDiv(8 * len, 5) - 1 ELSE CeilDiv(8 * len, 5)
  BY <1>1, EncodedLength
<1>4. n \in Nat /\ 5 * n <= 8 * len + 40
  <2>1. n \in Nat /\ n <= Base32Length(len)
    BY <1>2
  <2> QED
    BY <2>1, <1>3, <1>1
<1>5. Len(zeros) = 40 /\ \A k \in 1..40 : zeros[k] = 0
  OBVIOUS
<1>6. zeros \in Seq(S)
  OBVIOUS
<1>7. whole = [m \in 1..(8 * len) |-> Bit(8, bytes, m)]
  BY <1>l DEF BitString
<1>8. whole \in Seq(S) /\ Len(whole) = 8 * len /\ \A m \in 1..(8 * len) : whole[m] = Bit(8, bytes, m)
  <2> HIDE DEF whole
  <2>1. \A m \in 1..(8 * len) : Bit(8, bytes, m) \in S
    OBVIOUS
  <2> HIDE DEF S
  <2>2. whole \in [1..(8 * len) -> S]
    BY <1>7, <2>1
  <2> QED
    BY <1>1, <1>7, <2>2
<1> HIDE DEF zeros, whole, S
<1>9. /\ whole \o zeros \in Seq(S) /\ Len(whole \o zeros) = 8 * len + 40
      /\ \A m \in 1..(8 * len + 40) :
           (whole \o zeros)[m] = IF m <= 8 * len THEN whole[m] ELSE zeros[m - 8 * len]
  <2>1. /\ whole \o zeros \in Seq(S) /\ Len(whole \o zeros) = Len(whole) + Len(zeros)
        /\ \A m \in 1..(Len(whole) + Len(zeros)) :
             (whole \o zeros)[m] = IF m <= Len(whole) THEN whole[m] ELSE zeros[m - Len(whole)]
    BY <1>6, <1>8, Joining
  <2>2. Len(whole) = 8 * len /\ Len(zeros) = 40
    BY <1>5, <1>8
  <2> QED
    BY <2>1, <2>2, Zenon
<1> DEFINE bits == whole \o zeros
           b == BitString(5, e)
<1>10. DOMAIN b = 1..(5 * n) /\ b = [m \in DOMAIN b |-> b[m]] /\ \A m \in 1..(5 * n) : b[m] = Bit(5, e, m)
  <2>1. b = [m \in 1..(5 * n) |-> Bit(5, e, m)]
    BY <1>n DEF BitString
  <2> HIDE DEF b
  <2> QED
    BY <2>1
<1>11. ASSUME NEW m \in 1..(5 * n)
       PROVE  Bit(5, e, m) = IF m <= 8 * len THEN Bit(8, bytes, m) ELSE 0
  BY <1>11, <1>e, <1>n, <1>l, EncodedBits
<1> HIDE DEF b
<1>12. \A m \in 1..(5 * n) : b[m] = bits[m]
  <2> TAKE m \in 1..(5 * n)
  <2>1. m \in 1..(8 * len + 40) /\ (m > 8 * len => m - 8 * len \in 1..40)
    <3> HIDE DEF bits, b
    <3>1. m <= 8 * len + 40 /\ m \in Nat /\ m >= 1
      BY <1>1, <1>4
    <3> QED
      <4>1. \A x, l \in Nat : x >= 1 /\ x <= 8 * l + 40 =>
              x \in 1..(8 * l + 40) /\ (x > 8 * l => x - 8 * l \in 1..40)
        OBVIOUS
      <4> QED
        BY <1>1, <3>1, <4>1
  <2>2. bits[m] = IF m <= 8 * len THEN whole[m] ELSE zeros[m - 8 * len]
    BY <1>9, <2>1
  <2>3. m \in 1..(8 * len) \/ m > 8 * len
    BY <1>1
  <2> HIDE DEF bits
  <2>4. b[m] = IF m <= 8 * len THEN Bit(8, bytes, m) ELSE 0
    BY <1>10, <1>11
  <2>5. CASE m <= 8 * len
    <3>1. m \in 1..(8 * len)
      BY <2>5, <1>1
    <3> QED
      BY <1>8, <2>2, <2>4, <2>5, <3>1
  <2>6. CASE ~(m <= 8 * len)
    <3>1. m - 8 * len \in 1..40
      BY <2>1, <2>6, <1>1
    <3> QED
      BY <1>5, <2>2, <2>4, <2>6, <3>1
  <2> QED
    BY <2>5, <2>6
<1>13. bits \in Seq(S) /\ 5 * n \in Nat /\ 5 * n <= Len(bits)
  BY <1>1, <1>4, <1>9
<1>14. SubSeq(bits, 1, 5 * n) = b
  <2> HIDE DEF bits
  <2> QED
    BY <1>10, <1>12, <1>13, Beginning
<1> QED
  <2>1. n = Min({size, TextLength(len)})
    BY <1>2, <1>3 DEF TextLength
  <2>2. BitString(5, e) = SubSeq(BitsAndZeros(bytes), 1, 5 * n)
    BY <1>14, Zenon DEF bits, b, whole, zeros, BitsAndZeros
  <2> QED
    BY <1>e, <1>n, <1>l, <2>1, <2>2, Zenon DEF Encoding32

(* The bytes that base16_encode takes.                                     *)
LEMMA TakenBytes ==
  ASSUME NEW bytes \in Seq(Byte), NEW n \in Nat,
         NEW x, x = SubSeq(bytes \o [k \in 1..n |-> 0], 1, n)
  PROVE  /\ x \in Seq(Byte) /\ Len(x) = n
         /\ \A k \in 1..n : x[k] \in Byte /\ (k <= Len(bytes) => x[k] = bytes[k])
<1> DEFINE zeros == [k \in 1..n |-> 0]
           s == bytes \o zeros
<1>1. zeros \in Seq(Byte) /\ Len(zeros) = n
  BY DEF Byte
<1> HIDE DEF zeros
<1>2. /\ s \in Seq(Byte) /\ Len(s) = Len(bytes) + Len(zeros) /\ Len(bytes) \in Nat
      /\ \A m \in 1..(Len(bytes) + Len(zeros)) : s[m] = IF m <= Len(bytes) THEN bytes[m] ELSE zeros[m - Len(bytes)]
  BY <1>1, Joining
<1> HIDE DEF s
<1>3. x = SubSeq(s, 1, n)
  BY DEF s, zeros
<1>4. /\ x \in Seq(Byte) /\ Len(x) = n
      /\ \A k \in 1..n : x[k] = s[k]
  BY <1>1, <1>2, <1>3
<1>5. ASSUME NEW k \in 1..n
      PROVE  x[k] \in Byte /\ (k <= Len(bytes) => x[k] = bytes[k])
  <2>1. k \in 1..(Len(bytes) + Len(zeros)) /\ k \in 1..Len(s)
    BY <1>1, <1>2
  <2>2. x[k] = s[k] /\ s[k] \in Byte
    BY <1>2, <1>4, <2>1
  <2> QED
    BY <1>2, <2>1, <2>2
<1> QED
  BY <1>4, <1>5

(* The two digits of a byte.                                               *)
LEMMA DigitsOfByte ==
  ASSUME NEW b \in Byte
  PROVE  /\ b \div 16 \in 0..15 /\ b % 16 \in 0..15
         /\ (b \div 16) % 16 = b \div 16 /\ (b \div 1) % 16 = b % 16
BY DEF Byte

(* What base16_encode makes of the bytes that it takes.                    *)
LEMMA Text16 ==
  ASSUME NEW bytes \in Seq(Byte), NEW n \in Nat, NEW t, t = Base16Text(bytes, n)
  PROVE  /\ t \in Seq(0..15) /\ Len(t) = 2 * n
         /\ \A k \in 1..(2 * n) : CeilDiv(k, 2) <= Len(bytes) =>
              t[k] = (bytes[CeilDiv(k, 2)] \div (IF k % 2 = 1 THEN 16 ELSE 1)) % 16
         /\ \A k \in 1..n : k <= Len(bytes) => t[2 * k - 1] = bytes[k] \div 16 /\ t[2 * k] = bytes[k] % 16
<1> DEFINE x == SubSeq(bytes \o [k \in 1..n |-> 0], 1, n)
<1>1. x \in Seq(Byte) /\ Len(x) = n
  BY TakenBytes
<1>2. \A k \in 1..n : x[k] \in Byte /\ (k <= Len(bytes) => x[k] = bytes[k])
  BY TakenBytes
<1>3. t = Base16Encode(x)
  BY DEF Base16Text
<1> HIDE DEF x
<1>4. /\ Len(t) = 2 * n /\ t = [k \in 1..(2 * n) |-> t[k]]
      /\ \A k \in 1..(2 * n) : t[k] = IF k % 2 = 1 THEN x[CeilDiv(k, 2)] \div 16 ELSE x[CeilDiv(k, 2)] % 16
      /\ \A k \in 1..n : t[2 * k - 1] = x[k] \div 16 /\ t[2 * k] = x[k] % 16
  <2>1. n = Len(x)
    BY <1>1
  <2>2. /\ Len(Base16Encode(x)) = 2 * n
        /\ Base16Encode(x) = [k \in 1..(2 * n) |-> Base16Encode(x)[k]]
        /\ \A k \in 1..(2 * n) : Base16Encode(x)[k] =
             IF k % 2 = 1 THEN x[CeilDiv(k, 2)] \div 16 ELSE x[CeilDiv(k, 2)] % 16
        /\ \A k \in 1..n : /\ Base16Encode(x)[2 * k - 1] = x[k] \div 16
                           /\ Base16Encode(x)[2 * k] = x[k] % 16
    BY <2>1, Encoded16
  <2> QED
    BY <1>3, <2>2, Zenon
<1>5. ASSUME NEW k \in 1..(2 * n)
      PROVE  CeilDiv(k, 2) \in 1..n
  BY DEF CeilDiv
<1>6. ASSUME NEW k \in 1..(2 * n)
      PROVE  /\ t[k] \in 0..15
             /\ CeilDiv(k, 2) <= Len(bytes) =>
                  t[k] = (bytes[CeilDiv(k, 2)] \div (IF k % 2 = 1 THEN 16 ELSE 1)) % 16
  <2> DEFINE h == CeilDiv(k, 2)
  <2>1. h \in 1..n
    BY <1>5
  <2>2. t[k] = IF k % 2 = 1 THEN x[h] \div 16 ELSE x[h] % 16
    BY <1>4
  <2> HIDE DEF h
  <2>3. x[h] \in Byte /\ (h <= Len(bytes) => x[h] = bytes[h])
    BY <1>2, <2>1
  <2>4. /\ x[h] \div 16 \in 0..15 /\ x[h] % 16 \in 0..15
        /\ (x[h] \div 16) % 16 = x[h] \div 16 /\ (x[h] \div 1) % 16 = x[h] % 16
    BY <2>3, DigitsOfByte
  <2>5. t[k] = (x[h] \div (IF k % 2 = 1 THEN 16 ELSE 1)) % 16 /\ t[k] \in 0..15
    <3>1. CASE k % 2 = 1
      BY <2>2, <2>4, <3>1
    <3>2. CASE k % 2 # 1
      BY <2>2, <2>4, <3>2
    <3> QED
      BY <3>1, <3>2
  <2>6. h <= Len(bytes) => t[k] = (bytes[h] \div (IF k % 2 = 1 THEN 16 ELSE 1)) % 16
    BY <2>3, <2>5, Zenon
  <2> QED
    BY <2>5, <2>6, Zenon DEF h
<1>7. t \in Seq(0..15)
  <2>1. 2 * n \in Nat
    OBVIOUS
  <2>2. t \in [1..(2 * n) -> 0..15]
    BY <1>4, <1>6
  <2> QED
    BY <2>1, <2>2
<1>8. \A k \in 1..n : k <= Len(bytes) => t[2 * k - 1] = bytes[k] \div 16 /\ t[2 * k] = bytes[k] % 16
  BY <1>2, <1>4, Zenon
<1> QED
  BY <1>4, <1>6, <1>7, <1>8

(* What EncodesBits says of base 16.                                       *)
Encoding16(bytes, size, t) ==
  IF size >= 2 * Len(bytes) THEN BitString(4, t) = BitString(8, bytes)
  ELSE /\ Len(t) = 4 * size
       /\ \A k \in 1..Min({2 * Len(bytes), 4 * size}) :
            t[k] = (bytes[CeilDiv(k, 2)] \div (IF k % 2 = 1 THEN 16 ELSE 1)) % 16

(* The text of base 16 is as EncodesBits says, for bytes of any number     *)
(* and a destination of any size.                                          *)
LEMMA Encodes16 ==
  ASSUME NEW bytes \in Seq(Byte), NEW size \in Nat, Len(bytes) > 0,
         NEW t, t = Base16Text(bytes, Base16Taken(size, Len(bytes)))
  PROVE  Encoding16(bytes, size, t)
<1> DEFINE len == Len(bytes)
<1>1. len \in Nat
  OBVIOUS
<1> DEFINE n == Base16Taken(size, len)
<1>2. n \in Nat /\ n = IF size >= 2 * len THEN len ELSE 2 * size
  BY <1>1 DEF Base16Taken
<1> HIDE DEF n
<1>3. t = Base16Text(bytes, n)
  BY DEF n
<1>4. /\ t \in Seq(0..15) /\ Len(t) = 2 * n
      /\ \A k \in 1..(2 * n) : CeilDiv(k, 2) <= Len(bytes) =>
           t[k] = (bytes[CeilDiv(k, 2)] \div (IF k % 2 = 1 THEN 16 ELSE 1)) % 16
      /\ \A k \in 1..n : k <= Len(bytes) => t[2 * k - 1] = bytes[k] \div 16 /\ t[2 * k] = bytes[k] % 16
  <2>1. n \in Nat
    BY <1>2
  <2> QED
    BY <2>1, <1>3, Text16, Zenon
<1>5. CASE size >= 2 * len
  <2>1. n = len
    BY <1>2, <1>5
  <2>2. \A k \in 1..len : bytes[k] \in Byte
    OBVIOUS
  <2>3. \A k \in 1..len : t[2 * k - 1] = bytes[k] \div 16 /\ t[2 * k] = bytes[k] % 16
    <3> TAKE k \in 1..len
    <3>1. k <= Len(bytes)
      OBVIOUS
    <3> QED
      BY <1>4, <2>1, <3>1
  <2>4. \A m \in 1..(8 * len) : Bit(4, t, m) = Bit(8, bytes, m)
    BY <1>1, <2>2, <2>3, SameDigits
  <2>5. BitString(4, t) = [m \in 1..(8 * len) |-> Bit(4, t, m)]
    <3>1. 4 * Len(t) = 8 * len
      BY <1>1, <1>4, <2>1
    <3> QED
      BY <3>1, Zenon DEF BitString
  <2>6. BitString(8, bytes) = [m \in 1..(8 * len) |-> Bit(8, bytes, m)]
    BY Zenon DEF BitString
  <2>7. BitString(4, t) = BitString(8, bytes)
    BY <2>4, <2>5, <2>6
  <2> QED
    BY <1>5, <2>7 DEF Encoding16
<1>6. CASE ~(size >= 2 * len)
  <2>1. n = 2 * size
    BY <1>2, <1>6
  <2>2. Len(t) = 4 * size
    BY <1>4, <2>1
  <2>3. Min({2 * len, 4 * size}) = IF 2 * len <= 4 * size THEN 2 * len ELSE 4 * size
    BY <1>1, MinOfTwo
  <2>4. ASSUME NEW k \in 1..Min({2 * len, 4 * size})
        PROVE  t[k] = (bytes[CeilDiv(k, 2)] \div (IF k % 2 = 1 THEN 16 ELSE 1)) % 16
    <3>1. k \in Nat /\ 1 <= k /\ k <= 2 * len /\ k <= 4 * size
      BY <1>1, <2>3
    <3>2. CeilDiv(k, 2) <= Len(bytes)
      BY <1>1, <3>1 DEF CeilDiv
    <3>3. k \in 1..(2 * n)
      BY <2>1, <3>1
    <3> QED
      BY <1>4, <3>2, <3>3
  <2> QED
    BY <1>6, <2>2, <2>4 DEF Encoding16
<1> QED
  BY <1>5, <1>6

(* What a job of base 32 is made of.                                       *)
LEMMA Base32Known ==
  ASSUME job \in Base32Jobs
  PROVE  /\ job.bytes \in Seq(Byte) /\ job.size \in Nat /\ job.room \in Nat
         /\ job.kind = "base32"
<1>1. job.bytes \in BoundedSeq(Bytes, MaxLen)
  BY DEF Base32Jobs
<1>2. PICK m \in 0..MaxLen : job.bytes \in [1..m -> Bytes]
  BY <1>1 DEF BoundedSeq, SeqOf
<1>3. job.bytes \in Seq(Byte)
  <2>1. m \in Nat
    BY <1>2, MaxLenAssumption
  <2>2. job.bytes \in [1..m -> Byte]
    BY <1>2, BytesAssumption
  <2> HIDE DEF Byte
  <2> QED
    BY <2>1, <2>2
<1>4. job.size \in Nat /\ job.room \in Nat /\ job.kind = "base32"
  <2>1. /\ job.size \in 0..(2 * MaxLen) /\ job.room \in {0, 3, MaxLen - 1, MaxLen}
        /\ job.kind = "base32"
    BY DEF Base32Jobs
  <2> QED
    BY <2>1, MaxLenAssumption
<1> QED
  BY <1>3, <1>4

(* What a job of base 16 is made of.                                       *)
LEMMA Base16Known ==
  ASSUME job \in Base16Jobs
  PROVE  /\ job.bytes \in Seq(Byte) /\ job.size \in Nat /\ job.room \in Nat
         /\ job.chars \in Seq((0..Nul) \cup {Bad})
         /\ job.bytes # <<>> => job.chars = <<>>
         /\ job.kind = "base16"
<1>1. job.bytes \in Seq(Byte)
  <2>1. job.bytes \in BoundedSeq(Bytes, 3) \/ job.bytes = <<>>
    BY DEF Base16Jobs
  <2>2. CASE job.bytes \in BoundedSeq(Bytes, 3)
    <3>2. PICK m \in 0..3 : job.bytes \in [1..m -> Bytes]
      BY <2>2 DEF BoundedSeq, SeqOf
    <3>1. m \in Nat
      BY <3>2
    <3>3. job.bytes \in [1..m -> Byte]
      BY <3>2, BytesAssumption
    <3> QED
      BY <3>1, <3>3
  <2>3. CASE job.bytes = <<>>
    BY <2>3
  <2> QED
    BY <2>1, <2>2, <2>3
<1>2. job.chars \in Seq((0..Nul) \cup {Bad})
  <2>1. job.chars \in BoundedSeq({1, 10, Nul, Bad}, 5) \/ job.chars = <<>>
    BY DEF Base16Jobs
  <2>2. CASE job.chars \in BoundedSeq({1, 10, Nul, Bad}, 5)
    <3>2. PICK m \in 0..5 : job.chars \in [1..m -> {1, 10, Nul, Bad}]
      BY <2>2 DEF BoundedSeq, SeqOf
    <3>1. m \in Nat
      BY <3>2
    <3>3. job.chars \in [1..m -> (0..Nul) \cup {Bad}]
      BY <3>2 DEF Nul
    <3> QED
      BY <3>1, <3>3
  <2>3. CASE job.chars = <<>>
    BY <2>3
  <2> QED
    BY <2>1, <2>2, <2>3
<1>3. /\ job.size \in Nat /\ job.room \in Nat /\ job.kind = "base16"
      /\ job.bytes # <<>> => job.chars = <<>>
  BY DEF Base16Jobs
<1> QED
  BY <1>1, <1>2, <1>3

(* The text that the encoders make of any bytes is their bits, five or     *)
(* four to a character (EncodesBits).                                      *)
THEOREM BitsEncoded == Spec => []EncodesBits
<1>1. FormatsInv => EncodesBits
  <2> SUFFICES ASSUME FormatsInv
               PROVE  EncodesBits
    OBVIOUS
  <2>1. ASSUME job.kind = "base32", pc = "parse"
        PROVE  LET len == Len(job.bytes)
                   expected == IF len = 0 THEN 8 ELSE IF len % 5 = 2 THEN Needed - 1 ELSE Needed
                   bits == BitString(8, job.bytes) \o [k \in 1..40 |-> 0]
               IN  /\ Len(text) = Min({job.size, expected})
                   /\ BitString(5, text) = SubSeq(bits, 1, 5 * Len(text))
    <3>1. job \in Base32Jobs
      BY <2>1, JobsKnown DEF FormatsInv
    <3>2. job.bytes \in Seq(Byte) /\ job.size \in Nat
      BY <3>1, Base32Known
    <3>3. text = Base32Encode(job.size, job.bytes)
      BY <2>1 DEF FormatsInv, TextOf
    <3>4. Encoding32(job.bytes, job.size, text)
      BY <3>2, <3>3, Encodes32
    <3> QED
      BY <3>4, Zenon DEF Encoding32, Needed, TextLength, BitsAndZeros
  <2>2. ASSUME job.kind = "base16", pc = "parse", job.bytes # <<>>
        PROVE  LET len == Len(job.bytes)
               IN  IF job.size >= 2 * len THEN BitString(4, text) = BitString(8, job.bytes)
                   ELSE /\ Len(text) = 4 * job.size
                        /\ \A k \in 1..Min({2 * len, 4 * job.size}) :
                             text[k] = (job.bytes[CeilDiv(k, 2)] \div (IF k % 2 = 1 THEN 16 ELSE 1)) % 16
    <3>1. job \in Base16Jobs
      BY <2>2, JobsKnown DEF FormatsInv
    <3>2. job.bytes \in Seq(Byte) /\ job.size \in Nat /\ job.chars = <<>>
      BY <2>2, <3>1, Base16Known
    <3>3. Len(job.bytes) > 0
      BY <2>2, <3>2
    <3> DEFINE n == Base16Taken(job.size, Len(job.bytes))
               t == Base16Text(job.bytes, n)
    <3>4. text = t \o job.chars
      BY <2>2 DEF FormatsInv, TextOf
    <3>5. t \in Seq(0..15)
      <4>1. n \in Nat
        BY <3>2 DEF Base16Taken
      <4> QED
        BY <3>2, <4>1, Text16
    <3>6. text = t
      <4> HIDE DEF t
      <4> QED
        BY <3>2, <3>4, <3>5
    <3>7. Encoding16(job.bytes, job.size, text)
      BY <3>2, <3>3, <3>6, Encodes16
    <3> QED
      BY <3>7, Zenon DEF Encoding16
  <2> QED
    BY <2>1, <2>2, Zenon DEF EncodesBits
<1> QED
  BY <1>1, FormatsKnown, PTL

(* What DecodesBack says of base 16.                                       *)
Decoding16(t, room, result) ==
  LET whole == Min({room, Len(t) \div 2})
      bad == \E k \in 1..(2 * whole) : t[k] = Bad
      half == Len(t) = 2 * whole + 1
  IN  IF bad \/ (half /\ Last(t) = Bad) THEN result.ret = -1 /\ Len(result.dst) <= whole + 1
      ELSE /\ result.ret = whole
           /\ Len(result.dst) = whole + (IF half THEN 1 ELSE 0)
           /\ \A k \in 1..whole :
                Nul \notin {t[2 * k - 1], t[2 * k]} =>
                  t[2 * k - 1] = result.dst[k] \div 16 /\ t[2 * k] = result.dst[k] % 16

(* What is decoded of the text of some bytes is as DecodesBack says,       *)
(* filled up or not, for any room.                                         *)
LEMMA Decodes32 ==
  ASSUME NEW bytes \in Seq(Byte), NEW size \in Nat, NEW room \in Nat, Len(bytes) > 0,
         NEW t, t = Base32Encode(size, bytes), Len(t) = CeilDiv(8 * Len(bytes), 5),
         NEW p \in {0, (8 - (Len(t) % 8)) % 8}
  PROVE  Decoding32(bytes, room, Base32Decode(room, t \o [k \in 1..p |-> Pad]))
<1>1. Whole32(bytes, p, t \o [k \in 1..p |-> Pad])
  BY FilledUp
<1> DEFINE f == t \o [k \in 1..p |-> Pad]
<1> HIDE DEF f
<1>2. Whole32(bytes, p, f)
  BY <1>1 DEF f
<1>3. Decoding32(bytes, room, Base32Decode(room, f))
  BY <1>2, DecodedBack32
<1> QED
  BY <1>3, Zenon DEF f

(* A character of base 16 is a digit, a NUL or a bad one.                  *)
LEMMA Digit16 ==
  ASSUME NEW c \in (0..Nul) \cup {Bad}
  PROVE  /\ (c \notin 0..Nul) <=> c = Bad
         /\ c # Bad /\ c # Nul => c \in 0..15
BY DEF Bad, Nul

(* What is decoded of any text of base 16 is as DecodesBack says, for any  *)
(* room.                                                                   *)
LEMMA Decodes16 ==
  ASSUME NEW t \in Seq((0..Nul) \cup {Bad}), NEW room \in Nat
  PROVE  Decoding16(t, room, Base16Decode(room, t))
<1>n. PICK n : n = Len(t)
  OBVIOUS
<1>w. PICK w : w = Whole16(room, n)
  OBVIOUS
<1>h. PICK half : half = Half16(room, n)
  OBVIOUS
<1>r. PICK r : r = Base16Decode(room, t)
  OBVIOUS
<1>1. n \in Nat
  BY <1>n
<1>2. w \in Nat /\ half \in {0, 1} /\ 2 * w + half <= n /\ (half = 1 => n = 2 * w + 1)
  BY <1>1, <1>w, <1>h, Places16
<1>3. w = Min({room, n \div 2})
  BY <1>1, <1>w, MinOfTwo DEF Whole16
<1>4. half = IF n = 2 * w + 1 THEN 1 ELSE 0
  BY <1>w, <1>h DEF Half16
<1>5. \A k \in 1..n : t[k] \in (0..Nul) \cup {Bad} /\ t[k] \in Int
  <2>1. \A k \in 1..n : t[k] \in (0..Nul) \cup {Bad}
    BY <1>n
  <2> QED
    BY <2>1 DEF Bad, Nul
<1> DEFINE some == \E k \in 1..(2 * w + half) : t[k] \notin 0..Nul
           bad == \E k \in 1..(2 * w) : t[k] = Bad
<1>6. some <=> bad \/ (n = 2 * w + 1 /\ Last(t) = Bad)
  <2>1. \A k \in 1..(2 * w + half) : k \in 1..n
    BY <1>1, <1>2
  <2>2. \A k \in 1..(2 * w + half) : t[k] \notin 0..Nul <=> t[k] = Bad
    BY <2>1, <1>5, Digit16
  <2>3. CASE half = 0
    <3>1. 2 * w + half = 2 * w /\ n # 2 * w + 1
      BY <1>2, <1>4, <2>3
    <3> QED
      BY <2>2, <3>1
  <2>4. CASE half = 1
    <3>1. 2 * w + half = n /\ n = 2 * w + 1
      BY <1>2, <2>4
    <3>2. \A k \in 1..n : k \in 1..(2 * w) \/ k = n
      BY <1>1, <1>2, <3>1
    <3>3. n \in 1..n /\ \A k \in 1..(2 * w) : k \in 1..n
      BY <1>1, <1>2, <3>1
    <3>4. Last(t) = t[n]
      BY <1>n DEF Last
    <3>5. some <=> \E k \in 1..n : t[k] = Bad
      BY <2>2, <3>1
    <3> QED
      BY <3>1, <3>2, <3>3, <3>4, <3>5
  <2> QED
    BY <1>2, <2>3, <2>4
<1>7. /\ ~some =>
           /\ r.ret = w
           /\ r.dst = [k \in 1..(w + half) |-> r.dst[k]]
           /\ Len(r.dst) = w + half
           /\ \A k \in 1..w :
                t[2 * k - 1] \in 0..15 /\ t[2 * k] \in 0..15 =>
                  r.dst[k] = t[2 * k - 1] * 16 + t[2 * k] /\ r.dst[k] \in Byte
      /\ some =>
           /\ r.ret = -1
           /\ Len(r.dst) \in Nat /\ Len(r.dst) <= w + 1
  <2>1. \A k \in 1..n : t[k] \in Int
    BY <1>5
  <2>2. DigitsDecoded(t, w, half, r)
    BY <1>1, <1>n, <1>w, <1>h, <1>r, <2>1, Decoded16
  <2> QED
    BY <2>2 DEF DigitsDecoded
<1>8. CASE some
  <2>1. r.ret = -1 /\ Len(r.dst) <= w + 1
    BY <1>7, <1>8
  <2> QED
    BY <1>6, <1>8, <2>1, <1>3, <1>n, <1>r DEF Decoding16
<1>9. CASE ~some
  <2>1. /\ r.ret = w
        /\ \A k \in 1..w :
             t[2 * k - 1] \in 0..15 /\ t[2 * k] \in 0..15 => r.dst[k] = t[2 * k - 1] * 16 + t[2 * k]
    BY <1>7, <1>9
  <2> HIDE DEF some
  <2>2. ASSUME NEW k \in 1..w, Nul \notin {t[2 * k - 1], t[2 * k]}
        PROVE  t[2 * k - 1] = r.dst[k] \div 16 /\ t[2 * k] = r.dst[k] % 16
    <3>1. 2 * k - 1 \in 1..(2 * w + half) /\ 2 * k \in 1..(2 * w + half)
      BY <1>2
    <3>2. t[2 * k - 1] \in 0..Nul /\ t[2 * k] \in 0..Nul
      BY <1>9, <3>1 DEF some
    <3>3. t[2 * k - 1] \in 0..15 /\ t[2 * k] \in 0..15
      BY <2>2, <3>2 DEF Nul
    <3>4. r.dst[k] = t[2 * k - 1] * 16 + t[2 * k]
      BY <2>1, <3>3
    <3>5. /\ (t[2 * k - 1] * 16 + t[2 * k]) \div 16 = t[2 * k - 1]
          /\ (t[2 * k - 1] * 16 + t[2 * k]) % 16 = t[2 * k]
      BY <3>3, DigitOf
    <3> QED
      BY <3>4, <3>5, Zenon
  <2>3. ~(bad \/ (n = 2 * w + 1 /\ Last(t) = Bad))
    BY <1>6, <1>9
  <2>4. Len(r.dst) = w + (IF n = 2 * w + 1 THEN 1 ELSE 0)
    BY <1>4, <1>7, <1>9
  <2>5. \A k \in 1..w :
          Nul \notin {t[2 * k - 1], t[2 * k]} =>
            t[2 * k - 1] = r.dst[k] \div 16 /\ t[2 * k] = r.dst[k] % 16
    BY <2>2, Zenon
  <2> HIDE DEF bad
  <2> QED
    BY <2>1, <2>3, <2>4, <2>5, <1>3, <1>n, <1>r, Zenon DEF Decoding16, bad
<1> QED
  BY <1>8, <1>9

(* Decoding gives back the bytes that were encoded, as far as DecodesBack  *)
(* says, and never others.                                                 *)
THEOREM DecodedBack == Spec => []DecodesBack
<1>1. FormatsInv => DecodesBack
  <2> SUFFICES ASSUME FormatsInv
               PROVE  DecodesBack
    OBVIOUS
  <2>1. ASSUME job.kind = "base32", pc = "done", Len(job.bytes) > 0, Len(text) = Needed
        PROVE  Decoding32(job.bytes, job.room, back)
    <3>1. job \in Base32Jobs
      BY <2>1, JobsKnown DEF FormatsInv
    <3>2. job.bytes \in Seq(Byte) /\ job.size \in Nat /\ job.room \in Nat
      BY <3>1, Base32Known
    <3>3. text = Base32Encode(job.size, job.bytes)
      BY <2>1 DEF FormatsInv, TextOf
    <3> DEFINE p == IF job.pads THEN (8 - (Len(text) % 8)) % 8 ELSE 0
    <3>4. back = Base32Decode(job.room, text \o [k \in 1..p |-> Pad])
      BY <2>1 DEF FormatsInv, Parsed, Filled
    <3>5. p \in {0, (8 - (Len(text) % 8)) % 8}
      OBVIOUS
    <3> HIDE DEF p
    <3>6. Len(text) = CeilDiv(8 * Len(job.bytes), 5)
      BY <2>1 DEF Needed
    <3> QED
      BY <2>1, <3>2, <3>3, <3>4, <3>5, <3>6, Decodes32
  <2>2. ASSUME job.kind = "base16", pc = "done"
        PROVE  Decoding16(text, job.room, back)
    <3>1. job \in Base16Jobs
      BY <2>2, JobsKnown DEF FormatsInv
    <3>2. job.bytes \in Seq(Byte) /\ job.size \in Nat /\ job.room \in Nat /\ job.chars \in Seq((0..Nul) \cup {Bad})
      BY <3>1, Base16Known
    <3> DEFINE n == Base16Taken(job.size, Len(job.bytes))
               t == Base16Text(job.bytes, n)
    <3>3. text = t \o job.chars
      BY <2>2 DEF FormatsInv, TextOf
    <3>4. t \in Seq(0..15)
      <4>1. n \in Nat
        BY <3>2 DEF Base16Taken
      <4> QED
        BY <3>2, <4>1, Text16
    <3> HIDE DEF t
    <3>5. text \in Seq((0..Nul) \cup {Bad})
      <4>1. t \in Seq((0..Nul) \cup {Bad})
        BY <3>4 DEF Nul
      <4> HIDE DEF Bad
      <4> QED
        BY <3>2, <3>3, <4>1
    <3>6. back = Base16Decode(job.room, text)
      BY <2>2 DEF FormatsInv, Parsed
    <3> QED
      BY <3>2, <3>5, <3>6, Decodes16
  <2>3. job.kind = "base32" /\ pc = "done" => Len(job.bytes) \in Nat
    <3>1. job.kind = "base32" => job \in Base32Jobs
      BY JobsKnown DEF FormatsInv
    <3> QED
      BY <3>1, Base32Known
  <2> QED
    BY <2>1, <2>2, <2>3 DEF DecodesBack, Decoding32, Decoding16
<1> QED
  BY <1>1, FormatsKnown, PTL

-----------------------------------------------------------------------------
(* The option -c.                                                          *)

(* What the decoder returns if b is behind the map.                        *)
DecoderResult(b) ==
  IF arg.urn THEN Base32Decode(RawSize, LookedUp(arg.text, b))
  ELSE Base16Decode(RawSize, LookedUp(arg.text, b))

(* The buffer holds what the decoder stored.                               *)
DecodedFrom ==
  /\ Len(arg.text) = Expected
  /\ \E b \in Behind : /\ decoded = DecoderResult(b).ret
                       /\ \A k \in 1..RawSize : k <= Len(DecoderResult(b).dst) => raw[k] = DecoderResult(b).dst[k]

ConvertInv ==
  /\ arg \in Arguments
  /\ raw = [k \in 1..RawSize |-> raw[k]]
  /\ stage \in {"length", "print", "exited"}
  /\ stage = "print" => DecodedFrom
  /\ stage = "exited" =>
       \/ Len(arg.text) # Expected
       \/ /\ DecodedFrom
          /\ status = "success"
          /\ printed = IF arg.urn THEN [urn |-> FALSE, text |-> Base16Encode(raw)]
                       ELSE [urn |-> TRUE, text |-> Base32Encode(SHA1_BASE32_LEN + 1, raw)]

(* ConvertInv is inductive.                                                *)
THEOREM ConvertKnown == ConvertSpec => []ConvertInv
<1>1. ConvertInit => ConvertInv
  <2> SUFFICES ASSUME ConvertInit
               PROVE  ConvertInv
    OBVIOUS
  <2>1. PICK g \in Garbage : raw = [k \in 1..RawSize |-> g]
    BY DEF ConvertInit
  <2>2. raw = [k \in 1..RawSize |-> raw[k]]
    BY <2>1
  <2> QED
    BY <2>2 DEF ConvertInit, ConvertInv
<1>2. ConvertInv /\ [ConvertNext]_convertVars => ConvertInv'
  <2> SUFFICES ASSUME ConvertInv, [ConvertNext]_convertVars
               PROVE  ConvertInv'
    OBVIOUS
  <2>1. CASE WrongLength
    BY <2>1 DEF ConvertInv, WrongLength, Expected
  <2>2. CASE Decode
    <3>1. PICK b \in Behind : Stores(DecoderResult(b))
      BY <2>2 DEF Decode, DecoderResult
    <3>2. /\ arg' = arg /\ stage' = "print" /\ Len(arg.text) = Expected
          /\ Expected' = Expected /\ DecoderResult(b)' = DecoderResult(b)
      BY <2>2 DEF Decode, Expected, DecoderResult
    <3> DEFINE r == DecoderResult(b)
               v(k) == IF k <= Len(r.dst) THEN r.dst[k] ELSE raw[k]
    <3>3. raw' = [k \in 1..RawSize |-> v(k)] /\ decoded' = r.ret
      BY <3>1 DEF Stores
    <3>4. raw' = [k \in 1..RawSize |-> raw'[k]]
      <4> HIDE DEF v
      <4> QED
        BY <3>3
    <3>5. \A k \in 1..RawSize : k <= Len(r.dst) => raw'[k] = r.dst[k]
      BY <3>3
    <3> HIDE DEF r
    <3>6. DecodedFrom'
      BY <3>2, <3>3, <3>5 DEF DecodedFrom, r
    <3> QED
      BY <3>2, <3>4, <3>6 DEF ConvertInv
  <2>3. CASE PrintConverted
    <3>1. DecodedFrom' /\ stage' = "exited" /\ status' = "success" /\ raw' = raw /\ arg' = arg
      BY <2>3 DEF ConvertInv, PrintConverted, DecodedFrom, DecoderResult, Expected
    <3>2. printed' = IF arg.urn THEN [urn |-> FALSE, text |-> Base16Encode(raw)]
                     ELSE [urn |-> TRUE, text |-> Base32Encode(SHA1_BASE32_LEN + 1, raw)]
      BY <2>3 DEF PrintConverted
    <3> QED
      BY <3>1, <3>2 DEF ConvertInv
  <2>4. CASE UNCHANGED convertVars
    BY <2>4 DEF convertVars, ConvertInv, DecodedFrom, DecoderResult, Expected
  <2> QED
    BY <2>1, <2>2, <2>3, <2>4 DEF ConvertNext
<1> QED
  BY <1>1, <1>2, PTL DEF ConvertSpec

(* Place i of group h of forty bits, among the octets.                     *)
LEMMA OctetPlace ==
  ASSUME NEW h \in Nat, NEW c \in 1..5
  PROVE  CeilDiv(5 * h + c, 5) = h + 1 /\ 1 + (((5 * h + c) - 1) % 5) = c
BY DEF CeilDiv

(* A bit is one of the forty bits of some group.                           *)
LEMMA FortyBits ==
  ASSUME NEW m \in Nat \ {0}
  PROVE  \E h \in Nat, i \in 1..40 : m = 40 * h + i
<1>1. (m - 1) \div 40 \in Nat /\ 1 + ((m - 1) % 40) \in 1..40
      /\ m = 40 * ((m - 1) \div 40) + (1 + ((m - 1) % 40))
  OBVIOUS
<1> QED
  BY <1>1

(* The bytes that symbols stand for have the bits of the symbols.          *)
LEMMA OctetsBits ==
  ASSUME NEW t, NEW n \in Nat, \A k \in 1..(8 * n) : t[k] \in 0..31,
         NEW bytes, \A k \in 1..(5 * n) : bytes[k] = Octet(t, k),
         NEW m \in 1..(40 * n)
  PROVE  Bit(8, bytes, m) = Bit(5, t, m)
<1>1. m \in Nat \ {0} /\ m <= 40 * n
  OBVIOUS
<1>2. PICK h \in Nat, i \in 1..40 : m = 40 * h + i
  BY <1>1, FortyBits
<1>3. h < n
  BY <1>1, <1>2
<1> DEFINE c == CeilDiv(i, 8)
           d == CeilDiv(i, 5)
<1>4. /\ CeilDiv(m, 5) = 8 * h + d /\ CeilDiv(m, 8) = 5 * h + c
      /\ d \in 1..8 /\ c \in 1..5
      /\ (m - 1) % 5 = (i - 1) % 5 /\ (m - 1) % 8 = (i - 1) % 8
  <2>1. /\ CeilDiv(40 * h + i, 5) = 8 * h + d
        /\ d \in 1..8 /\ c \in 1..5
        /\ ((40 * h + i) - 1) % 5 = (i - 1) % 5
        /\ ((40 * h + i) - 1) % 8 = (i - 1) % 8
        /\ CeilDiv(40 * h + i, 8) = 5 * h + c
    BY BitPlace
  <2> HIDE DEF c, d
  <2> QED
    BY <1>2, <2>1
<1> HIDE DEF c, d
<1> DEFINE s == [j \in 1..8 |-> Symbol(t[8 * h + j])]
<1>5. \A j \in 1..8 : 8 * h + j \in 1..(8 * n) /\ t[8 * h + j] \in 0..31 /\ s[j] = t[8 * h + j]
  <2> TAKE j \in 1..8
  <2>1. 8 * h + j \in 1..(8 * n)
    BY <1>3
  <2>2. t[8 * h + j] \in 0..31
    BY <2>1
  <2>3. Symbol(t[8 * h + j]) = t[8 * h + j]
    BY <2>2 DEF Symbol, Pad
  <2> QED
    BY <2>1, <2>2, <2>3
<1>6. s \in [1..8 -> 0..31]
  BY <1>5
<1> HIDE DEF s
<1>7. bytes[5 * h + c] = Octets(s)[c]
  <2>1. 5 * h + c \in 1..(5 * n)
    BY <1>3, <1>4
  <2>2. CeilDiv(5 * h + c, 5) = h + 1 /\ 1 + (((5 * h + c) - 1) % 5) = c
    BY <1>4, OctetPlace
  <2>3. Octet(t, 5 * h + c) = GroupOctets(t, h)[c]
    BY <2>2, OctetOfGroup
  <2> QED
    BY <2>1, <2>3 DEF GroupOctets, s
<1>8. Bit(8, Octets(s), i) = Bit(5, s, i)
  BY <1>6, OctetBits
<1>9. Bit(8, Octets(s), i) = (Octets(s)[c] \div Weight[8 - ((i - 1) % 8)]) % 2
  BY DEF Bit, c
<1>10. Bit(5, s, i) = (s[d] \div Weight[5 - ((i - 1) % 5)]) % 2
  BY DEF Bit, d
<1>11. Bit(8, bytes, m) = (bytes[CeilDiv(m, 8)] \div Weight[8 - ((m - 1) % 8)]) % 2
  BY DEF Bit
<1>12. Bit(5, t, m) = (t[CeilDiv(m, 5)] \div Weight[5 - ((m - 1) % 5)]) % 2
  BY DEF Bit
<1>13. s[d] = t[8 * h + d]
  BY <1>4, <1>5
<1>14. Bit(8, bytes, m) = Bit(8, Octets(s), i)
  BY <1>4, <1>7, <1>9, <1>11, Zenon
<1>15. Bit(5, t, m) = Bit(5, s, i)
  BY <1>4, <1>10, <1>12, <1>13, Zenon
<1> QED
  BY <1>8, <1>14, <1>15, Zenon

(* The same for all of the bits.                                           *)
LEMMA OctetsSameBits ==
  ASSUME NEW t, NEW n \in Nat, \A k \in 1..(8 * n) : t[k] \in 0..31,
         NEW bytes, \A k \in 1..(5 * n) : bytes[k] = Octet(t, k)
  PROVE  \A m \in 1..(40 * n) : Bit(8, bytes, m) = Bit(5, t, m)
BY OctetsBits

(* A byte is one of the five bytes of some group.                          *)
LEMMA FiveOctets ==
  ASSUME NEW m \in Nat \ {0}
  PROVE  \E h \in Nat, c \in 1..5 : m = 5 * h + c
<1>1. (m - 1) \div 5 \in Nat /\ 1 + ((m - 1) % 5) \in 1..5
      /\ m = 5 * ((m - 1) \div 5) + (1 + ((m - 1) % 5))
  OBVIOUS
<1> QED
  BY <1>1

(* A symbol is taken as it is.                                             *)
LEMMA SymbolOf ==
  ASSUME NEW c \in 0..31
  PROVE  Symbol(c) = c /\ c # Pad /\ c # Bad
BY DEF Symbol, Pad, Bad

(* A text without '=' has none in front of any place.                      *)
LEMMA NoPads ==
  ASSUME NEW t, NEW k \in Nat, \A j \in 1..k : t[j] # Pad
  PROVE  Pads(t, k) = 0
<1>1. {j \in 1..k : t[j] = Pad} = {}
  OBVIOUS
<1> QED
  BY <1>1, FS_EmptySet DEF Pads

(* Whole groups of symbols are decoded to the last one.                    *)
LEMMA WholeDecoded ==
  ASSUME NEW n \in Nat \ {0}, NEW t, Len(t) = 8 * n, \A k \in 1..(8 * n) : t[k] \in 0..31
  PROVE  /\ Base32Decode(5 * n, t).dst = OctetsUpTo(5 * n, t, n)
         /\ Len(Base32Decode(5 * n, t).dst) = 5 * n
<1>s. PICK size : size = 5 * n
  OBVIOUS
<1>r. PICK r : r = Base32Decode(size, t)
  OBVIOUS
<1>1. size \in Nat /\ 8 * n \in Nat
  BY <1>s
<1>2. \A k \in 1..(8 * n) : t[k] # Pad /\ t[k] # Bad
  <2> TAKE k \in 1..(8 * n)
  <2>1. t[k] \in 0..31
    OBVIOUS
  <2> QED
    BY <2>1, SymbolOf
<1>3. \A k \in 0..(8 * n) : Pads(t, k) = 0
  <2> TAKE k \in 0..(8 * n)
  <2>1. k \in Nat /\ \A j \in 1..k : t[j] # Pad
    BY <1>2
  <2> QED
    BY <2>1, NoPads
<1>4. \A k \in 1..(8 * n) : Alive(size, t, k) <=> k \div 8 < n
  <2> TAKE k \in 1..(8 * n)
  <2>1. \A j \in 1..k : t[j] # Bad
    BY <1>2
  <2>2. Pads(t, k) = 0
    BY <1>3
  <2>3. 5 * (k \div 8) < size <=> k \div 8 < n
    BY <1>s
  <2> QED
    BY <2>1, <2>2, <2>3 DEF Alive
<1>5. Progress(size, t, 8 * n, r)
  BY <1>1, <1>r, DecodeProgress
<1>6. ~Alive(size, t, 8 * n)
  <2>1. 8 * n \in 1..(8 * n) /\ (8 * n) \div 8 = n
    OBVIOUS
  <2> QED
    BY <1>4, <2>1
<1>7. PICK e \in 1..(8 * n) : StoppedAt(size, t, e, r)
  BY <1>5, <1>6 DEF Progress
<1>8. ~Alive(size, t, e) /\ t[e] # Bad /\ r.dst = OctetsUpTo(size, t, e \div 8)
  BY <1>2, <1>7 DEF StoppedAt
<1>9. e \div 8 = n
  <2>1. ~(e \div 8 < n)
    BY <1>4, <1>8
  <2> QED
    BY <2>1
<1>10. r.dst = OctetsUpTo(size, t, n)
  BY <1>8, <1>9
<1>11. Len(OctetsUpTo(size, t, n)) = IF size <= 5 * n THEN size ELSE 5 * n
  BY <1>1, OctetsLength
<1>12. Len(r.dst) = size
  BY <1>1, <1>s, <1>10, <1>11
<1> QED
  BY <1>s, <1>r, <1>10, <1>12, Zenon

(* The lengths of the buffer and of the texts are those of so many groups  *)
(* of five bytes.                                                          *)
LEMMA RawSizes ==
  \E n \in Nat \ {0} : /\ RawSize = 5 * n /\ SHA1_BASE32_LEN = 8 * n /\ SHA1_BASE16_LEN = 10 * n
                       /\ Base32Length(RawSize) = 8 * n
<1> DEFINE n == RawSize \div 5
<1>1. n \in Nat \ {0} /\ RawSize = 5 * n
  BY RawAssumption
<1>2. SHA1_BASE32_LEN = 8 * n /\ SHA1_BASE16_LEN = 10 * n
  <2>1. SHA1_BASE32_LEN = n * 8 /\ SHA1_BASE16_LEN = RawSize * 2
    BY DEF SHA1_BASE32_LEN, SHA1_BASE16_LEN
  <2> HIDE DEF n
  <2> QED
    BY <1>1, <2>1
<1> HIDE DEF n
<1>3. Base32Length(RawSize) = 8 * n
  <2>1. RawSize \in Nat /\ RawSize # 0 /\ RawSize % 5 = 0 /\ CeilDiv(8 * RawSize, 5) = 8 * n
    BY <1>1 DEF CeilDiv
  <2> QED
    <3>1. Base32Length(RawSize) = IF RawSize = 0 THEN 8 ELSE IF RawSize % 5 = 2 THEN CeilDiv(8 * RawSize, 5) - 1
                                  ELSE CeilDiv(8 * RawSize, 5)
      BY <2>1, EncodedLength
    <3>2. RawSize # 0 /\ RawSize % 5 # 2
      BY <2>1
    <3> QED
      BY <2>1, <3>1, <3>2
<1> QED
  BY <1>1, <1>2, <1>3

(* A text without the byte 255 is looked up as it is.                      *)
LEMMA LookedUpSame ==
  ASSUME NEW S, NEW t \in Seq(S), NEW b, \A k \in DOMAIN t : t[k] # Past
  PROVE  LookedUp(t, b) = t
<1>1. \A k \in DOMAIN t : (IF t[k] = Past THEN b ELSE t[k]) = t[k]
  OBVIOUS
<1>2. t = [k \in DOMAIN t |-> t[k]]
  OBVIOUS
<1> QED
  BY <1>1, <1>2 DEF LookedUp

(* The buffer has the bits of the symbols that were decoded into it.       *)
LEMMA RawBits32 ==
  ASSUME NEW n \in Nat \ {0}, NEW t, Len(t) = 8 * n, \A k \in 1..(8 * n) : t[k] \in 0..31,
         NEW bytes,
         \A k \in 1..(5 * n) : k <= Len(Base32Decode(5 * n, t).dst) => bytes[k] = Base32Decode(5 * n, t).dst[k]
  PROVE  /\ \A k \in 1..(5 * n) : bytes[k] \in Byte
         /\ \A m \in 1..(40 * n) : Bit(8, bytes, m) = Bit(5, t, m)
<1>r. PICK r : r = Base32Decode(5 * n, t)
  OBVIOUS
<1>d. \A k \in 1..(5 * n) : k <= Len(r.dst) => bytes[k] = r.dst[k]
  BY <1>r
<1> DEFINE size == 5 * n
<1>1. size = 5 * n /\ size \in Nat
  OBVIOUS
<1> HIDE DEF size
<1>2. r = Base32Decode(size, t)
  BY <1>1, <1>r
<1>3. r.dst = OctetsUpTo(size, t, n) /\ Len(r.dst) = size
  <2>1. /\ Base32Decode(5 * n, t).dst = OctetsUpTo(5 * n, t, n)
        /\ Len(Base32Decode(5 * n, t).dst) = 5 * n
    BY WholeDecoded
  <2> QED
    BY <1>1, <1>2, <2>1, Zenon
<1>4. r.dst = [m \in 1..size |-> Octet(t, m)]
  <2>1. (IF size <= 5 * n THEN size ELSE 5 * n) = size
    BY <1>1
  <2> QED
    BY <1>3, <2>1 DEF OctetsUpTo
<1>5. \A k \in 1..(5 * n) : bytes[k] = Octet(t, k)
  <2> TAKE k \in 1..(5 * n)
  <2>1. k \in 1..size /\ k <= Len(r.dst)
    BY <1>1, <1>3
  <2> QED
    BY <1>4, <1>d, <2>1
<1>6. \A m \in 1..(40 * n) : Bit(8, bytes, m) = Bit(5, t, m)
  <2>1. n \in Nat /\ \A k \in 1..(8 * n) : t[k] \in 0..31
    OBVIOUS
  <2> QED
    BY <1>5, <2>1, OctetsSameBits
<1>7. ASSUME NEW k \in 1..(5 * n)
      PROVE  bytes[k] \in Byte
  <2>0. k \in Nat \ {0} /\ k <= 5 * n
    OBVIOUS
  <2>p. PICK h \in Nat, c \in 1..5 : k = 5 * h + c
    BY <2>0, FiveOctets
  <2>1. CeilDiv(k, 5) = h + 1 /\ 1 + ((k - 1) % 5) = c
    BY <2>p, OctetPlace
  <2>2. h < n
    BY <2>0, <2>p
  <2>3. Octet(t, k) = GroupOctets(t, h)[c]
    <3>1. h \in Nat
      BY <2>p
    <3> QED
      <4>1. \A m, i : CeilDiv(m, 5) = h + 1 /\ 1 + ((m - 1) % 5) = i => Octet(t, m) = GroupOctets(t, h)[i]
        BY <3>1, OctetOfGroup
      <4> QED
        BY <2>1, <4>1, Zenon
  <2> DEFINE s == [j \in 1..8 |-> Symbol(t[8 * h + j])]
  <2>4. s \in [1..8 -> 0..31]
    <3>1. ASSUME NEW j \in 1..8
          PROVE  Symbol(t[8 * h + j]) \in 0..31
      <4>1. 8 * h + j \in 1..(8 * n)
        BY <2>2
      <4>2. t[8 * h + j] \in 0..31
        BY <4>1
      <4> QED
        BY <4>2, SymbolOf
    <3> QED
      BY <3>1
  <2>5. GroupOctets(t, h) = Octets(s)
    BY DEF GroupOctets
  <2> HIDE DEF s
  <2>6. Octets(s) \in [1..5 -> Byte]
    BY <2>4, OctetsOfSymbols
  <2> QED
    BY <1>5, <2>1, <2>3, <2>5, <2>6
<1> QED
  BY <1>6, <1>7

(* The buffer has the bits of the digits that were decoded into it.        *)
LEMMA RawBits16 ==
  ASSUME NEW n \in Nat \ {0}, NEW t, Len(t) = 10 * n, \A k \in 1..(10 * n) : t[k] \in 0..15,
         NEW bytes,
         \A k \in 1..(5 * n) : k <= Len(Base16Decode(5 * n, t).dst) => bytes[k] = Base16Decode(5 * n, t).dst[k]
  PROVE  /\ \A k \in 1..(5 * n) : bytes[k] \in Byte
         /\ \A m \in 1..(40 * n) : Bit(4, t, m) = Bit(8, bytes, m)
<1>r. PICK r : r = Base16Decode(5 * n, t)
  OBVIOUS
<1>d. \A k \in 1..(5 * n) : k <= Len(r.dst) => bytes[k] = r.dst[k]
  BY <1>r
<1> DEFINE size == 5 * n
           l == 10 * n
<1>1. size \in Nat /\ l \in Nat /\ Whole16(size, l) = size /\ Half16(size, l) = 0 /\ l = Len(t) /\ l = 2 * size
  BY DEF Whole16, Half16
<1>2. \A k \in 1..l : t[k] \in Int
  OBVIOUS
<1>3. DigitsDecoded(t, Whole16(size, l), Half16(size, l), Base16Decode(size, t))
  BY <1>1, <1>2, Decoded16
<1>4. DigitsDecoded(t, size, 0, r)
  BY <1>1, <1>3, <1>r
<1>5. /\ Len(r.dst) = size
      /\ \A k \in 1..size : r.dst[k] = t[2 * k - 1] * 16 + t[2 * k] /\ r.dst[k] \in Byte
  <2>1. \A k \in 1..(2 * size + 0) : t[k] \in 0..Nul
    BY DEF Nul
  <2>2. size + 0 = size
    OBVIOUS
  <2>3. \A k \in 1..size : t[2 * k - 1] \in 0..15 /\ t[2 * k] \in 0..15
    OBVIOUS
  <2> HIDE DEF size
  <2> QED
    BY <1>4, <2>1, <2>2, <2>3 DEF DigitsDecoded
<1>6. \A k \in 1..size : bytes[k] = t[2 * k - 1] * 16 + t[2 * k] /\ bytes[k] \in Byte
  <2> TAKE k \in 1..size
  <2>1. k <= Len(r.dst)
    <3> HIDE DEF size
    <3> QED
      BY <1>5, <1>1
  <2> QED
    BY <1>5, <1>d, <2>1
<1>7. \A k \in 1..size : t[2 * k - 1] = bytes[k] \div 16 /\ t[2 * k] = bytes[k] % 16
  <2> TAKE k \in 1..size
  <2>1. t[2 * k - 1] \in 0..15 /\ t[2 * k] \in 0..15
    OBVIOUS
  <2>2. /\ (t[2 * k - 1] * 16 + t[2 * k]) \div 16 = t[2 * k - 1]
        /\ (t[2 * k - 1] * 16 + t[2 * k]) % 16 = t[2 * k]
    BY <2>1, DigitOf
  <2>3. bytes[k] = t[2 * k - 1] * 16 + t[2 * k]
    BY <1>6
  <2> QED
    BY <2>2, <2>3, Zenon
<1>8. \A m \in 1..(8 * size) : Bit(4, t, m) = Bit(8, bytes, m)
  <2>1. \A k \in 1..size : bytes[k] \in Byte
    BY <1>6
  <2> HIDE DEF size
  <2> QED
    BY <1>1, <1>7, <2>1, SameDigits
<1>9. 8 * size = 40 * n
  OBVIOUS
<1> QED
  BY <1>6, <1>8, <1>9

(* What the arguments are.                                                 *)
LEMMA ArgumentKnown ==
  ASSUME arg \in Arguments
  PROVE  /\ arg.urn \in BOOLEAN
         /\ arg.urn => arg.text \in Seq(0..Past)
         /\ ~arg.urn => arg.text \in Seq((0..15) \cup {Pad, Bad, Past})
<1>1. \/ arg \in [urn : {TRUE}, text : Seq(0..Past)]
      \/ arg \in [urn : {FALSE}, text : Seq((0..15) \cup {Pad, Bad, Past})]
  BY ArgumentsAssumption
<1>2. \A S : arg \in [urn : {TRUE}, text : S] => arg.urn = TRUE /\ arg.text \in S
  OBVIOUS
<1>3. \A S : arg \in [urn : {FALSE}, text : S] => arg.urn = FALSE /\ arg.text \in S
  OBVIOUS
<1>4. CASE arg \in [urn : {TRUE}, text : Seq(0..Past)]
  <2>1. arg.urn = TRUE /\ arg.text \in Seq(0..Past)
    BY <1>2, <1>4, Zenon
  <2> QED
    BY <2>1, Zenon
<1>5. CASE arg \in [urn : {FALSE}, text : Seq((0..15) \cup {Pad, Bad, Past})]
  <2>1. arg.urn = FALSE /\ arg.text \in Seq((0..15) \cup {Pad, Bad, Past})
    BY <1>3, <1>5, Zenon
  <2> QED
    BY <2>1, Zenon
<1> QED
  BY <1>1, <1>4, <1>5, Zenon

(* An element of a sequence.                                               *)
LEMMA ElementOf ==
  ASSUME NEW S, NEW s \in Seq(S), NEW k \in 1..Len(s)
  PROVE  s[k] \in S
OBVIOUS

(* A character below 32 is a symbol.                                       *)
LEMMA SymbolIsBounded ==
  ASSUME NEW c \in 0..Past, c < 32
  PROVE  c \in 0..31 /\ c # Past
BY DEF Past

(* A character below 16 is a digit.                                        *)
LEMMA DigitIsBounded ==
  ASSUME NEW c \in (0..15) \cup {Pad, Bad, Past}, c < 16
  PROVE  c \in 0..15 /\ c # Past
BY DEF Past, Pad, Bad

(* A value in base 32 and what is printed of it.                           *)
LEMMA SameBits32 ==
  ASSUME ConvertInv, stage = "exited", WellFormed(arg), arg.urn
  PROVE  /\ status = "success"
         /\ printed.urn # arg.urn /\ WellFormed(printed)
         /\ BitString(BitsPer(printed.urn), printed.text) = BitString(BitsPer(arg.urn), arg.text)
<1>t. PICK t : t = arg.text
  OBVIOUS
<1>n. PICK n \in Nat \ {0} : /\ RawSize = 5 * n /\ SHA1_BASE32_LEN = 8 * n /\ SHA1_BASE16_LEN = 10 * n
                             /\ Base32Length(RawSize) = 8 * n
  BY RawSizes
<1>1. arg.urn = TRUE /\ t \in Seq(0..Past)
  BY <1>t, ArgumentKnown DEF ConvertInv
<1>2. Len(t) = 8 * n /\ \A k \in 1..(8 * n) : t[k] < 32
  <2>1. Len(t) = SHA1_BASE32_LEN /\ \A k \in 1..Len(t) : t[k] < 32
    BY <1>1, <1>t DEF WellFormed
  <2> QED
    BY <1>n, <2>1
<1>3. \A k \in 1..(8 * n) : t[k] \in 0..31 /\ t[k] # Past
  <2> TAKE k \in 1..(8 * n)
  <2>1. t[k] \in 0..Past
    <3>1. k \in 1..Len(t)
      BY <1>2
    <3> QED
      BY <1>1, <3>1, ElementOf
  <2> QED
    BY <1>2, <2>1, SymbolIsBounded
<1>4. \A b \in Behind : LookedUp(t, b) = t
  <2> TAKE b \in Behind
  <2>1. DOMAIN t = 1..(8 * n)
    <3>1. DOMAIN t = 1..Len(t)
      BY <1>1
    <3> QED
      BY <1>2, <3>1
  <2>2. \A k \in DOMAIN t : t[k] # Past
    BY <1>3, <2>1
  <2> QED
    BY <1>1, <2>2, LookedUpSame
<1>5. /\ DecodedFrom /\ status = "success"
      /\ printed = [urn |-> FALSE, text |-> Base16Encode(raw)]
      /\ raw = [k \in 1..RawSize |-> raw[k]]
  <2>1. Len(arg.text) = Expected
    BY <1>1, <1>2, <1>n, <1>t DEF Expected
  <2> QED
    BY <1>1, <2>1 DEF ConvertInv
<1>6. PICK b \in Behind : \A k \in 1..RawSize : k <= Len(DecoderResult(b).dst) => raw[k] = DecoderResult(b).dst[k]
  BY <1>5 DEF DecodedFrom
<1>7. DecoderResult(b) = Base32Decode(5 * n, t)
  BY <1>1, <1>4, <1>n, <1>t DEF DecoderResult
<1>8. /\ \A k \in 1..(5 * n) : raw[k] \in Byte
      /\ \A m \in 1..(40 * n) : Bit(8, raw, m) = Bit(5, t, m)
  <2>1. \A k \in 1..(5 * n) : k <= Len(Base32Decode(5 * n, t).dst) => raw[k] = Base32Decode(5 * n, t).dst[k]
    BY <1>6, <1>7, <1>n
  <2>2. \A k \in 1..(8 * n) : t[k] \in 0..31
    BY <1>3
  <2> QED
    BY <1>2, <2>1, <2>2, RawBits32
<1>9. Len(raw) = 5 * n
  <2>1. 5 * n \in Nat
    OBVIOUS
  <2> QED
    BY <1>5, <1>n, <2>1
<1> DEFINE e == Base16Encode(raw)
<1>10. /\ Len(e) = 10 * n
       /\ \A k \in 1..(10 * n) : e[k] = IF k % 2 = 1 THEN raw[CeilDiv(k, 2)] \div 16 ELSE raw[CeilDiv(k, 2)] % 16
       /\ \A k \in 1..(5 * n) : e[2 * k - 1] = raw[k] \div 16 /\ e[2 * k] = raw[k] % 16
  <2> DEFINE l == 5 * n
  <2>1. l \in Nat /\ l = Len(raw) /\ 2 * l = 10 * n
    BY <1>9
  <2> HIDE DEF l
  <2>2. /\ Len(e) = 2 * l
        /\ \A k \in 1..(2 * l) : e[k] = IF k % 2 = 1 THEN raw[CeilDiv(k, 2)] \div 16 ELSE raw[CeilDiv(k, 2)] % 16
        /\ \A k \in 1..l : e[2 * k - 1] = raw[k] \div 16 /\ e[2 * k] = raw[k] % 16
    BY <2>1, Encoded16, Zenon
  <2> QED
    BY <2>1, <2>2 DEF l
<1> HIDE DEF e
<1>11. \A k \in 1..(10 * n) : e[k] < 16
  <2> TAKE k \in 1..(10 * n)
  <2>1. CeilDiv(k, 2) \in 1..(5 * n)
    BY DEF CeilDiv
  <2>2. raw[CeilDiv(k, 2)] \in Byte
    BY <1>8, <2>1
  <2>3. raw[CeilDiv(k, 2)] \div 16 \in 0..15 /\ raw[CeilDiv(k, 2)] % 16 \in 0..15
    BY <2>2, DigitsOfByte
  <2>4. e[k] \in 0..15
    BY <1>10, <2>3
  <2> QED
    BY <2>4
<1>12. printed.urn = FALSE /\ printed.text = e
  BY <1>5 DEF e
<1>13. WellFormed(printed)
  BY <1>10, <1>11, <1>12, <1>n DEF WellFormed
<1>14. \A m \in 1..(40 * n) : Bit(4, e, m) = Bit(8, raw, m)
  <2> DEFINE l == 5 * n
  <2>1. l \in Nat /\ 8 * l = 40 * n
    OBVIOUS
  <2>2. (\A k \in 1..l : raw[k] \in Byte) /\ \A k \in 1..l : e[2 * k - 1] = raw[k] \div 16 /\ e[2 * k] = raw[k] % 16
    BY <1>8, <1>10
  <2> HIDE DEF l
  <2>3. \A m \in 1..(8 * l) : Bit(4, e, m) = Bit(8, raw, m)
    BY <2>1, <2>2, SameDigits
  <2> QED
    BY <2>1, <2>3
<1>15. BitString(4, e) = [m \in 1..(40 * n) |-> Bit(4, e, m)]
  <2>1. 4 * Len(e) = 40 * n
    BY <1>10
  <2> QED
    BY <2>1, Zenon DEF BitString
<1>16. BitString(5, t) = [m \in 1..(40 * n) |-> Bit(5, t, m)]
  <2>1. 5 * Len(t) = 40 * n
    BY <1>2
  <2> QED
    BY <2>1, Zenon DEF BitString
<1>17. BitString(4, e) = BitString(5, t)
  <2>1. \A m \in 1..(40 * n) : Bit(4, e, m) = Bit(5, t, m)
    BY <1>8, <1>14
  <2> QED
    BY <1>15, <1>16, <2>1
<1> QED
  BY <1>1, <1>t, <1>5, <1>12, <1>13, <1>17 DEF BitsPer

(* base32_encode makes symbols, as many as there is room for.              *)
LEMMA EncodedSymbols ==
  ASSUME NEW size \in Nat, NEW bytes \in Seq(Byte),
         NEW n, n = Min({size, Base32Length(Len(bytes))})
  PROVE  /\ Len(Base32Encode(size, bytes)) = n
         /\ \A k \in 1..n : Base32Encode(size, bytes)[k] \in 0..31
<1>1. /\ n \in Nat
      /\ Base32Encode(size, bytes) = [k \in 1..n |-> SymbolAt(bytes, k)]
      /\ Len(Base32Encode(size, bytes)) = n
      /\ \A k \in Nat \ {0} : SymbolAt(bytes, k) \in 0..31
  BY Encoded, ZenonT(60)
<1>2. ASSUME NEW k \in 1..n
      PROVE  Base32Encode(size, bytes)[k] \in 0..31
  <2>1. k \in Nat \ {0}
    BY <1>1
  <2>2. Base32Encode(size, bytes)[k] = SymbolAt(bytes, k)
    BY <1>1
  <2> QED
    BY <1>1, <2>1, <2>2
<1> QED
  BY <1>1, <1>2

(* A value in base 16 and what is printed of it.                           *)
LEMMA SameBits16 ==
  ASSUME ConvertInv, stage = "exited", WellFormed(arg), ~arg.urn
  PROVE  /\ status = "success"
         /\ printed.urn # arg.urn /\ WellFormed(printed)
         /\ BitString(BitsPer(printed.urn), printed.text) = BitString(BitsPer(arg.urn), arg.text)
<1>t. PICK t : t = arg.text
  OBVIOUS
<1>n. PICK n \in Nat \ {0} : /\ RawSize = 5 * n /\ SHA1_BASE32_LEN = 8 * n /\ SHA1_BASE16_LEN = 10 * n
                             /\ Base32Length(RawSize) = 8 * n
  BY RawSizes
<1>1. arg.urn = FALSE /\ t \in Seq((0..15) \cup {Pad, Bad, Past})
  BY <1>t, ArgumentKnown DEF ConvertInv
<1>2. Len(t) = 10 * n /\ \A k \in 1..(10 * n) : t[k] < 16
  <2>1. Len(t) = SHA1_BASE16_LEN /\ \A k \in 1..Len(t) : t[k] < 16
    BY <1>1, <1>t DEF WellFormed
  <2> QED
    BY <1>n, <2>1
<1>3. \A k \in 1..(10 * n) : t[k] \in 0..15 /\ t[k] # Past
  <2> TAKE k \in 1..(10 * n)
  <2>1. t[k] \in (0..15) \cup {Pad, Bad, Past}
    <3>1. k \in 1..Len(t)
      BY <1>2
    <3> QED
      BY <1>1, <3>1, ElementOf
  <2> QED
    BY <1>2, <2>1, DigitIsBounded
<1>4. \A b \in Behind : LookedUp(t, b) = t
  <2> TAKE b \in Behind
  <2>1. DOMAIN t = 1..(10 * n)
    <3>1. DOMAIN t = 1..Len(t)
      BY <1>1
    <3> QED
      BY <1>2, <3>1
  <2>2. \A k \in DOMAIN t : t[k] # Past
    BY <1>3, <2>1
  <2> QED
    BY <1>1, <2>2, LookedUpSame
<1>5. /\ DecodedFrom /\ status = "success"
      /\ printed = [urn |-> TRUE, text |-> Base32Encode(SHA1_BASE32_LEN + 1, raw)]
      /\ raw = [k \in 1..RawSize |-> raw[k]]
  <2>1. Len(arg.text) = Expected
    BY <1>1, <1>2, <1>n, <1>t DEF Expected
  <2> QED
    BY <1>1, <2>1 DEF ConvertInv
<1>6. PICK b \in Behind : \A k \in 1..RawSize : k <= Len(DecoderResult(b).dst) => raw[k] = DecoderResult(b).dst[k]
  BY <1>5 DEF DecodedFrom
<1>7. DecoderResult(b) = Base16Decode(5 * n, t)
  BY <1>1, <1>4, <1>n, <1>t DEF DecoderResult
<1>8. /\ \A k \in 1..(5 * n) : raw[k] \in Byte
      /\ \A m \in 1..(40 * n) : Bit(4, t, m) = Bit(8, raw, m)
  <2>1. \A k \in 1..(5 * n) : k <= Len(Base16Decode(5 * n, t).dst) => raw[k] = Base16Decode(5 * n, t).dst[k]
    BY <1>6, <1>7, <1>n
  <2>2. \A k \in 1..(10 * n) : t[k] \in 0..15
    BY <1>3
  <2> QED
    BY <1>2, <2>1, <2>2, RawBits16, ZenonT(60)
<1>9. Len(raw) = 5 * n /\ raw \in Seq(Byte)
  <2>1. 5 * n \in Nat
    OBVIOUS
  <2>2. raw \in [1..(5 * n) -> Byte]
    BY <1>5, <1>8, <1>n
  <2> QED
    BY <2>1, <2>2
<1>e. PICK e : e = Base32Encode(SHA1_BASE32_LEN + 1, raw)
  OBVIOUS
<1>10. Len(e) = 8 * n /\ \A k \in 1..(8 * n) : e[k] \in 0..31
  <2>l. PICK l : l = Min({SHA1_BASE32_LEN + 1, Base32Length(Len(raw))})
    OBVIOUS
  <2>1. l = 8 * n
    <3>1. Base32Length(Len(raw)) = 8 * n /\ SHA1_BASE32_LEN + 1 = 8 * n + 1
      BY <1>9, <1>n
    <3>2. Min({8 * n + 1, 8 * n}) = 8 * n
      BY MinOfTwo
    <3> QED
      BY <3>1, <3>2, <2>l
  <2>2. SHA1_BASE32_LEN + 1 \in Nat
    BY <1>n
  <2>3. Len(e) = l /\ \A k \in 1..l : e[k] \in 0..31
    BY <1>9, <1>e, <2>2, <2>l, EncodedSymbols
  <2> QED
    BY <2>1, <2>3
<1>11. printed.urn = TRUE /\ printed.text = e
  BY <1>5, <1>e
<1>12. WellFormed(printed)
  <2>1. \A k \in 1..(8 * n) : e[k] < 32
    <3> TAKE k \in 1..(8 * n)
    <3>1. e[k] \in 0..31
      BY <1>10
    <3> QED
      BY <3>1
  <2> QED
    BY <1>10, <1>11, <1>n, <2>1 DEF WellFormed
<1>13. \A m \in 1..(40 * n) : Bit(5, e, m) = Bit(8, raw, m)
  <2>1. SHA1_BASE32_LEN + 1 \in Nat /\ 5 * Len(e) = 40 * n /\ 8 * Len(raw) = 40 * n
    BY <1>9, <1>10, <1>n
  <2>2. \A m \in 1..(5 * Len(e)) : Bit(5, e, m) = IF m <= 8 * Len(raw) THEN Bit(8, raw, m) ELSE 0
    BY <1>9, <1>e, <2>1, EncodedBits
  <2> QED
    BY <2>1, <2>2
<1>14. BitString(5, e) = [m \in 1..(40 * n) |-> Bit(5, e, m)]
  <2>1. 5 * Len(e) = 40 * n
    BY <1>10
  <2> QED
    BY <2>1, Zenon DEF BitString
<1>15. BitString(4, t) = [m \in 1..(40 * n) |-> Bit(4, t, m)]
  <2>1. 4 * Len(t) = 40 * n
    BY <1>2
  <2> QED
    BY <2>1, Zenon DEF BitString
<1>16. BitString(5, e) = BitString(4, t)
  <2>1. \A m \in 1..(40 * n) : Bit(5, e, m) = Bit(4, t, m)
    BY <1>8, <1>13
  <2> QED
    BY <1>14, <1>15, <2>1
<1> QED
  BY <1>1, <1>t, <1>5, <1>11, <1>12, <1>16 DEF BitsPer

(* A well-formed value is printed in the other base with the same bits,    *)
(* and well-formed, whatever RawSize is (SameBits).                        *)
THEOREM ConvertedSameBits == ConvertSpec => []SameBits
<1>1. ConvertInv => SameBits
  BY SameBits32, SameBits16, Zenon DEF SameBits
<1> QED
  BY <1>1, ConvertKnown, PTL

(* There are not fewer '=' in front of a later place.                      *)
LEMMA PadsGrow ==
  ASSUME NEW t, NEW j \in Nat, NEW k \in Nat, j <= k
  PROVE  Pads(t, j) \in Nat /\ Pads(t, k) \in Nat /\ Pads(t, j) <= Pads(t, k)
<1> DEFINE P(n) == {i \in 1..n : t[i] = Pad}
<1>1. P(j) \subseteq P(k)
  OBVIOUS
<1>2. IsFiniteSet(P(k))
  <2>1. IsFiniteSet(1..k) /\ P(k) \subseteq 1..k
    BY FS_Interval
  <2> QED
    BY <2>1, FS_Subset
<1> HIDE DEF P
<1>3. Cardinality(P(j)) <= Cardinality(P(k))
  BY <1>1, <1>2, FS_Subset
<1>4. Pads(t, j) = Cardinality(P(j)) /\ Pads(t, k) = Cardinality(P(k))
  BY DEF Pads, P
<1> QED
  BY <1>3, <1>4, PadsCount

(* base32_decode fails for a bad character in front of the third '='.      *)
LEMMA BadDecoded32 ==
  ASSUME NEW n \in Nat \ {0}, NEW t, Len(t) = 8 * n
  PROVE  Base32Decode(5 * n, t).ret = -1 <=> \E k \in 1..(8 * n) : t[k] = Bad /\ Pads(t, k) < 3
<1>s. PICK size : size = 5 * n
  OBVIOUS
<1>r. PICK r : r = Base32Decode(size, t)
  OBVIOUS
<1>1. size \in Nat /\ 8 * n \in Nat
  BY <1>s
<1>2. Progress(size, t, 8 * n, r)
  BY <1>1, <1>r, DecodeProgress
<1>3. ~Alive(size, t, 8 * n)
  <2>1. 8 * n > 0 /\ (8 * n) \div 8 = n /\ ~(5 * n < size)
    BY <1>s
  <2> QED
    BY <2>1 DEF Alive
<1>4. PICK e \in 1..(8 * n) : StoppedAt(size, t, e, r)
  BY <1>2, <1>3 DEF Progress
<1>5. e \in Nat \ {0} /\ e - 1 \in Nat /\ e <= 8 * n /\ e \div 8 \in Nat
  OBVIOUS
<1>6. t[e] # Bad => r.ret # -1
  <2> SUFFICES ASSUME t[e] # Bad
               PROVE  r.ret # -1
    OBVIOUS
  <2>1. r.ret = Len(r.dst) /\ r.dst = OctetsUpTo(size, t, e \div 8)
    BY <1>4 DEF StoppedAt
  <2>2. Len(OctetsUpTo(size, t, e \div 8)) = IF size <= 5 * (e \div 8) THEN size ELSE 5 * (e \div 8)
    BY <1>1, <1>5, OctetsLength
  <2>3. r.ret \in Nat
    BY <1>1, <1>5, <2>1, <2>2
  <2> QED
    BY <2>3
<1>7. t[e] = Bad => r.ret = -1
  BY <1>4 DEF StoppedAt
<1>8. (\A j \in 1..(e - 1) : t[j] # Bad) /\ Pads(t, e - 1) < 3 /\ ~Alive(size, t, e)
  BY <1>4 DEF StoppedAt, Alive
<1>9. ASSUME t[e] = Bad
      PROVE  \E k \in 1..(8 * n) : t[k] = Bad /\ Pads(t, k) < 3
  <2>1. (e - 1) + 1 = e
    BY <1>5
  <2>2. Pads(t, (e - 1) + 1) = IF t[(e - 1) + 1] = Pad THEN Pads(t, e - 1) + 1 ELSE Pads(t, e - 1)
    BY <1>5, PadsCount
  <2>3. t[e] # Pad
    BY <1>9 DEF Pad, Bad
  <2>4. Pads(t, e) = Pads(t, e - 1)
    BY <2>1, <2>2, <2>3
  <2> QED
    BY <1>8, <1>9, <2>4
<1>10. ASSUME NEW k \in 1..(8 * n), t[k] = Bad, Pads(t, k) < 3, t[e] # Bad
       PROVE  FALSE
  <2>1. k > e
    <3>1. ~(k \in 1..(e - 1)) /\ k # e
      BY <1>8, <1>10
    <3> QED
      BY <1>5, <3>1
  <2>2. 5 * (e \div 8) < size
    <3>1. e < 8 * n
      BY <1>5, <2>1
    <3>2. e \div 8 < n
      BY <1>5, <3>1
    <3> QED
      BY <1>s, <1>5, <3>2
  <2>3. \A j \in 1..e : t[j] # Bad
    <3>1. \A j \in 1..e : j \in 1..(e - 1) \/ j = e
      BY <1>5
    <3> QED
      BY <1>8, <1>10, <3>1
  <2>4. ~(Pads(t, e) < 3)
    BY <1>8, <2>2, <2>3 DEF Alive
  <2>5. Pads(t, e) \in Nat /\ Pads(t, k) \in Nat /\ Pads(t, e) <= Pads(t, k)
    BY <1>5, <2>1, PadsGrow
  <2> QED
    BY <1>10, <2>4, <2>5
<1>11. r.ret = -1 <=> \E k \in 1..(8 * n) : t[k] = Bad /\ Pads(t, k) < 3
  BY <1>6, <1>7, <1>9, <1>10
<1> QED
  BY <1>s, <1>r, <1>11, Zenon

(* base16_decode fails for a character that is no digit.                   *)
LEMMA BadDecoded16 ==
  ASSUME NEW n \in Nat \ {0}, NEW t, Len(t) = 10 * n, \A k \in 1..(10 * n) : t[k] \in Int
  PROVE  Base16Decode(5 * n, t).ret = -1 <=> \E k \in 1..(10 * n) : t[k] \notin 0..Nul
<1>s. PICK size : size = 5 * n
  OBVIOUS
<1>l. PICK l : l = 10 * n
  OBVIOUS
<1>1. size \in Nat /\ l \in Nat /\ Whole16(size, l) = size /\ Half16(size, l) = 0 /\ l = Len(t) /\ l = 2 * size
  BY <1>s, <1>l DEF Whole16, Half16
<1>2. \A k \in 1..l : t[k] \in Int
  BY <1>l
<1>3. DigitsDecoded(t, Whole16(size, l), Half16(size, l), Base16Decode(size, t))
  BY <1>1, <1>2, Decoded16
<1>r. PICK r : r = Base16Decode(size, t)
  OBVIOUS
<1>4. DigitsDecoded(t, size, 0, r)
  BY <1>1, <1>3, <1>r
<1>5. 2 * size + 0 = 10 * n
  BY <1>s
<1>6. /\ (\A k \in 1..(10 * n) : t[k] \in 0..Nul) => r.ret = size
      /\ (\E k \in 1..(10 * n) : t[k] \notin 0..Nul) => r.ret = -1
  BY <1>4, <1>5, Zenon DEF DigitsDecoded
<1>7. size # -1
  BY <1>1
<1> QED
  BY <1>s, <1>r, <1>6, <1>7, Zenon

(* A text with what is behind the map for the byte 255, character by       *)
(* character.                                                              *)
LEMMA LookedUpAt ==
  ASSUME NEW S, NEW t \in Seq(S), NEW b
  PROVE  /\ Len(LookedUp(t, b)) = Len(t)
         /\ \A k \in 1..Len(t) : LookedUp(t, b)[k] = IF t[k] = Past THEN b ELSE t[k]
<1>1. DOMAIN t = 1..Len(t) /\ Len(t) \in Nat
  OBVIOUS
<1>2. LookedUp(t, b) = [k \in 1..Len(t) |-> IF t[k] = Past THEN b ELSE t[k]]
  BY <1>1 DEF LookedUp
<1> QED
  BY <1>1, <1>2

(* The values are different ones.                                          *)
LEMMA Apart ==
  /\ Pad # Bad /\ Pad # Past /\ Bad # Past
  /\ Pad \in Int /\ Bad \in Int /\ Past \in Int
  /\ \A c \in 0..15 : c # Pad /\ c # Bad /\ c # Past /\ c \in 0..Nul
  /\ Pad \notin 0..Nul /\ Bad \notin 0..Nul /\ Past \notin 0..Nul
BY DEF Pad, Bad, Past, Nul

(* The characters of a text of either kind, and what they are looked up as. *)
LEMMA BadLookedUp32 ==
  ASSUME NEW t \in Seq(0..Past), NEW b \in (0..15) \cup {Bad}, NEW u, u = LookedUp(t, b)
  PROVE  /\ Len(u) = Len(t)
         /\ \A k \in 1..Len(t) : /\ u[k] = Bad <=> t[k] = Bad \/ (t[k] = Past /\ b = Bad)
                                 /\ Pads(u, k) = Pads(t, k)
<1>1. Len(u) = Len(t) /\ \A k \in 1..Len(t) : u[k] = IF t[k] = Past THEN b ELSE t[k]
  BY LookedUpAt
<1>2. b # Pad
  BY Apart
<1>3. \A k \in 1..Len(t) : /\ u[k] = Bad <=> t[k] = Bad \/ (t[k] = Past /\ b = Bad)
                           /\ u[k] = Pad <=> t[k] = Pad
  BY <1>1, <1>2, Apart
<1>4. ASSUME NEW k \in 1..Len(t)
      PROVE  Pads(u, k) = Pads(t, k)
  <2>1. \A j \in 1..k : j \in 1..Len(t)
    OBVIOUS
  <2>2. {j \in 1..k : u[j] = Pad} = {j \in 1..k : t[j] = Pad}
    BY <1>3, <2>1
  <2> QED
    BY <2>2 DEF Pads
<1> QED
  BY <1>1, <1>3, <1>4

(* The same for a text of base 16.                                         *)
LEMMA BadLookedUp16 ==
  ASSUME NEW t \in Seq((0..15) \cup {Pad, Bad, Past}), NEW b \in (0..15) \cup {Bad}, NEW u, u = LookedUp(t, b)
  PROVE  /\ Len(u) = Len(t)
         /\ \A k \in 1..Len(t) : /\ u[k] \notin 0..Nul <=> t[k] \in {Pad, Bad} \/ (t[k] = Past /\ b = Bad)
                                 /\ u[k] \in Int
<1>1. Len(u) = Len(t) /\ \A k \in 1..Len(t) : u[k] = IF t[k] = Past THEN b ELSE t[k]
  BY LookedUpAt
<1>2. ASSUME NEW k \in 1..Len(t)
      PROVE  /\ u[k] \notin 0..Nul <=> t[k] \in {Pad, Bad} \/ (t[k] = Past /\ b = Bad)
             /\ u[k] \in Int
  <2>1. t[k] \in (0..15) \cup {Pad, Bad, Past}
    BY ElementOf
  <2>2. u[k] = IF t[k] = Past THEN b ELSE t[k]
    BY <1>1
  <2>3. CASE t[k] = Past
    BY <2>2, <2>3, Apart, SMTT(30)
  <2>4. CASE t[k] # Past
    BY <2>1, <2>2, <2>4, Apart, SMTT(30)
  <2> QED
    BY <2>3, <2>4
<1> QED
  BY <1>1, <1>2

(* A character of neither base makes the decoder say so wherever it        *)
(* stands in front of the third '=', and nothing else does, but for the    *)
(* byte 255 (BadNoticed).                                                  *)
THEOREM BadCharactersNoticed == ConvertSpec => []BadNoticed
<1>1. ASSUME ConvertInv, stage = "print", arg.urn
      PROVE  /\ (\E k \in DOMAIN arg.text : arg.text[k] \in {Bad} /\ Pads(arg.text, k) < 3) => decoded = -1
             /\ decoded = -1 => \E k \in DOMAIN arg.text : arg.text[k] \in {Bad} \cup {Past} /\ Pads(arg.text, k) < 3
  <2>n. PICK n \in Nat \ {0} : /\ RawSize = 5 * n /\ SHA1_BASE32_LEN = 8 * n /\ SHA1_BASE16_LEN = 10 * n
                               /\ Base32Length(RawSize) = 8 * n
    BY RawSizes
  <2>t. PICK t : t = arg.text
    OBVIOUS
  <2>1. arg.urn = TRUE /\ t \in Seq(0..Past) /\ DecodedFrom
    BY <1>1, <2>t, ArgumentKnown DEF ConvertInv
  <2>2. Len(t) = 8 * n
    BY <2>1, <2>n, <2>t DEF DecodedFrom, Expected
  <2>3. PICK b \in Behind : decoded = DecoderResult(b).ret
    BY <2>1 DEF DecodedFrom
  <2>4. b \in (0..15) \cup {Bad}
    BY BehindAssumption
  <2>u. PICK u : u = LookedUp(t, b)
    OBVIOUS
  <2>5. decoded = Base32Decode(5 * n, u).ret
    BY <2>1, <2>3, <2>n, <2>t, <2>u DEF DecoderResult
  <2>6. /\ Len(u) = 8 * n
        /\ \A k \in 1..(8 * n) : /\ u[k] = Bad <=> t[k] = Bad \/ (t[k] = Past /\ b = Bad)
                                 /\ Pads(u, k) = Pads(t, k)
    <3>1. /\ Len(u) = Len(t)
          /\ \A k \in 1..Len(t) : /\ u[k] = Bad <=> t[k] = Bad \/ (t[k] = Past /\ b = Bad)
                                  /\ Pads(u, k) = Pads(t, k)
      BY <2>1, <2>4, <2>u, BadLookedUp32
    <3> QED
      BY <2>2, <3>1, Zenon
  <2>7. decoded = -1 <=> \E k \in 1..(8 * n) : u[k] = Bad /\ Pads(u, k) < 3
    BY <2>5, <2>6, BadDecoded32
  <2>8. DOMAIN t = 1..(8 * n)
    <3>1. DOMAIN t = 1..Len(t)
      BY <2>1
    <3> QED
      BY <2>2, <3>1
  <2> QED
    BY <2>6, <2>7, <2>8, <2>t, Zenon
<1>2. ASSUME ConvertInv, stage = "print", ~arg.urn
      PROVE  /\ (\E k \in DOMAIN arg.text : arg.text[k] \in {Pad, Bad}) => decoded = -1
             /\ decoded = -1 => \E k \in DOMAIN arg.text : arg.text[k] \in {Pad, Bad} \cup {Past}
  <2>n. PICK n \in Nat \ {0} : /\ RawSize = 5 * n /\ SHA1_BASE32_LEN = 8 * n /\ SHA1_BASE16_LEN = 10 * n
                               /\ Base32Length(RawSize) = 8 * n
    BY RawSizes
  <2>t. PICK t : t = arg.text
    OBVIOUS
  <2>1. arg.urn = FALSE /\ t \in Seq((0..15) \cup {Pad, Bad, Past}) /\ DecodedFrom
    BY <1>2, <2>t, ArgumentKnown DEF ConvertInv
  <2>2. Len(t) = 10 * n
    BY <2>1, <2>n, <2>t DEF DecodedFrom, Expected
  <2>3. PICK b \in Behind : decoded = DecoderResult(b).ret
    BY <2>1 DEF DecodedFrom
  <2>4. b \in (0..15) \cup {Bad}
    BY BehindAssumption
  <2>u. PICK u : u = LookedUp(t, b)
    OBVIOUS
  <2>5. decoded = Base16Decode(5 * n, u).ret
    BY <2>1, <2>3, <2>n, <2>t, <2>u DEF DecoderResult
  <2>6. /\ Len(u) = 10 * n
        /\ \A k \in 1..(10 * n) : /\ u[k] \notin 0..Nul <=> t[k] \in {Pad, Bad} \/ (t[k] = Past /\ b = Bad)
                                  /\ u[k] \in Int
    <3>1. /\ Len(u) = Len(t)
          /\ \A k \in 1..Len(t) : /\ u[k] \notin 0..Nul <=> t[k] \in {Pad, Bad} \/ (t[k] = Past /\ b = Bad)
                                  /\ u[k] \in Int
      BY <2>1, <2>4, <2>u, BadLookedUp16
    <3> QED
      BY <2>2, <3>1, Zenon
  <2>7. decoded = -1 <=> \E k \in 1..(10 * n) : u[k] \notin 0..Nul
    <3>1. \A k \in 1..(10 * n) : u[k] \in Int
      BY <2>6
    <3> QED
      BY <2>5, <2>6, <3>1, BadDecoded16
  <2>8. DOMAIN t = 1..(10 * n)
    <3>1. DOMAIN t = 1..Len(t)
      BY <2>1
    <3> QED
      BY <2>2, <3>1
  <2> QED
    BY <2>6, <2>7, <2>8, <2>t, Zenon
<1>3. ConvertInv => BadNoticed
  <2> SUFFICES ASSUME ConvertInv, stage = "print"
               PROVE  LET pads(n) == Cardinality({k \in 1..n : arg.text[k] = Pad})
                          bad(set) == \E k \in DOMAIN arg.text :
                                        arg.text[k] \in set /\ (arg.urn => pads(k) < 3)
                          neither == IF arg.urn THEN {Bad} ELSE {Pad, Bad}
                      IN  /\ bad(neither) => decoded = -1
                          /\ decoded = -1 => bad(neither \cup {Past})
    BY DEF BadNoticed
  <2>1. arg.urn \in BOOLEAN
    BY ArgumentKnown DEF ConvertInv
  <2>2. CASE arg.urn = TRUE
    BY <1>1, <2>2 DEF Pads
  <2>3. CASE arg.urn = FALSE
    BY <1>2, <2>3
  <2> QED
    BY <2>1, <2>2, <2>3
<1> QED
  BY <1>3, ConvertKnown, PTL

-----------------------------------------------------------------------------
(* The blocks that tiger gives to tiger_compress.                          *)

(* A table of the first n blocks.                                          *)
BlocksUpTo(g, layout, n) ==
  g = [b \in 0..n |-> IF b = 0 THEN Start ELSE WholeBlock(g[b - 1], layout)]

(* There is such a table for any number of blocks.                         *)
LEMMA BlocksExist ==
  ASSUME NEW layout
  PROVE  \A n \in Nat : \E g : BlocksUpTo(g, layout, n)
<1> DEFINE S == {n \in Nat : \E g : BlocksUpTo(g, layout, n)}
<1>1. 0 \in S
  <2>1. BlocksUpTo([b \in 0..0 |-> Start], layout, 0)
    BY DEF BlocksUpTo
  <2> QED
    BY <2>1
<1>2. ASSUME NEW n \in Nat, n \in S PROVE n + 1 \in S
  <2>1. PICK g : BlocksUpTo(g, layout, n)
    BY <1>2
  <2>2. g = [b \in 0..n |-> IF b = 0 THEN Start ELSE WholeBlock(g[b - 1], layout)]
    BY <2>1 DEF BlocksUpTo
  <2> DEFINE h == [b \in 0..(n + 1) |-> IF b = 0 THEN Start ELSE WholeBlock(g[b - 1], layout)]
  <2>3. \A b \in 0..n : h[b] = g[b]
    BY <2>2
  <2>4. h = [b \in 0..(n + 1) |-> IF b = 0 THEN Start ELSE WholeBlock(h[b - 1], layout)]
    <3>1. \A b \in 0..(n + 1) : b # 0 => b - 1 \in 0..n
      OBVIOUS
    <3> QED
      BY <2>3, <3>1
  <2> HIDE DEF h
  <2>5. BlocksUpTo(h, layout, n + 1)
    BY <2>4 DEF BlocksUpTo
  <2> QED
    BY <2>5
<1> HIDE DEF S
<1>3. Nat \subseteq S
  BY <1>1, <1>2, SetInduction
<1> QED
  BY <1>3 DEF S

(* So the recursive function of the blocks is what its equations say.      *)
LEMMA BlocksAre ==
  ASSUME NEW layout, NEW n \in Nat
  PROVE  /\ BlockTurns(layout, n)[0] = Start
         /\ \A b \in 1..n : BlockTurns(layout, n)[b] = WholeBlock(BlockTurns(layout, n)[b - 1], layout)
<1> DEFINE t == BlockTurns(layout, n)
<1>1. \E g : BlocksUpTo(g, layout, n)
  BY BlocksExist
<1>2. BlocksUpTo(t, layout, n)
  BY <1>1 DEF BlocksUpTo, BlockTurns
<1> HIDE DEF t
<1>3. 0 \in 0..n /\ \A b \in 1..n : b \in 0..n /\ b # 0
  OBVIOUS
<1>4. t[0] = Start /\ \A b \in 1..n : t[b] = WholeBlock(t[b - 1], layout)
  BY <1>2, <1>3 DEF BlocksUpTo
<1> QED
  BY <1>4 DEF t

(* The index in memory stays in its word, and turned around twice it is    *)
(* what it was.                                                            *)
LEMMA MemoryTwice ==
  ASSUME NEW layout, NEW k \in 0..63
  PROVE  /\ Memory(layout, k) \in 0..63
         /\ Memory(layout, Memory(layout, k)) = k
         /\ Memory(layout, k) \div 8 = k \div 8
<1>1. CASE layout = "big"
  <2>1. Memory(layout, k) = k + 7 - 2 * (k % 8)
    BY <1>1 DEF Memory, WordSize
  <2>2. PICK w \in 0..7, r \in 0..7 : k = 8 * w + r
    <3>1. k \div 8 \in 0..7 /\ k % 8 \in 0..7 /\ k = 8 * (k \div 8) + (k % 8)
      OBVIOUS
    <3> QED
      BY <3>1
  <2>3. k % 8 = r /\ k \div 8 = w
    BY <2>2
  <2>4. Memory(layout, k) = 8 * w + (7 - r)
    BY <2>1, <2>2, <2>3
  <2>5. (8 * w + (7 - r)) % 8 = 7 - r /\ (8 * w + (7 - r)) \div 8 = w
    BY <2>2
  <2>6. Memory(layout, 8 * w + (7 - r)) = 8 * w + (7 - r) + 7 - 2 * (7 - r)
    BY <1>1, <2>5 DEF Memory, WordSize
  <2> QED
    BY <2>2, <2>3, <2>4, <2>5, <2>6
<1>2. CASE layout # "big"
  BY <1>2 DEF Memory
<1> QED
  BY <1>1, <1>2

(* Where words begin, the order in memory is that of the bytes.            *)
LEMMA MemoryOrder ==
  ASSUME NEW layout, NEW k \in 0..63, NEW l \in Nat, l % 8 = 0
  PROVE  Memory(layout, k) < l <=> k < l
<1>1. Memory(layout, k) \in 0..63 /\ Memory(layout, k) \div 8 = k \div 8
  BY MemoryTwice
<1>2. PICK m \in 0..63 : m = Memory(layout, k)
  BY <1>1
<1>3. m \div 8 = k \div 8
  BY <1>1, <1>2
<1>4. l = 8 * (l \div 8) /\ l \div 8 \in Nat
  OBVIOUS
<1>5. m < 8 * (l \div 8) <=> m \div 8 < l \div 8
  BY <1>4
<1>6. k < 8 * (l \div 8) <=> k \div 8 < l \div 8
  BY <1>4
<1> QED
  BY <1>2, <1>3, <1>4, <1>5, <1>6

(* The locals as a record.                                                 *)
Locals(taken, temp, j, seen) == [taken |-> taken, temp |-> temp, j |-> j, seen |-> seen]

(* A sequence of n elements.                                               *)
IsRow(s, n) == s = [k \in 1..n |-> s[k]]

(* One behind another.                                                     *)
IsJoined(r, s, p, t, q) ==
  IsRow(r, p + q) /\ \A k \in 1..(p + q) : r[k] = IF k <= p THEN s[k] ELSE t[k - p]

(* Two sequences joined, element by element.                               *)
LEMMA RowsJoined ==
  ASSUME NEW p \in Nat, NEW q \in Nat, NEW s, NEW t, IsRow(s, p), IsRow(t, q)
  PROVE  IsJoined(s \o t, s, p, t, q)
<1>1. Len(s) = p /\ Len(t) = q
  BY DEF IsRow
<1>2. s \o t = [k \in 1..(p + q) |-> IF k <= p THEN s[k] ELSE t[k - p]]
  BY <1>1 DEF IsRow
<1> QED
  BY <1>2 DEF IsRow, IsJoined

(* Rows with the same elements are the same.                               *)
LEMMA SameRow ==
  ASSUME NEW n, NEW s, NEW t, IsRow(s, n), IsRow(t, n), \A k \in 1..n : s[k] = t[k]
  PROVE  s = t
BY DEF IsRow

(* The fields of the locals, and what is left of the others when one of    *)
(* them is assigned.                                                       *)
LEMMA FieldsOf ==
  ASSUME NEW taken, NEW temp, NEW j, NEW seen, NEW st, st = Locals(taken, temp, j, seen)
  PROVE  st.seen = seen /\ st.j = j /\ st.taken = taken /\ st.temp = temp
BY DEF Locals

(* The number of bytes taken.                                              *)
LEMMA SetTaken ==
  ASSUME NEW taken, NEW temp, NEW j, NEW seen, NEW st, st = Locals(taken, temp, j, seen), NEW x
  PROVE  [st EXCEPT !.taken = x] = Locals(x, temp, j, seen)
BY DEF Locals

(* The local union.                                                        *)
LEMMA SetTemp ==
  ASSUME NEW taken, NEW temp, NEW j, NEW seen, NEW st, st = Locals(taken, temp, j, seen), NEW x
  PROVE  [st EXCEPT !.temp = x] = Locals(taken, x, j, seen)
BY DEF Locals

(* The index.                                                              *)
LEMMA SetIndex ==
  ASSUME NEW taken, NEW temp, NEW j, NEW seen, NEW st, st = Locals(taken, temp, j, seen), NEW x
  PROVE  [st EXCEPT !.j = x] = Locals(taken, temp, x, seen)
BY DEF Locals

(* What was compressed.                                                    *)
LEMMA SetSeen ==
  ASSUME NEW taken, NEW temp, NEW j, NEW seen, NEW st, st = Locals(taken, temp, j, seen), NEW x
  PROVE  [st EXCEPT !.seen = x] = Locals(taken, temp, j, x)
BY DEF Locals

(* A block in memory as the compression reads it.                          *)
Block(layout, temp) == [k \in 1..64 |-> temp[Memory(layout, k - 1)]]

(* The compression sees a block more and changes nothing else of the       *)
(* locals.                                                                 *)
LEMMA CompressIs ==
  ASSUME NEW layout, NEW taken, NEW temp, NEW j, NEW seen, NEW block, NEW st, st = Locals(taken, temp, j, seen)
  PROVE  Compress(st, layout, block) = Locals(taken, temp, j, seen \o Block(layout, block))
<1>1. st.seen = seen
  BY FieldsOf
<1>2. PICK x : x = st.seen \o Block(layout, block)
  OBVIOUS
<1>3. [k \in 1..BlockSize |-> block[Memory(layout, k - 1)]] = Block(layout, block)
  BY DEF Block, BlockSize, WordSize
<1>4. Compress(st, layout, block) = [st EXCEPT !.seen = st.seen \o Block(layout, block)]
  BY <1>3, Zenon DEF Compress
<1>5. [st EXCEPT !.seen = x] = Locals(taken, temp, j, x)
  BY SetSeen
<1> QED
  BY <1>1, <1>2, <1>4, <1>5, Zenon

(* The next bytes of the message as they are loaded.                       *)
LoadedBlock(layout, u) == [k \in 0..63 |-> Data(u + Memory(layout, k))]

(* A turn of the loop over whole blocks takes and compresses 64 bytes.     *)
LEMMA WholeIs ==
  ASSUME NEW layout, NEW u, NEW temp, NEW j, NEW seen, NEW st, st = Locals(u, temp, j, seen)
  PROVE  \E left : WholeBlock(st, layout)
                     = Locals(u + 64, left, j, seen \o Block(layout, LoadedBlock(layout, u)))
<1>1. st.taken = u /\ st.temp = temp
  BY FieldsOf
<1>2. PICK left : left = IF layout = "aligned" THEN st.temp ELSE LoadedBlock(layout, u)
  OBVIOUS
<1>3. PICK mid : mid = [st EXCEPT !.temp = left]
  OBVIOUS
<1>4. mid = Locals(u, left, j, seen)
  <2>1. [st EXCEPT !.temp = left] = Locals(u, left, j, seen)
    BY SetTemp
  <2> QED
    BY <1>3, <2>1, Zenon
<1>5. mid.taken = u
  BY <1>4, FieldsOf
<1>6. PICK x : x = mid.taken + 64
  OBVIOUS
<1>7. [mid EXCEPT !.taken = x] = Locals(u + 64, left, j, seen)
  <2>1. [mid EXCEPT !.taken = x] = Locals(x, left, j, seen)
    BY <1>4, SetTaken
  <2> QED
    BY <1>5, <1>6, <2>1, Zenon
<1>8. BlockSize = 64
  BY DEF BlockSize, WordSize
<1>9. [k \in 0..(BlockSize - 1) |-> Data(st.taken + Memory(layout, k))] = LoadedBlock(layout, u)
  BY <1>1, <1>8 DEF LoadedBlock
<1>10. WholeBlock(st, layout) = Compress([mid EXCEPT !.taken = x], layout, LoadedBlock(layout, u))
  BY <1>2, <1>3, <1>6, <1>8, <1>9, Zenon DEF WholeBlock
<1> QED
  BY <1>7, <1>10, CompressIs

(* The first n bytes of a message.                                         *)
DataUpTo(n) == [k \in 1..n |-> Data(k - 1)]

(* The message so far with a block more.                                   *)
LEMMA DataGrows ==
  ASSUME NEW u \in Nat
  PROVE  DataUpTo(u) \o [k \in 1..64 |-> Data(u + (k - 1))] = DataUpTo(u + 64)
<1> DEFINE s == DataUpTo(u)
           q == [k \in 1..64 |-> Data(u + (k - 1))]
           r == DataUpTo(u + 64)
<1>1. IsRow(s, u) /\ IsRow(r, u + 64) /\ IsRow(q, 64)
  BY DEF DataUpTo, IsRow
<1>2. IsJoined(s \o q, s, u, q, 64)
  <2> HIDE DEF s, q, r
  <2>1. 64 \in Nat
    OBVIOUS
  <2> QED
    BY <1>1, <2>1, RowsJoined
<1>3. ASSUME NEW k \in 1..(u + 64) PROVE r[k] = IF k <= u THEN s[k] ELSE q[k - u]
  <2>1. r[k] = Data(k - 1)
    BY DEF DataUpTo
  <2>2. CASE k <= u
    <3>1. k \in 1..u
      BY <2>2
    <3> QED
      BY <2>1, <2>2, <3>1 DEF DataUpTo
  <2>3. CASE ~ (k <= u)
    <3>1. k - u \in 1..64 /\ u + ((k - u) - 1) = k - 1
      BY <2>3
    <3> QED
      BY <2>1, <2>3, <3>1
  <2> QED
    BY <2>2, <2>3
<1> HIDE DEF s, q, r
<1>4. IsRow(s \o q, u + 64) /\ \A k \in 1..(u + 64) : (s \o q)[k] = r[k]
  BY <1>2, <1>3 DEF IsJoined
<1>5. s \o q = r
  BY <1>1, <1>4, SameRow
<1> QED
  BY <1>5 DEF s, q, r

(* After n blocks the first 64 n bytes were seen, and nothing else.        *)
LEMMA BlocksSeen ==
  ASSUME NEW layout, NEW n \in Nat
  PROVE  \E temp : BlockTurns(layout, n)[n] = Locals(64 * n, temp, 0, DataUpTo(64 * n))
<1> DEFINE t == BlockTurns(layout, n)
           Seen(b) == \E temp : t[b] = Locals(64 * b, temp, 0, DataUpTo(64 * b))
           S == {b \in Nat : b <= n => Seen(b)}
<1>1. t[0] = Start /\ \A b \in 1..n : t[b] = WholeBlock(t[b - 1], layout)
  BY BlocksAre
<1>2. 0 \in S
  <2>1. DataUpTo(0) = <<>>
    BY DEF DataUpTo
  <2>2. 64 * 0 = 0
    OBVIOUS
  <2>3. Start = Locals(0, [k \in 0..(BlockSize - 1) |-> Unset], 0, <<>>)
    BY DEF Start, Locals
  <2> HIDE DEF t
  <2> QED
    BY <1>1, <2>1, <2>2, <2>3
<1>3. ASSUME NEW b \in Nat, b \in S PROVE b + 1 \in S
  <2> SUFFICES ASSUME b + 1 <= n PROVE Seen(b + 1)
    OBVIOUS
  <2> DEFINE u == 64 * b
             block == LoadedBlock(layout, u)
  <2> HIDE DEF t
  <2>1. PICK temp : t[b] = Locals(u, temp, 0, DataUpTo(u))
    BY <1>3
  <2>2. t[b + 1] = WholeBlock(t[b], layout)
    <3>1. b + 1 \in 1..n /\ (b + 1) - 1 = b
      OBVIOUS
    <3> QED
      BY <1>1, <3>1
  <2>3. u \in Nat /\ u + 64 = 64 * (b + 1)
    OBVIOUS
  <2> HIDE DEF u
  <2>4. \E left : WholeBlock(t[b], layout)
                    = Locals(u + 64, left, 0, DataUpTo(u) \o Block(layout, block))
    BY <2>1, WholeIs
  <2>5. Block(layout, block) = [k \in 1..64 |-> Data(u + (k - 1))]
    <3>1. ASSUME NEW k \in 1..64 PROVE block[Memory(layout, k - 1)] = Data(u + (k - 1))
      <4>1. k - 1 \in 0..63
        OBVIOUS
      <4>2. Memory(layout, k - 1) \in 0..63 /\ Memory(layout, Memory(layout, k - 1)) = k - 1
        BY <4>1, MemoryTwice
      <4> QED
        BY <4>2 DEF LoadedBlock
    <3> HIDE DEF block
    <3> QED
      BY <3>1 DEF Block
  <2>6. DataUpTo(u) \o Block(layout, block) = DataUpTo(u + 64)
    BY <2>3, <2>5, DataGrows
  <2> QED
    BY <2>2, <2>3, <2>4, <2>6
<1> HIDE DEF S
<1>4. Nat \subseteq S
  BY <1>2, <1>3, SetInduction
<1>5. n \in S
  BY <1>4
<1> QED
  BY <1>5 DEF S

(* Byte i of the block in memory.                                          *)
ByteAt(layout, temp, i) == temp[Memory(layout, i)]

(* The rest of the message is put there.                                   *)
IsRest(layout, u, seen, j, st) ==
  \E t : /\ st = Locals(u, t, j, seen)
         /\ \A i \in 0..63 : i < j => ByteAt(layout, t, i) = Data(u + i)

(* The rest of the message is put where the compression will read it.      *)
LEMMA RestIs ==
  ASSUME NEW layout, NEW u, NEW temp, NEW seen, NEW j \in Nat, NEW st, st = Locals(u, temp, 0, seen)
  PROVE  IsRest(layout, u, seen, j, Rest(st, layout, j))
<1>1. st.taken = u
  BY FieldsOf
<1>2. BlockSize = 64
  BY DEF BlockSize, WordSize
<1>3. PICK mid : mid = [st EXCEPT !.j = j]
  OBVIOUS
<1>4. PICK t : t = [k \in 0..63 |-> IF Memory(layout, k) < j THEN Data(u + Memory(layout, k)) ELSE mid.temp[k]]
  OBVIOUS
<1>5. mid = Locals(u, temp, j, seen)
  <2>1. [st EXCEPT !.j = j] = Locals(u, temp, j, seen)
    BY SetIndex
  <2> QED
    BY <1>3, <2>1, Zenon
<1>6. [mid EXCEPT !.temp = t] = Locals(u, t, j, seen)
  BY <1>5, SetTemp
<1>7. Rest(st, layout, j) = [mid EXCEPT !.temp = t]
  <2>1. [k \in 0..(BlockSize - 1) |-> IF Memory(layout, k) < j THEN Data(st.taken + Memory(layout, k))
                                      ELSE mid.temp[k]] = t
    BY <1>1, <1>2, <1>4
  <2> QED
    BY <1>3, <2>1, Zenon DEF Rest
<1>8. ASSUME NEW i \in 0..63, i < j PROVE ByteAt(layout, t, i) = Data(u + i)
  <2>1. Memory(layout, i) \in 0..63 /\ Memory(layout, Memory(layout, i)) = i
    BY MemoryTwice
  <2> QED
    BY <1>4, <1>8, <2>1 DEF ByteAt
<1> QED
  BY <1>6, <1>7, <1>8 DEF IsRest

(* The byte 1 and zeros to the end of its word.                            *)
IsMarked(layout, t, temp, j) ==
  \A i \in 0..63 : ByteAt(layout, t, i) =
    IF i = j THEN One ELSE IF j < i /\ i < j + 8 - (j % 8) THEN Zero ELSE ByteAt(layout, temp, i)

(* The locals after Mark.                                                  *)
IsMark(layout, u, temp, seen, j, st) ==
  \E t : st = Locals(u, t, j + 8 - (j % 8), seen) /\ IsMarked(layout, t, temp, j)

(* Mark writes the byte 1 and zeros up to the end of its word, and leaves  *)
(* the other bytes of the block alone.                                     *)
LEMMA MarkIs ==
  ASSUME NEW layout, NEW u, NEW temp, NEW seen, NEW j \in 0..63, NEW st, st = Locals(u, temp, j, seen)
  PROVE  IsMark(layout, u, temp, seen, j, Mark(st, layout))
<1>1. st.j = j
  BY FieldsOf
<1>2. BlockSize = 64 /\ WordSize = 8
  BY DEF BlockSize, WordSize
<1>3. PICK l : l = j + 8 - (j % 8)
  OBVIOUS
<1>4. PICK mid : mid = [st EXCEPT !.j = l]
  OBVIOUS
<1>5. PICK t : t = [k \in 0..63 |-> IF Memory(layout, k) = j THEN One
                                    ELSE IF Memory(layout, k) \in (j + 1)..(l - 1) THEN Zero
                                    ELSE mid.temp[k]]
  OBVIOUS
<1>6. mid = Locals(u, temp, l, seen)
  <2>1. [st EXCEPT !.j = l] = Locals(u, temp, l, seen)
    BY SetIndex
  <2> QED
    BY <1>4, <2>1, Zenon
<1>7. [mid EXCEPT !.temp = t] = Locals(u, t, l, seen)
  BY <1>6, SetTemp
<1>8. Mark(st, layout) = [mid EXCEPT !.temp = t]
  <2>1. st.j + WordSize - (st.j % WordSize) = l
    BY <1>1, <1>2, <1>3
  <2>2. [k \in 0..(BlockSize - 1) |->
           IF Memory(layout, k) = st.j THEN One
           ELSE IF Memory(layout, k) \in (st.j + 1)..(st.j + WordSize - (st.j % WordSize) - 1) THEN Zero
           ELSE mid.temp[k]] = t
    BY <1>1, <1>2, <1>5, <2>1
  <2> QED
    BY <1>4, <2>1, <2>2, Zenon DEF Mark
<1>9. mid.temp = temp
  BY <1>6, FieldsOf
<1>10. ASSUME NEW i \in 0..63
       PROVE  ByteAt(layout, t, i) =
                IF i = j THEN One ELSE IF j < i /\ i < l THEN Zero ELSE ByteAt(layout, temp, i)
  <2>1. Memory(layout, i) \in 0..63 /\ Memory(layout, Memory(layout, i)) = i
    BY MemoryTwice
  <2>2. t[Memory(layout, i)] = IF i = j THEN One ELSE IF i \in (j + 1)..(l - 1) THEN Zero
                               ELSE temp[Memory(layout, i)]
    BY <1>5, <1>9, <2>1
  <2>3. i \in (j + 1)..(l - 1) <=> j < i /\ i < l
    BY <1>3
  <2> QED
    BY <2>2, <2>3 DEF ByteAt
<1> QED
  BY <1>3, <1>7, <1>8, <1>10 DEF IsMarked, IsMark

(* Zeros between two places where words begin.                             *)
IsZeroed(layout, t, temp, j, limit) ==
  \A i \in 0..63 : ByteAt(layout, t, i) =
    IF j <= i /\ i < limit THEN Zero ELSE ByteAt(layout, temp, i)

(* The locals after ZeroFrom.                                              *)
Zeroed(layout, u, temp, j, seen, limit, st) ==
  \E t : ZeroFrom(st, limit) = Locals(u, t, j, seen) /\ IsZeroed(layout, t, temp, j, limit)

(* The zeros are stored without regard to the layout; since they begin     *)
(* and end where words do, they are the same bytes in every layout.        *)
LEMMA ZeroFromIs ==
  ASSUME NEW layout, NEW u, NEW temp, NEW seen, NEW j \in Nat, NEW limit \in Nat, NEW st,
         j % 8 = 0, limit % 8 = 0, st = Locals(u, temp, j, seen)
  PROVE  Zeroed(layout, u, temp, j, seen, limit, st)
<1>1. st.j = j /\ st.temp = temp
  BY FieldsOf
<1>2. BlockSize = 64
  BY DEF BlockSize, WordSize
<1>3. PICK t : t = [k \in 0..63 |-> IF k >= j /\ k < limit THEN Zero ELSE temp[k]]
  OBVIOUS
<1>4. [st EXCEPT !.temp = t] = Locals(u, t, j, seen)
  BY SetTemp
<1>5. ZeroFrom(st, limit) = [st EXCEPT !.temp = t]
  <2>1. [k \in 0..(BlockSize - 1) |-> IF k >= st.j /\ k < limit THEN Zero ELSE st.temp[k]] = t
    BY <1>1, <1>2, <1>3
  <2> QED
    BY <2>1, Zenon DEF ZeroFrom
<1>6. ASSUME NEW i \in 0..63
      PROVE  ByteAt(layout, t, i) = IF j <= i /\ i < limit THEN Zero ELSE ByteAt(layout, temp, i)
  <2>1. PICK m \in 0..63 : m = Memory(layout, i)
    BY MemoryTwice
  <2>2. (m < j <=> i < j) /\ (m < limit <=> i < limit)
    BY <2>1, MemoryOrder
  <2>3. t[m] = IF m >= j /\ m < limit THEN Zero ELSE temp[m]
    BY <1>3
  <2> QED
    BY <2>1, <2>2, <2>3 DEF ByteAt
<1> QED
  BY <1>4, <1>5, <1>6 DEF IsZeroed, Zeroed

(* The length in the last word.                                            *)
HasLength(layout, t, temp) ==
  \A i \in 0..63 : ByteAt(layout, t, i) =
    IF 56 <= i THEN LengthByte(i % 8) ELSE ByteAt(layout, temp, i)

(* The last word of the block is the length, in every layout.              *)
LEMMA PutLengthIs ==
  ASSUME NEW layout, NEW u, NEW temp, NEW seen, NEW j, NEW st, st = Locals(u, temp, j, seen)
  PROVE  \E t : /\ PutLength(st, layout) = Locals(u, t, j, seen)
                /\ HasLength(layout, t, temp)
<1>1. st.temp = temp
  BY FieldsOf
<1>2. BlockSize = 64 /\ WordSize = 8 /\ BlockSize - WordSize = 56
  BY DEF BlockSize, WordSize
<1>3. PICK t : t = [k \in 0..63 |-> IF k >= 56 THEN LengthByte(Memory(layout, k) % 8) ELSE temp[k]]
  OBVIOUS
<1>4. [st EXCEPT !.temp = t] = Locals(u, t, j, seen)
  BY SetTemp
<1>5. PutLength(st, layout) = [st EXCEPT !.temp = t]
  <2>1. [k \in 0..(BlockSize - 1) |-> IF k >= BlockSize - WordSize
                                      THEN LengthByte(Memory(layout, k) % WordSize) ELSE st.temp[k]] = t
    BY <1>1, <1>2, <1>3
  <2> QED
    BY <2>1, Zenon DEF PutLength
<1>6. ASSUME NEW i \in 0..63
      PROVE  ByteAt(layout, t, i) = IF 56 <= i THEN LengthByte(i % 8) ELSE ByteAt(layout, temp, i)
  <2>1. PICK m \in 0..63 : m = Memory(layout, i) /\ Memory(layout, m) = i
    BY MemoryTwice
  <2>2. 56 \in Nat /\ 56 % 8 = 0
    OBVIOUS
  <2>3. m < 56 <=> i < 56
    BY <2>1, <2>2, MemoryOrder
  <2>4. t[m] = IF m >= 56 THEN LengthByte(i % 8) ELSE temp[m]
    BY <1>3, <2>1
  <2> QED
    BY <2>1, <2>3, <2>4 DEF ByteAt
<1> QED
  BY <1>4, <1>5, <1>6 DEF HasLength

(* A block more, if there is no room for the length.                       *)
LEMMA SpillIs ==
  ASSUME NEW layout, NEW u, NEW temp, NEW seen, NEW j \in Nat, j % 8 = 0, j <= 64,
         NEW st, st = Locals(u, temp, j, seen)
  PROVE  /\ j <= 56 => Spill(st, layout) = st
         /\ j = 64 => \E t : Spill(st, layout) = Locals(u, t, 0, seen \o Block(layout, temp))
<1>1. st.j = j
  BY FieldsOf
<1>2. BlockSize = 64 /\ BlockSize - WordSize = 56
  BY DEF BlockSize, WordSize
<1>3. ASSUME j <= 56 PROVE Spill(st, layout) = st
  BY <1>1, <1>2, <1>3 DEF Spill
<1>4. ASSUME j = 64 PROVE \E t : Spill(st, layout) = Locals(u, t, 0, seen \o Block(layout, temp))
  <2>1. 64 \in Nat /\ 64 % 8 = 0
    OBVIOUS
  <2>2. PICK t : ZeroFrom(st, 64) = Locals(u, t, j, seen) /\ IsZeroed(layout, t, temp, j, 64)
    <3>1. Zeroed(layout, u, temp, j, seen, 64, st)
      BY <2>1, ZeroFromIs
    <3> QED
      BY <3>1 DEF Zeroed
  <2>3. \A i \in 0..63 : ByteAt(layout, t, i) = ByteAt(layout, temp, i)
    BY <2>2, <1>4 DEF IsZeroed
  <2>4. Block(layout, t) = Block(layout, temp)
    <3>1. \A k \in 1..64 : k - 1 \in 0..63
      OBVIOUS
    <3> QED
      BY <2>3, <3>1 DEF Block, ByteAt
  <2>5. PICK mid : mid = Compress(ZeroFrom(st, 64), layout, (ZeroFrom(st, 64)).temp)
    OBVIOUS
  <2>6. (ZeroFrom(st, 64)).temp = t
    BY <2>2, FieldsOf
  <2>7. mid = Locals(u, t, j, seen \o Block(layout, t))
    BY <2>2, <2>5, <2>6, CompressIs
  <2>8. [mid EXCEPT !.j = 0] = Locals(u, t, 0, seen \o Block(layout, t))
    BY <2>7, SetIndex
  <2>9. Spill(st, layout) = [mid EXCEPT !.j = 0]
    <3>1. Spill(st, layout) = SpillBlock(ZeroFrom(st, 64), layout)
      BY <1>1, <1>2, <1>4 DEF Spill
    <3> QED
      BY <2>5, <3>1, Zenon DEF SpillBlock
  <2> QED
    BY <2>4, <2>8, <2>9
<1> QED
  BY <1>3, <1>4

(* The last block as it is compressed.                                     *)
LastRow(layout, temp, j) ==
  [k \in 1..64 |-> IF k <= j THEN ByteAt(layout, temp, k - 1)
                   ELSE IF k <= 56 THEN Zero ELSE LengthByte((k - 1) % 8)]

(* What was seen in the end.                                               *)
IsFinished(layout, temp, seen, j, st) ==
  (Finish(st, layout)).seen = seen \o LastRow(layout, temp, j)

(* The last block: what is in front of j, zeros, and the length.           *)
LEMMA FinishIs ==
  ASSUME NEW layout, NEW u, NEW temp, NEW seen, NEW j \in Nat, j % 8 = 0, j <= 56,
         NEW st, st = Locals(u, temp, j, seen)
  PROVE  IsFinished(layout, temp, seen, j, st)
<1>1. BlockSize - WordSize = 56
  BY DEF BlockSize, WordSize
<1>2. 56 \in Nat /\ 56 % 8 = 0
  OBVIOUS
<1>3. PICK s : ZeroFrom(st, 56) = Locals(u, s, j, seen) /\ IsZeroed(layout, s, temp, j, 56)
  <2>1. Zeroed(layout, u, temp, j, seen, 56, st)
    BY <1>2, ZeroFromIs
  <2> QED
    BY <2>1 DEF Zeroed
<1>4. PICK t : PutLength(ZeroFrom(st, 56), layout) = Locals(u, t, j, seen) /\ HasLength(layout, t, s)
  BY <1>3, PutLengthIs
<1>5. PICK last : last = PutLength(ZeroFrom(st, 56), layout)
  OBVIOUS
<1>6. last.temp = t
  BY <1>4, <1>5, FieldsOf
<1>7. Compress(last, layout, last.temp) = Locals(u, t, j, seen \o Block(layout, t))
  BY <1>4, <1>5, <1>6, CompressIs
<1>8. Finish(st, layout) = Compress(last, layout, last.temp)
  BY <1>1, <1>5, Zenon DEF Finish, LastBlock
<1>9. (Finish(st, layout)).seen = seen \o Block(layout, t)
  <2>1. PICK end : end = Finish(st, layout)
    OBVIOUS
  <2>2. PICK all : all = seen \o Block(layout, t)
    OBVIOUS
  <2>3. end = Locals(u, t, j, all)
    BY <1>7, <1>8, <2>1, <2>2
  <2>4. end.seen = all
    BY <2>3, FieldsOf
  <2> QED
    BY <2>1, <2>2, <2>4
<1>10. Block(layout, t) = LastRow(layout, temp, j)
  <2>1. ASSUME NEW k \in 1..64
        PROVE  t[Memory(layout, k - 1)] = IF k <= j THEN ByteAt(layout, temp, k - 1)
                                          ELSE IF k <= 56 THEN Zero ELSE LengthByte((k - 1) % 8)
    <3>1. PICK i \in 0..63 : i = k - 1
      OBVIOUS
    <3>2. ByteAt(layout, t, i) = IF 56 <= i THEN LengthByte(i % 8)
                                 ELSE IF j <= i /\ i < 56 THEN Zero ELSE ByteAt(layout, temp, i)
      BY <1>3, <1>4 DEF IsZeroed, HasLength
    <3>3. (56 <= i <=> ~ (k <= 56)) /\ (j <= i <=> ~ (k <= j)) /\ (i < 56 <=> k <= 56)
      BY <3>1
    <3> QED
      BY <3>1, <3>2, <3>3 DEF ByteAt
  <2> QED
    BY <2>1 DEF Block, LastRow
<1> QED
  BY <1>9, <1>10 DEF IsFinished

(* The padded message, byte by byte.                                       *)
PaddedTo(length, total) ==
  [k \in 1..total |-> IF k <= length THEN Data(k - 1) ELSE IF k = length + 1 THEN One
                      ELSE IF k <= total - 8 THEN Zero ELSE LengthByte((k - 1) % 8)]

(* The number of zeros is the one that fills the last block.               *)
LEMMA ZerosAre ==
  ASSUME NEW length \in Nat, NEW total \in Nat, total % 64 = 0, length + 9 <= total, total < length + 73
  PROVE  (CHOOSE z \in 0..(BlockSize - 1) : (length + 1 + z) % BlockSize = BlockSize - WordSize)
           = total - length - 9
<1>1. total - length - 9 \in 0..63
  OBVIOUS
<1>2. (length + 1 + (total - length - 9)) % 64 = 56
  OBVIOUS
<1>3. \A z \in 0..63 : (length + 1 + z) % 64 = 56 => z = total - length - 9
  OBVIOUS
<1>4. BlockSize = 64 /\ BlockSize - 1 = 63 /\ BlockSize - WordSize = 56
  BY DEF BlockSize, WordSize
<1>5. PICK zeros : zeros = CHOOSE z \in 0..(BlockSize - 1) :
                             (length + 1 + z) % BlockSize = BlockSize - WordSize
  OBVIOUS
<1>6. \E z \in 0..(BlockSize - 1) : (length + 1 + z) % BlockSize = BlockSize - WordSize
  BY <1>1, <1>2, <1>4
<1>7. zeros \in 0..(BlockSize - 1) /\ (length + 1 + zeros) % BlockSize = BlockSize - WordSize
  BY <1>5, <1>6, Zenon
<1> QED
  BY <1>3, <1>4, <1>5, <1>7, ZenonT(60)

(* Padded, byte by byte, for the total length that the zeros make.         *)
LEMMA PaddedIs ==
  ASSUME NEW length \in Nat, NEW total \in Nat, total % 64 = 0, length + 9 <= total, total < length + 73
  PROVE  Padded(length) = PaddedTo(length, total)
<1> DEFINE z == total - length - 9
           a == [k \in 1..length |-> Data(k - 1)]
           b == <<One>>
           c == [k \in 1..z |-> Zero]
           d == [k \in 1..8 |-> LengthByte(k - 1)]
           r == PaddedTo(length, total)
<1>1. z \in Nat /\ length + 1 + z + 8 = total
  OBVIOUS
<1>2. (CHOOSE x \in 0..(BlockSize - 1) : (length + 1 + x) % BlockSize = BlockSize - WordSize) = z
  BY ZerosAre
<1>3. Padded(length) = a \o b \o c \o d
  <2>1. WordSize = 8
    BY DEF WordSize
  <2> HIDE DEF z
  <2> QED
    BY <1>2, <2>1, Zenon DEF Padded
<1>4. IsRow(a, length) /\ IsRow(b, 1) /\ IsRow(c, z) /\ IsRow(d, 8) /\ IsRow(r, total)
  BY DEF IsRow, PaddedTo
<1>5. /\ \A k \in 1..length : a[k] = Data(k - 1)
      /\ b[1] = One
      /\ \A k \in 1..z : c[k] = Zero
      /\ \A k \in 1..8 : d[k] = LengthByte(k - 1)
      /\ \A k \in 1..total : r[k] = IF k <= length THEN Data(k - 1) ELSE IF k = length + 1 THEN One
                                    ELSE IF k <= total - 8 THEN Zero ELSE LengthByte((k - 1) % 8)
  BY DEF PaddedTo
<1> HIDE DEF z, a, b, c, d, r
<1>6. IsJoined(a \o b, a, length, b, 1)
  <2>1. 1 \in Nat
    OBVIOUS
  <2> QED
    BY <1>4, <2>1, RowsJoined
<1>7. IsJoined((a \o b) \o c, a \o b, length + 1, c, z)
  <2>1. length + 1 \in Nat /\ IsRow(a \o b, length + 1)
    BY <1>6 DEF IsJoined
  <2> QED
    BY <1>1, <1>4, <2>1, RowsJoined
<1>8. IsJoined(((a \o b) \o c) \o d, (a \o b) \o c, length + 1 + z, d, 8)
  <2>1. length + 1 + z \in Nat /\ 8 \in Nat
    BY <1>1
  <2>2. IsRow((a \o b) \o c, length + 1 + z)
    BY <1>7 DEF IsJoined
  <2> QED
    BY <1>4, <2>1, <2>2, RowsJoined
<1>9. PICK ab : ab = a \o b
  OBVIOUS
<1>10. PICK abc : abc = (a \o b) \o c
  OBVIOUS
<1>11. PICK s : s = ((a \o b) \o c) \o d
  OBVIOUS
<1>12. /\ \A k \in 1..(length + 1) : ab[k] = IF k <= length THEN a[k] ELSE b[k - length]
       /\ \A k \in 1..(length + 1 + z) : abc[k] = IF k <= length + 1 THEN ab[k] ELSE c[k - (length + 1)]
       /\ \A k \in 1..(length + 1 + z + 8) :
            s[k] = IF k <= length + 1 + z THEN abc[k] ELSE d[k - (length + 1 + z)]
       /\ IsRow(s, total)
  BY <1>1, <1>6, <1>7, <1>8, <1>9, <1>10, <1>11 DEF IsJoined
<1>13. ASSUME NEW k \in 1..total PROVE s[k] = r[k]
  <2>1. r[k] = IF k <= length THEN Data(k - 1) ELSE IF k = length + 1 THEN One
               ELSE IF k <= total - 8 THEN Zero ELSE LengthByte((k - 1) % 8)
    BY <1>5
  <2>2. CASE k <= length
    <3>1. k \in 1..length /\ k \in 1..(length + 1) /\ k \in 1..(length + 1 + z) /\ k <= length + 1
          /\ k <= length + 1 + z /\ k \in 1..(length + 1 + z + 8)
      BY <1>1, <2>2
    <3>2. s[k] = abc[k] /\ abc[k] = ab[k] /\ ab[k] = a[k] /\ a[k] = Data(k - 1)
      BY <1>5, <1>12, <2>2, <3>1
    <3> QED
      BY <2>1, <2>2, <3>2
  <2>3. CASE k = length + 1
    <3>1. k \in 1..(length + 1) /\ k \in 1..(length + 1 + z) /\ k <= length + 1 /\ ~ (k <= length)
          /\ k <= length + 1 + z /\ k \in 1..(length + 1 + z + 8) /\ k - length = 1
      BY <1>1, <2>3
    <3>2. s[k] = abc[k] /\ abc[k] = ab[k] /\ ab[k] = b[1] /\ b[1] = One
      BY <1>5, <1>12, <3>1
    <3> QED
      BY <2>1, <2>3, <3>1, <3>2
  <2>4. CASE length + 1 < k /\ k <= total - 8
    <3>1. k - (length + 1) \in 1..z /\ k \in 1..(length + 1 + z) /\ ~ (k <= length + 1) /\ ~ (k <= length)
          /\ k <= length + 1 + z /\ k \in 1..(length + 1 + z + 8) /\ k # length + 1
      BY <1>1, <2>4
    <3>2. s[k] = abc[k] /\ abc[k] = c[k - (length + 1)] /\ c[k - (length + 1)] = Zero
      BY <1>5, <1>12, <3>1
    <3> QED
      BY <2>1, <2>4, <3>1, <3>2
  <2>5. CASE total - 8 < k
    <3>1. k - (length + 1 + z) \in 1..8 /\ ~ (k <= length + 1 + z) /\ k \in 1..(length + 1 + z + 8)
          /\ ~ (k <= length) /\ k # length + 1 /\ ~ (k <= total - 8)
      BY <1>1, <2>5
    <3>2. s[k] = d[k - (length + 1 + z)] /\ d[k - (length + 1 + z)] = LengthByte(k - (length + 1 + z) - 1)
      BY <1>5, <1>12, <3>1
    <3>3. k - (length + 1 + z) - 1 = (k - 1) % 8
      <4>1. total % 8 = 0
        OBVIOUS
      <4>2. k - (length + 1 + z) - 1 = k - 1 - (total - 8) /\ k - 1 - (total - 8) \in 0..7
        BY <1>1, <3>1
      <4> QED
        BY <4>1, <4>2
    <3> QED
      BY <2>1, <3>1, <3>2, <3>3
  <2> QED
    BY <2>2, <2>3, <2>4, <2>5
<1>14. s = r
  BY <1>4, <1>12, <1>13, SameRow
<1> QED
  BY <1>3, <1>11, <1>14 DEF r

(* What a block behind the others makes of a row.                          *)
LEMMA BlockBehind ==
  ASSUME NEW s, NEW p \in Nat, NEW b, NEW r, IsRow(s, p), IsRow(b, 64), IsRow(r, p + 64),
         \A k \in 1..p : r[k] = s[k], \A k \in 1..64 : r[p + k] = b[k]
  PROVE  s \o b = r
<1>1. 64 \in Nat
  OBVIOUS
<1>2. IsJoined(s \o b, s, p, b, 64)
  BY <1>1, RowsJoined
<1>3. PICK j : j = s \o b
  OBVIOUS
<1>4. IsRow(j, p + 64) /\ \A k \in 1..(p + 64) : j[k] = IF k <= p THEN s[k] ELSE b[k - p]
  BY <1>2, <1>3 DEF IsJoined
<1>5. ASSUME NEW k \in 1..(p + 64) PROVE j[k] = r[k]
  <2>1. CASE k <= p
    <3>1. k \in 1..p
      BY <2>1
    <3> QED
      BY <1>4, <2>1, <3>1
  <2>2. CASE ~ (k <= p)
    <3>1. k - p \in 1..64 /\ p + (k - p) = k
      BY <2>2
    <3> QED
      BY <1>4, <2>2, <3>1
  <2> QED
    BY <2>1, <2>2
<1>6. j = r
  BY <1>4, <1>5, SameRow
<1> QED
  BY <1>3, <1>6

(* Where the length begins, behind the byte 1: there is room for it in the *)
(* block, or the block is full.                                            *)
LEMMA WordFull ==
  ASSUME NEW j \in 0..63, NEW l, l = j + 8 - (j % 8)
  PROVE  l \in Nat /\ l % 8 = 0 /\ j < l /\ l <= j + 8 /\ l <= 64 /\ (l <= 56 \/ l = 64)
<1>1. PICK w \in 0..7, b \in 0..7 : j = 8 * w + b
  <2>1. j \div 8 \in 0..7 /\ j % 8 \in 0..7 /\ j = 8 * (j \div 8) + (j % 8)
    OBVIOUS
  <2> QED
    BY <2>1
<1>2. j % 8 = b
  BY <1>1
<1>3. l = 8 * (w + 1)
  BY <1>1, <1>2
<1>4. (8 * (w + 1)) % 8 = 0
  OBVIOUS
<1> QED
  BY <1>1, <1>3, <1>4

(* The block after Mark, from its beginning to where the length begins.    *)
IsFilled(layout, t, u, j, l) ==
  \A i \in 0..63 : i < l => ByteAt(layout, t, i) = IF i < j THEN Data(u + i) ELSE IF i = j THEN One ELSE Zero

(* The locals after Rest and Mark.                                         *)
IsMarkedRest(layout, u, seen, j, st) ==
  \E t : st = Locals(u, t, j + 8 - (j % 8), seen) /\ IsFilled(layout, t, u, j, j + 8 - (j % 8))

(* The rest of the message, the byte 1 and the zeros behind it fill the    *)
(* block up to the end of a word.                                          *)
LEMMA MarkedIs ==
  ASSUME NEW layout, NEW u, NEW temp, NEW seen, NEW j \in 0..63, NEW st, st = Locals(u, temp, 0, seen)
  PROVE  IsMarkedRest(layout, u, seen, j, Mark(Rest(st, layout, j), layout))
<1>1. PICK s : /\ Rest(st, layout, j) = Locals(u, s, j, seen)
               /\ \A i \in 0..63 : i < j => ByteAt(layout, s, i) = Data(u + i)
  <2>1. j \in Nat
    OBVIOUS
  <2>2. IsRest(layout, u, seen, j, Rest(st, layout, j))
    BY <2>1, RestIs
  <2> QED
    BY <2>2 DEF IsRest
<1>2. PICK l : l = j + 8 - (j % 8)
  OBVIOUS
<1>3. PICK t : Mark(Rest(st, layout, j), layout) = Locals(u, t, l, seen) /\ IsMarked(layout, t, s, j)
  <2>1. IsMark(layout, u, s, seen, j, Mark(Rest(st, layout, j), layout))
    BY <1>1, MarkIs
  <2> QED
    BY <1>2, <2>1 DEF IsMark
<1>4. ASSUME NEW i \in 0..63, i < l
      PROVE  ByteAt(layout, t, i) = IF i < j THEN Data(u + i) ELSE IF i = j THEN One ELSE Zero
  <2>1. ByteAt(layout, t, i) =
          IF i = j THEN One ELSE IF j < i /\ i < l THEN Zero ELSE ByteAt(layout, s, i)
    BY <1>2, <1>3 DEF IsMarked
  <2>2. CASE i < j
    BY <1>1, <2>1, <2>2
  <2>3. CASE i = j
    BY <2>1, <2>3
  <2>4. CASE j < i
    BY <1>4, <2>1, <2>4
  <2> QED
    BY <2>2, <2>3, <2>4
<1> QED
  BY <1>2, <1>3, <1>4 DEF IsFilled, IsMarkedRest

(* What was seen in the end is a padded message of u + n bytes.            *)
IsPadded(st, layout, u, j, n) ==
  (Finish(Spill(st, layout), layout)).seen = PaddedTo(u + j, u + n)

(* If there is room for the length, the message ends with this block.      *)
LEMMA RoomLeft ==
  ASSUME NEW layout, NEW u \in Nat, NEW t, NEW j \in 0..63, NEW l \in Nat, NEW st,
         u % 64 = 0, l % 8 = 0, j < l, l <= 56,
         IsFilled(layout, t, u, j, l), st = Locals(u, t, l, DataUpTo(u))
  PROVE  IsPadded(st, layout, u, j, 64)
<1> DEFINE b == LastRow(layout, t, l)
           s == DataUpTo(u)
           r == PaddedTo(u + j, u + 64)
<1>1. Spill(st, layout) = st
  <2>1. l <= 64
    OBVIOUS
  <2> QED
    BY <2>1, SpillIs
<1>2. (Finish(st, layout)).seen = s \o b
  <2>1. IsFinished(layout, t, s, l, st)
    BY FinishIs
  <2> QED
    BY <2>1 DEF IsFinished
<1>3. /\ \A k \in 1..u : s[k] = Data(k - 1)
      /\ \A k \in 1..64 : b[k] = IF k <= l THEN ByteAt(layout, t, k - 1)
                                 ELSE IF k <= 56 THEN Zero ELSE LengthByte((k - 1) % 8)
      /\ \A k \in 1..(u + 64) :
           r[k] = IF k <= u + j THEN Data(k - 1) ELSE IF k = u + j + 1 THEN One
                  ELSE IF k <= u + 64 - 8 THEN Zero ELSE LengthByte((k - 1) % 8)
  BY DEF DataUpTo, PaddedTo, LastRow
<1>4. IsRow(s, u) /\ IsRow(b, 64) /\ IsRow(r, u + 64)
  BY DEF IsRow, DataUpTo, PaddedTo, LastRow
<1> HIDE DEF b, s, r
<1>5. ASSUME NEW k \in 1..u PROVE r[k] = s[k]
  <2>1. k \in 1..(u + 64) /\ k <= u + j
    OBVIOUS
  <2> QED
    BY <1>3, <2>1
<1>6. ASSUME NEW k \in 1..64 PROVE r[u + k] = b[k]
  <2>1. u + k \in 1..(u + 64) /\ k - 1 \in 0..63 /\ u + (k - 1) = u + k - 1
    OBVIOUS
  <2>2. (u + k - 1) % 8 = (k - 1) % 8
    OBVIOUS
  <2>3. r[u + k] = IF u + k <= u + j THEN Data(u + k - 1) ELSE IF u + k = u + j + 1 THEN One
                   ELSE IF u + k <= u + 64 - 8 THEN Zero ELSE LengthByte((u + k - 1) % 8)
    BY <1>3, <2>1
  <2>4. CASE k <= l
    <3>1. b[k] = ByteAt(layout, t, k - 1)
      BY <1>3, <2>4
    <3>2. k - 1 < l
      BY <2>4
    <3>3. ByteAt(layout, t, k - 1)
            = IF k - 1 < j THEN Data(u + (k - 1)) ELSE IF k - 1 = j THEN One ELSE Zero
      BY <2>1, <3>2 DEF IsFilled
    <3>4. /\ u + k <= u + j <=> k - 1 < j
          /\ u + k = u + j + 1 <=> k - 1 = j
          /\ u + k <= u + 64 - 8
      BY <2>4
    <3> QED
      BY <2>1, <2>3, <3>1, <3>3, <3>4
  <2>5. CASE ~ (k <= l)
    <3>1. b[k] = IF k <= 56 THEN Zero ELSE LengthByte((k - 1) % 8)
      BY <1>3, <2>5
    <3>2. /\ ~ (u + k <= u + j) /\ u + k # u + j + 1
          /\ u + k <= u + 64 - 8 <=> k <= 56
      BY <2>5
    <3> QED
      BY <2>2, <2>3, <3>1, <3>2
  <2> QED
    BY <2>4, <2>5
<1>7. s \o b = r
  BY <1>4, <1>5, <1>6, BlockBehind
<1> QED
  BY <1>1, <1>2, <1>7 DEF r, IsPadded

(* A full block takes one more block for the length.                       *)
LEMMA RoomLacking ==
  ASSUME NEW layout, NEW u \in Nat, NEW t, NEW j \in 0..63, NEW st, u % 64 = 0, 56 <= j,
         IsFilled(layout, t, u, j, 64), st = Locals(u, t, 64, DataUpTo(u))
  PROVE  IsPadded(st, layout, u, j, 128)
<1> DEFINE s == DataUpTo(u)
           b == Block(layout, t)
           r == PaddedTo(u + j, u + 128)
           q == [k \in 1..(u + 64) |-> r[k]]
<1>1. PICK left : Spill(st, layout) = Locals(u, left, 0, s \o b)
  <2>1. 64 \in Nat /\ 64 % 8 = 0 /\ 64 <= 64
    OBVIOUS
  <2> QED
    BY <2>1, SpillIs
<1> DEFINE c == LastRow(layout, left, 0)
<1>2. (Finish(Spill(st, layout), layout)).seen = (s \o b) \o c
  <2>1. 0 \in Nat /\ 0 % 8 = 0 /\ 0 <= 56
    OBVIOUS
  <2>2. IsFinished(layout, left, s \o b, 0, Spill(st, layout))
    BY <1>1, <2>1, FinishIs
  <2> QED
    BY <2>2 DEF IsFinished
<1>3. /\ \A k \in 1..u : s[k] = Data(k - 1)
      /\ \A k \in 1..64 : b[k] = ByteAt(layout, t, k - 1)
      /\ \A k \in 1..64 : c[k] = IF k <= 56 THEN Zero ELSE LengthByte((k - 1) % 8)
      /\ \A k \in 1..(u + 128) :
           r[k] = IF k <= u + j THEN Data(k - 1) ELSE IF k = u + j + 1 THEN One
                  ELSE IF k <= u + 128 - 8 THEN Zero ELSE LengthByte((k - 1) % 8)
      /\ \A k \in 1..(u + 64) : q[k] = r[k]
  BY DEF DataUpTo, PaddedTo, LastRow, Block, ByteAt
<1>4. IsRow(s, u) /\ IsRow(b, 64) /\ IsRow(c, 64) /\ IsRow(r, u + 128) /\ IsRow(q, u + 64)
  BY DEF IsRow, DataUpTo, PaddedTo, LastRow, Block
<1> HIDE DEF s, b, r, q, c
<1>5. s \o b = q
  <2>1. ASSUME NEW k \in 1..u PROVE q[k] = s[k]
    <3>1. k \in 1..(u + 64) /\ k \in 1..(u + 128) /\ k <= u + j
      OBVIOUS
    <3> QED
      BY <1>3, <3>1
  <2>2. ASSUME NEW k \in 1..64 PROVE q[u + k] = b[k]
    <3>1. u + k \in 1..(u + 64) /\ u + k \in 1..(u + 128) /\ k - 1 \in 0..63 /\ u + (k - 1) = u + k - 1
          /\ k - 1 < 64
      OBVIOUS
    <3>2. q[u + k] = IF u + k <= u + j THEN Data(u + k - 1) ELSE IF u + k = u + j + 1 THEN One
                     ELSE IF u + k <= u + 128 - 8 THEN Zero ELSE LengthByte((u + k - 1) % 8)
      BY <1>3, <3>1
    <3>3. ByteAt(layout, t, k - 1)
            = IF k - 1 < j THEN Data(u + (k - 1)) ELSE IF k - 1 = j THEN One ELSE Zero
      BY <3>1 DEF IsFilled
    <3>4. /\ u + k <= u + j <=> k - 1 < j
          /\ u + k = u + j + 1 <=> k - 1 = j
          /\ u + k <= u + 128 - 8
      OBVIOUS
    <3>5. b[k] = ByteAt(layout, t, k - 1)
      BY <1>3
    <3> QED
      BY <3>1, <3>2, <3>3, <3>4, <3>5
  <2> QED
    BY <1>4, <2>1, <2>2, BlockBehind
<1>6. q \o c = r
  <2>1. PICK v \in Nat : v = u + 64
    OBVIOUS
  <2>2. ASSUME NEW k \in 1..v PROVE r[k] = q[k]
    BY <1>3, <2>1
  <2>3. ASSUME NEW k \in 1..64 PROVE r[v + k] = c[k]
    <3>1. v + k \in 1..(u + 128)
      BY <2>1
    <3>2. (v + k - 1) % 8 = (k - 1) % 8
      BY <2>1
    <3>3. r[v + k]
            = IF v + k <= u + j THEN Data(v + k - 1) ELSE IF v + k = u + j + 1 THEN One
              ELSE IF v + k <= u + 128 - 8 THEN Zero ELSE LengthByte((v + k - 1) % 8)
      BY <1>3, <3>1
    <3>4. /\ ~ (v + k <= u + j) /\ v + k # u + j + 1
          /\ v + k <= u + 128 - 8 <=> k <= 56
      BY <2>1
    <3> QED
      BY <1>3, <3>2, <3>3, <3>4
  <2>4. IsRow(q, v) /\ IsRow(r, v + 64)
    BY <1>4, <2>1
  <2>5. IsRow(c, 64)
    BY <1>4
  <2>6. \A k \in 1..v : r[k] = q[k]
    BY <2>2
  <2>7. \A k \in 1..64 : r[v + k] = c[k]
    BY <2>3
  <2> QED
    BY <2>4, <2>5, <2>6, <2>7, BlockBehind
<1> QED
  BY <1>2, <1>5, <1>6 DEF r, IsPadded

(* What the compression sees of a message of any length, in any layout, is *)
(* the padded message.                                                     *)
LEMMA InputPadded ==
  ASSUME NEW length \in Nat, NEW layout
  PROVE  TigerInput(length, layout) = Padded(length)
<1>1. PICK n \in Nat, j \in 0..63 : n = length \div 64 /\ j = length % 64 /\ length = 64 * n + j
  <2>1. length \div 64 \in Nat /\ length % 64 \in 0..63 /\ length = 64 * (length \div 64) + (length % 64)
    OBVIOUS
  <2> QED
    BY <2>1
<1>2. PICK u \in Nat : u = 64 * n /\ u % 64 = 0
  <2>1. 64 * n \in Nat /\ (64 * n) % 64 = 0
    OBVIOUS
  <2> QED
    BY <2>1
<1>3. PICK l : l = j + 8 - (j % 8)
  OBVIOUS
<1>4. PICK w : w = BlockTurns(layout, n)[n]
  OBVIOUS
<1>5. PICK temp : w = Locals(u, temp, 0, DataUpTo(u))
  BY <1>2, <1>4, BlocksSeen
<1>6. PICK m : m = Mark(Rest(w, layout, j), layout)
  OBVIOUS
<1>7. PICK t : m = Locals(u, t, l, DataUpTo(u)) /\ IsFilled(layout, t, u, j, l)
  <2>1. IsMarkedRest(layout, u, DataUpTo(u), j, Mark(Rest(w, layout, j), layout))
    BY <1>5, MarkedIs
  <2> QED
    BY <1>3, <1>6, <2>1 DEF IsMarkedRest
<1>8. TigerInput(length, layout) = (Finish(Spill(m, layout), layout)).seen
  <2>1. BlockSize = 64
    BY DEF BlockSize, WordSize
  <2>2. WholeBlocks(layout, length) = w
    BY <1>1, <1>4, <2>1 DEF WholeBlocks
  <2> QED
    BY <1>1, <1>6, <2>1, <2>2, Zenon DEF TigerInput
<1>9. l \in Nat /\ l % 8 = 0 /\ j < l /\ l <= j + 8 /\ l <= 64 /\ (l <= 56 \/ l = 64)
  BY <1>3, WordFull
<1>10. CASE l <= 56
  <2>1. (Finish(Spill(m, layout), layout)).seen = PaddedTo(u + j, u + 64)
    <3>1. u % 64 = 0 /\ l \in Nat /\ l % 8 = 0 /\ j < l /\ l <= 56
      BY <1>2, <1>9, <1>10
    <3>2. IsFilled(layout, t, u, j, l) /\ m = Locals(u, t, l, DataUpTo(u))
      BY <1>7
    <3>3. IsPadded(m, layout, u, j, 64)
      BY <3>1, <3>2, RoomLeft
    <3> QED
      BY <3>3 DEF IsPadded
  <2>2. u + 64 \in Nat /\ (u + 64) % 64 = 0 /\ length + 9 <= u + 64 /\ u + 64 < length + 73
    BY <1>1, <1>2, <1>9, <1>10
  <2>3. Padded(length) = PaddedTo(length, u + 64)
    BY <2>2, PaddedIs
  <2> QED
    BY <1>1, <1>2, <1>8, <2>1, <2>3
<1>11. CASE l = 64
  <2>1. 56 <= j
    BY <1>9, <1>11
  <2>2. (Finish(Spill(m, layout), layout)).seen = PaddedTo(u + j, u + 128)
    <3>1. IsPadded(m, layout, u, j, 128)
      BY <1>2, <1>7, <1>11, <2>1, RoomLacking
    <3> QED
      BY <3>1 DEF IsPadded
  <2>3. u + 128 \in Nat /\ (u + 128) % 64 = 0 /\ length + 9 <= u + 128 /\ u + 128 < length + 73
    BY <1>1, <1>2, <2>1
  <2>4. Padded(length) = PaddedTo(length, u + 128)
    BY <2>3, PaddedIs
  <2> QED
    BY <1>1, <1>2, <1>8, <2>2, <2>4
<1> QED
  BY <1>9, <1>10, <1>11

(* Of a message of any length, and in each layout, the compression sees    *)
(* the message, the byte 1, the fewest zeros that there can be and the     *)
(* length (SeesPadded): nothing of an earlier block that was left in the   *)
(* local union.                                                            *)
THEOREM MessagePadded == Spec => []SeesPadded
<1>1. FormatsInv => SeesPadded
  <2> SUFFICES ASSUME FormatsInv, job.kind = "tiger", pc = "done"
               PROVE  back = Padded(job.length)
    BY DEF SeesPadded
  <2>1. job.length \in Nat
    <3>1. job \in TigerJobs
      BY JobsKnown DEF FormatsInv
    <3> QED
      BY <3>1 DEF TigerJobs
  <2>2. back = TigerInput(job.length, job.layout)
    BY DEF FormatsInv, Parsed
  <2> QED
    BY <2>1, <2>2, InputPadded
<1> QED
  BY <1>1, FormatsKnown, PTL

-----------------------------------------------------------------------------
(* compat_memmem.                                                          *)

(* A set of numbers that is not empty has a least one.                     *)
LEMMA LeastOf ==
  ASSUME NEW B \in SUBSET Nat, B # {}
  PROVE  Min(B) \in B /\ \A x \in B : Min(B) <= x
<1>1. PICK x \in B : \A y \in B : ~ (<<y, x>> \in OpToRel(<, Nat))
  BY WFMin, NatLessThanWellFounded
<1>2. \A y \in B : x <= y
  <2>1. \A y \in B : ~ (y < x)
    BY <1>1 DEF OpToRel
  <2> QED
    BY <2>1
<1>3. \E i \in B : \A y \in B : i <= y
  BY <1>2
<1> QED
  BY <1>3, Zenon DEF Min

(* A table of the first n turns.                                           *)
MemmemUpTo(g, memory, size, pattern, n) ==
  g = [k \in 0..n |-> IF k = 0 THEN [start |-> 1, done |-> FALSE, at |-> 0]
                      ELSE MemmemTurn(g[k - 1], memory, size, pattern)]

(* There is such a table for any number of turns.                          *)
LEMMA MemmemExist ==
  ASSUME NEW memory, NEW size, NEW pattern
  PROVE  \A n \in Nat : \E g : MemmemUpTo(g, memory, size, pattern, n)
<1> DEFINE First == [start |-> 1, done |-> FALSE, at |-> 0]
           S == {n \in Nat : \E g : MemmemUpTo(g, memory, size, pattern, n)}
<1> HIDE DEF First
<1>1. 0 \in S
  <2>1. MemmemUpTo([k \in 0..0 |-> First], memory, size, pattern, 0)
    BY DEF MemmemUpTo, First
  <2> QED
    BY <2>1
<1>2. ASSUME NEW n \in Nat, n \in S PROVE n + 1 \in S
  <2>1. PICK g : MemmemUpTo(g, memory, size, pattern, n)
    BY <1>2
  <2>2. g = [k \in 0..n |-> IF k = 0 THEN First ELSE MemmemTurn(g[k - 1], memory, size, pattern)]
    BY <2>1 DEF MemmemUpTo, First
  <2> DEFINE h == [k \in 0..(n + 1) |-> IF k = 0 THEN First ELSE MemmemTurn(g[k - 1], memory, size, pattern)]
  <2>3. \A k \in 0..n : h[k] = g[k]
    BY <2>2
  <2>4. h = [k \in 0..(n + 1) |-> IF k = 0 THEN First ELSE MemmemTurn(h[k - 1], memory, size, pattern)]
    <3>1. \A k \in 0..(n + 1) : k # 0 => k - 1 \in 0..n
      OBVIOUS
    <3> QED
      BY <2>3, <3>1
  <2> HIDE DEF h
  <2>5. MemmemUpTo(h, memory, size, pattern, n + 1)
    BY <2>4 DEF MemmemUpTo, First
  <2> QED
    BY <2>5
<1> HIDE DEF S
<1>3. Nat \subseteq S
  BY <1>1, <1>2, SetInduction
<1> QED
  BY <1>3 DEF S

(* So the recursive function of the turns is what its equations say.       *)
LEMMA MemmemTurnsAre ==
  ASSUME NEW memory, NEW size \in Nat, NEW pattern
  PROVE  /\ MemmemTurns(memory, size, pattern)[0] = [start |-> 1, done |-> FALSE, at |-> 0]
         /\ \A k \in 1..(size + 1) :
              MemmemTurns(memory, size, pattern)[k]
                = MemmemTurn(MemmemTurns(memory, size, pattern)[k - 1], memory, size, pattern)
<1> DEFINE t == MemmemTurns(memory, size, pattern)
<1>1. \E g : MemmemUpTo(g, memory, size, pattern, size + 1)
  <2>1. size + 1 \in Nat
    OBVIOUS
  <2> QED
    BY <2>1, MemmemExist
<1>2. MemmemUpTo(t, memory, size, pattern, size + 1)
  BY <1>1 DEF MemmemUpTo, MemmemTurns
<1> HIDE DEF t
<1>3. 0 \in 0..(size + 1) /\ \A k \in 1..(size + 1) : k \in 0..(size + 1) /\ k # 0
  OBVIOUS
<1>4. /\ t[0] = [start |-> 1, done |-> FALSE, at |-> 0]
      /\ \A k \in 1..(size + 1) : t[k] = MemmemTurn(t[k - 1], memory, size, pattern)
  BY <1>2, <1>3 DEF MemmemUpTo
<1> QED
  BY <1>4 DEF t

(* The pattern is in memory at p.                                          *)
PatternAt(memory, pattern, p) == SubSeq(memory, p, p + Len(pattern) - 1) = pattern

(* What the locals say of the part that was searched.                      *)
Searched(st, memory, size, pattern, k) ==
  /\ st \in [start : 1..(size + 1), done : BOOLEAN, at : 0..size]
  /\ ~ st.done => st.start > k /\ st.at = 0 /\ \A p \in 1..(st.start - 1) : ~ PatternAt(memory, pattern, p)
  /\ st.done /\ st.at = 0 => \A p \in 1..(size - Len(pattern) + 1) : ~ PatternAt(memory, pattern, p)
  /\ st.at # 0 => PatternAt(memory, pattern, st.at) /\ \A p \in 1..(st.at - 1) : ~ PatternAt(memory, pattern, p)

(* The first element of what is at p.                                      *)
LEMMA FirstAt ==
  ASSUME NEW memory, NEW pattern, NEW p \in Nat, Len(pattern) \in Nat \ {0}, PatternAt(memory, pattern, p)
  PROVE  memory[p] = pattern[1]
<1>1. PICK l \in Nat \ {0} : l = Len(pattern)
  OBVIOUS
<1>2. SubSeq(memory, p, p + l - 1) = [i \in 1..l |-> memory[i + p - 1]]
  <2>1. 1 + (p + l - 1) - p = l
    OBVIOUS
  <2> QED
    BY <2>1
<1>3. 1 \in 1..l /\ 1 + p - 1 = p
  OBVIOUS
<1>4. [i \in 1..l |-> memory[i + p - 1]][1] = memory[p]
  BY <1>3
<1> QED
  BY <1>1, <1>2, <1>4 DEF PatternAt

(* Searched of a turn that ends the search.                                *)
LEMMA DoneSearched ==
  ASSUME NEW memory, NEW size \in Nat, NEW pattern, NEW k \in Nat, NEW st,
         st \in [start : 1..(size + 1), done : BOOLEAN, at : 0..size], st.done,
         \/ st.at = 0 /\ \A p \in 1..(size - Len(pattern) + 1) : ~ PatternAt(memory, pattern, p)
         \/ st.at # 0 /\ PatternAt(memory, pattern, st.at) /\ \A p \in 1..(st.at - 1) : ~ PatternAt(memory, pattern, p)
  PROVE  Searched(st, memory, size, pattern, k)
<1>1. ~ st.done => st.start > k /\ st.at = 0 /\ \A p \in 1..(st.start - 1) : ~ PatternAt(memory, pattern, p)
  OBVIOUS
<1>2. st.done /\ st.at = 0 => \A p \in 1..(size - Len(pattern) + 1) : ~ PatternAt(memory, pattern, p)
  OBVIOUS
<1>3. st.at # 0 => PatternAt(memory, pattern, st.at) /\ \A p \in 1..(st.at - 1) : ~ PatternAt(memory, pattern, p)
  OBVIOUS
<1> QED
  BY <1>1, <1>2, <1>3, Zenon DEF Searched

(* The same for a turn that went on.                                       *)
LEMMA UndoneSearched ==
  ASSUME NEW memory, NEW size \in Nat, NEW pattern, NEW k \in Nat, NEW st,
         st \in [start : 1..(size + 1), done : BOOLEAN, at : 0..size], ~ st.done,
         st.at = 0, st.start > k, \A p \in 1..(st.start - 1) : ~ PatternAt(memory, pattern, p)
  PROVE  Searched(st, memory, size, pattern, k)
<1>1. ~ st.done => st.start > k /\ st.at = 0 /\ \A p \in 1..(st.start - 1) : ~ PatternAt(memory, pattern, p)
  OBVIOUS
<1>2. ~ (st.done /\ st.at = 0) /\ ~ (st.at # 0)
  OBVIOUS
<1> QED
  BY <1>1, <1>2, Zenon DEF Searched

(* A turn keeps that.                                                      *)
LEMMA TurnSearches ==
  ASSUME NEW memory, NEW size \in Nat, NEW pattern, NEW k \in Nat, Len(pattern) \in Nat \ {0},
         NEW st, Searched(st, memory, size, pattern, k)
  PROVE  Searched(MemmemTurn(st, memory, size, pattern), memory, size, pattern, k + 1)
<1> DEFINE found == From({p \in 1..size : memory[p] = pattern[1]}, st.start)
           l == Len(pattern)
<1>n. PICK next : next = MemmemTurn(st, memory, size, pattern)
  OBVIOUS
<1>m. PICK m \in Nat : m = k + 1
  OBVIOUS
<1> SUFFICES Searched(next, memory, size, pattern, m)
  BY <1>n, <1>m
<1>1. /\ st \in [start : 1..(size + 1), done : BOOLEAN, at : 0..size]
      /\ st.start \in 1..(size + 1) /\ st.done \in BOOLEAN /\ st.at \in 0..size /\ l \in Nat \ {0}
  BY DEF Searched
<1>2. CASE st.done
  <2>1. next = st
    BY <1>n, <1>2 DEF MemmemTurn
  <2> QED
    BY <1>2, <2>1, <1>m DEF Searched
<1>3. ASSUME ~ st.done, NEW p \in 1..size, PatternAt(memory, pattern, p) PROVE p \in found
  <2>1. memory[p] = pattern[1]
    BY <1>3, FirstAt
  <2>2. ~ (p < st.start)
    <3>1. \A q \in 1..(st.start - 1) : ~ PatternAt(memory, pattern, q)
      BY <1>3 DEF Searched
    <3> QED
      BY <1>1, <1>3, <3>1
  <2> QED
    BY <1>1, <2>1, <2>2 DEF From
<1>4. CASE ~ st.done /\ (size - st.start + 1 < l \/ found = {})
  <2>1. next = [st EXCEPT !.done = TRUE]
    BY <1>n, <1>4 DEF MemmemTurn
  <2>2. next.start = st.start /\ next.done = TRUE /\ next.at = 0
        /\ next \in [start : 1..(size + 1), done : BOOLEAN, at : 0..size]
    BY <1>1, <1>4, <2>1 DEF Searched
  <2>3. ASSUME NEW p \in 1..(size - l + 1), PatternAt(memory, pattern, p) PROVE FALSE
    <3>1. p \in 1..size
      BY <1>1
    <3>2. p \in found
      BY <1>3, <1>4, <2>3, <3>1
    <3>3. p >= st.start
      BY <3>2 DEF From
    <3> HIDE DEF found
    <3> QED
      BY <1>1, <1>4, <3>2, <3>3
  <2>4. \A p \in 1..(size - Len(pattern) + 1) : ~ PatternAt(memory, pattern, p)
    BY <2>3
  <2>5. next.done
    BY <2>2
  <2> QED
    BY <2>2, <2>4, <2>5, DoneSearched
<1>5. CASE ~ st.done /\ ~ (size - st.start + 1 < l \/ found = {})
  <2>1. PICK q : q = Min(found)
    OBVIOUS
  <2>2. q \in found /\ \A x \in found : q <= x
    <3>1. found \in SUBSET Nat
      BY DEF From
    <3> HIDE DEF found
    <3> QED
      BY <1>5, <2>1, <3>1, LeastOf
  <2>3. q \in 1..size /\ q >= st.start
    BY <2>2 DEF From
  <2>4. \A p \in 1..(q - 1) : ~ PatternAt(memory, pattern, p)
    <3> SUFFICES ASSUME NEW p \in 1..(q - 1), PatternAt(memory, pattern, p) PROVE FALSE
      OBVIOUS
    <3>1. p \in 1..size
      BY <2>3
    <3>2. p \in found
      BY <1>3, <1>5, <3>1
    <3> HIDE DEF found
    <3> QED
      BY <2>2, <2>3, <3>2
  <2>5. st.start > k /\ st.at = 0
    BY <1>5 DEF Searched
  <2>6. CASE PatternAt(memory, pattern, q)
    <3>1. next = [st EXCEPT !.done = TRUE, !.at = q]
      <4>1. SubSeq(memory, Min(found), Min(found) + Len(pattern) - 1) = pattern
        BY <2>1, <2>6 DEF PatternAt
      <4>2. next = [st EXCEPT !.done = TRUE, !.at = Min(found)]
        BY <1>n, <1>5, <4>1, Zenon DEF MemmemTurn
      <4> QED
        BY <2>1, <4>2
    <3>2. PICK mid : mid = [st EXCEPT !.done = TRUE]
      OBVIOUS
    <3>3. mid \in [start : 1..(size + 1), done : BOOLEAN, at : 0..size] /\ mid.done = TRUE
      BY <1>1, <3>2
    <3>4. next = [mid EXCEPT !.at = q]
      BY <3>1, <3>2, Zenon
    <3>5. next.done = TRUE /\ next.at = q /\ q # 0
          /\ next \in [start : 1..(size + 1), done : BOOLEAN, at : 0..size]
      BY <2>3, <3>3, <3>4
    <3>6. next.done
      BY <3>5
    <3> QED
      BY <2>4, <2>6, <3>5, <3>6, DoneSearched
  <2>7. CASE ~ PatternAt(memory, pattern, q)
    <3>1. next = [st EXCEPT !.start = q + 1]
      <4>1. ~ (SubSeq(memory, Min(found), Min(found) + Len(pattern) - 1) = pattern)
        BY <2>1, <2>7 DEF PatternAt
      <4>2. next = [st EXCEPT !.start = Min(found) + 1]
        BY <1>n, <1>5, <4>1, Zenon DEF MemmemTurn
      <4> QED
        BY <2>1, <4>2
    <3>2. next.start = q + 1 /\ next.done = FALSE /\ next.at = 0
          /\ next \in [start : 1..(size + 1), done : BOOLEAN, at : 0..size]
      BY <1>1, <1>5, <2>3, <2>5, <3>1, SMTT(30)
    <3>3. \A p \in 1..(next.start - 1) : ~ PatternAt(memory, pattern, p)
      BY <2>3, <2>4, <2>7, <3>2
    <3>4. next.start > m
      BY <1>1, <1>m, <2>3, <2>5, <3>2
    <3>5. ~ next.done
      BY <3>2
    <3> QED
      BY <3>2, <3>3, <3>4, <3>5, UndoneSearched
  <2> QED
    BY <2>6, <2>7
<1> QED
  BY <1>1, <1>2, <1>4, <1>5

(* After as many turns as there are bytes, and one, the search is done.    *)
LEMMA MemmemSearched ==
  ASSUME NEW memory, NEW size \in Nat, NEW pattern, Len(pattern) \in Nat \ {0}
  PROVE  LET end == MemmemTurns(memory, size, pattern)[size + 1]
         IN  end.done /\ Searched(end, memory, size, pattern, size + 1)
<1> DEFINE t == MemmemTurns(memory, size, pattern)
           S == {k \in Nat : k <= size + 1 => Searched(t[k], memory, size, pattern, k)}
<1>1. /\ t[0] = [start |-> 1, done |-> FALSE, at |-> 0]
      /\ \A k \in 1..(size + 1) : t[k] = MemmemTurn(t[k - 1], memory, size, pattern)
  BY MemmemTurnsAre
<1> HIDE DEF t
<1>2. 0 \in S
  <2>1. Searched([start |-> 1, done |-> FALSE, at |-> 0], memory, size, pattern, 0)
    BY DEF Searched
  <2> QED
    BY <1>1, <2>1
<1>3. ASSUME NEW k \in Nat, k \in S PROVE k + 1 \in S
  <2> SUFFICES ASSUME k + 1 <= size + 1 PROVE Searched(t[k + 1], memory, size, pattern, k + 1)
    OBVIOUS
  <2>1. k + 1 \in 1..(size + 1) /\ (k + 1) - 1 = k
    OBVIOUS
  <2>2. t[k + 1] = MemmemTurn(t[k], memory, size, pattern)
    BY <1>1, <2>1
  <2>3. Searched(t[k], memory, size, pattern, k)
    BY <1>3
  <2> QED
    BY <2>2, <2>3, TurnSearches
<1> HIDE DEF S
<1>4. size + 1 \in S
  BY <1>2, <1>3, SetInduction
<1>5. Searched(t[size + 1], memory, size, pattern, size + 1)
  BY <1>4 DEF S
<1>6. t[size + 1].done
  BY <1>5 DEF Searched
<1> QED
  BY <1>5, <1>6 DEF t

(* What is in the data is in the memory that begins with it.               *)
LEMMA InMemory ==
  ASSUME NEW D, NEW data \in Seq(D), NEW behind \in Seq(D), NEW pattern, Len(pattern) \in Nat \ {0},
         NEW p \in 1..(Len(data) - Len(pattern) + 1)
  PROVE  SubSeq(data, p, p + Len(pattern) - 1) = pattern <=> PatternAt(data \o behind, pattern, p)
<1>1. PICK l \in Nat \ {0} : l = Len(pattern)
  OBVIOUS
<1>2. PICK n \in Nat : n = Len(data)
  OBVIOUS
<1>3. PICK memory : memory = data \o behind
  OBVIOUS
<1>4. \A i \in 1..n : memory[i] = data[i]
  BY <1>2, <1>3
<1>5. 1 + (p + l - 1) - p = l /\ p \in Nat /\ \A i \in 1..l : i + p - 1 \in 1..n
  BY <1>1, <1>2
<1>6. SubSeq(data, p, p + l - 1) = [i \in 1..l |-> data[i + p - 1]]
  BY <1>5
<1>7. SubSeq(memory, p, p + l - 1) = [i \in 1..l |-> memory[i + p - 1]]
  BY <1>5
<1>8. [i \in 1..l |-> data[i + p - 1]] = [i \in 1..l |-> memory[i + p - 1]]
  BY <1>4, <1>5
<1>9. SubSeq(data, p, p + l - 1) = SubSeq(memory, p, p + l - 1)
  BY <1>6, <1>7, <1>8, Zenon
<1> QED
  BY <1>1, <1>3, <1>9 DEF PatternAt

(* The first place of the pattern in the data, or, if there is none, a     *)
(* place where it begins in the data, or NULL.                             *)
FirstPlace(at, data, behind, pattern) ==
  LET len == Len(pattern)
      memory == data \o behind
      inside == {p \in 1..(Len(data) - len + 1) : SubSeq(data, p, p + len - 1) = pattern}
  IN  IF len = 0 THEN at = 1
      ELSE IF inside # {} THEN at = Min(inside)
      ELSE at = 0 \/ (at \in 1..Len(data) /\ SubSeq(memory, at, at + len - 1) = pattern)

(* That is what compat_memmem returns.                                     *)
LEMMA FoundFirst ==
  ASSUME NEW D, NEW data \in Seq(D), NEW behind \in Seq(D), NEW pattern \in Seq(D)
  PROVE  FirstPlace(Memmem(data \o behind, Len(data), pattern), data, behind, pattern)
<1> DEFINE len == Len(pattern)
           memory == data \o behind
           at == Memmem(memory, Len(data), pattern)
           inside == {p \in 1..(Len(data) - len + 1) : SubSeq(data, p, p + len - 1) = pattern}
           end == MemmemTurns(memory, Len(data), pattern)[Len(data) + 1]
<1>1. CASE len = 0
  <2>1. pattern = <<>>
    BY <1>1
  <2> QED
    BY <1>1, <2>1 DEF Memmem, FirstPlace
<1>2. CASE len # 0
  <2>1. len \in Nat \ {0} /\ pattern # <<>> /\ Len(data) \in Nat
    BY <1>2
  <2>2. at = end.at
    BY <2>1, Zenon DEF Memmem
  <2>3. end.done /\ Searched(end, memory, Len(data), pattern, Len(data) + 1)
    <3> HIDE DEF memory
    <3> QED
      BY <2>1, MemmemSearched
  <2>4. \A p \in 1..(Len(data) - len + 1) :
          SubSeq(data, p, p + len - 1) = pattern <=> PatternAt(memory, pattern, p)
    BY <2>1, InMemory
  <2> HIDE DEF end, at, memory
  <2>5. at \in 0..Len(data)
    BY <2>2, <2>3 DEF Searched
  <2>6. CASE at = 0
    <3>1. inside = {}
      BY <2>2, <2>3, <2>4, <2>6 DEF Searched
    <3> HIDE DEF inside
    <3> QED
      BY <1>2, <2>6, <3>1 DEF at, memory, inside, FirstPlace
  <2>7. CASE at # 0
    <3>1. PatternAt(memory, pattern, at) /\ \A p \in 1..(at - 1) : ~ PatternAt(memory, pattern, p)
      BY <2>2, <2>3, <2>7 DEF Searched
    <3>2. ASSUME inside # {} PROVE at = Min(inside)
      <4>1. PICK m : m = Min(inside)
        OBVIOUS
      <4>2. m \in inside /\ \A x \in inside : m <= x
        <5>1. inside \in SUBSET Nat
          OBVIOUS
        <5> HIDE DEF inside
        <5> QED
          BY <3>2, <4>1, <5>1, LeastOf
      <4>3. m \in 1..(Len(data) - len + 1) /\ PatternAt(memory, pattern, m)
        BY <2>4, <4>2
      <4>4. ~ (m < at)
        BY <2>1, <2>5, <3>1, <4>3
      <4>5. at \in 1..(Len(data) - len + 1)
        BY <2>1, <2>5, <2>7, <4>3, <4>4
      <4>6. at \in inside
        BY <2>4, <3>1, <4>5
      <4>7. m <= at
        <5> HIDE DEF inside
        <5> QED
          BY <4>2, <4>6
      <4> QED
        BY <2>1, <2>5, <4>1, <4>3, <4>4, <4>7
    <3>3. at \in 1..Len(data) /\ SubSeq(memory, at, at + len - 1) = pattern
      BY <2>1, <2>5, <2>7, <3>1 DEF PatternAt
    <3> HIDE DEF inside
    <3> QED
      BY <1>2, <3>2, <3>3 DEF at, memory, inside, FirstPlace
  <2> QED
    BY <2>6, <2>7
<1> QED
  BY <1>1, <1>2

-----------------------------------------------------------------------------
(* prime_up.                                                               *)

(* Multiples and what they leave.                                          *)
LEMMA ProductMod ==
  ASSUME NEW p \in Nat \ {0}, NEW q \in Nat
  PROVE  (p * q) % p = 0
<1>1. PICK x \in Nat : x = p * q
  OBVIOUS
<1>2. x = p * (x \div p) + (x % p) /\ x % p \in 0..(p - 1) /\ x \div p \in Nat
  OBVIOUS
<1>3. PICK d \in Nat, r \in 0..(p - 1) : d = x \div p /\ r = x % p /\ p * q = p * d + r
  BY <1>1, <1>2
<1>4. CASE d >= q + 1
  <2>1. p * d >= p * (q + 1)
    BY <1>4
  <2>2. p * (q + 1) = p * q + p
    OBVIOUS
  <2> QED
    BY <1>3, <2>1, <2>2
<1>5. CASE d + 1 <= q
  <2>1. p * q >= p * (d + 1)
    BY <1>5
  <2>2. p * (d + 1) = p * d + p
    OBVIOUS
  <2> QED
    BY <1>3, <2>1, <2>2
<1>6. CASE d = q
  BY <1>1, <1>3, <1>6
<1> QED
  BY <1>4, <1>5, <1>6

(* A number that another one divides is a product.                         *)
LEMMA DividedIs ==
  ASSUME NEW p \in Nat \ {0}, NEW x \in Nat, x % p = 0
  PROVE  \E q \in Nat : x = p * q
<1>1. x = p * (x \div p) + (x % p) /\ x \div p \in Nat
  OBVIOUS
<1> QED
  BY <1>1

(* What divides a divisor divides the number.                              *)
LEMMA DividesOn ==
  ASSUME NEW e \in Nat \ {0}, NEW d \in Nat \ {0}, NEW x \in Nat, x % d = 0, d % e = 0
  PROVE  x % e = 0
<1>1. PICK q \in Nat : x = d * q
  BY DividedIs
<1>2. PICK r \in Nat : d = e * r
  BY DividedIs
<1>3. PICK s \in Nat : s = r * q
  OBVIOUS
<1>4. x = e * s
  BY <1>1, <1>2, <1>3
<1> QED
  BY <1>4, ProductMod

(* A multiple that is not the number itself is at least twice as large.    *)
LEMMA TwiceAtLeast ==
  ASSUME NEW p \in Nat \ {0}, NEW x \in Nat, x % p = 0, x > p
  PROVE  x >= 2 * p
<1>1. PICK q \in Nat : x = p * q
  BY DividedIs
<1>2. CASE q <= 1
  <2>1. p * q <= p * 1
    BY <1>2
  <2> QED
    BY <1>1, <2>1
<1>3. CASE q >= 2
  <2>1. p * q >= p * 2
    BY <1>3
  <2> QED
    BY <1>1, <2>1
<1> QED
  BY <1>2, <1>3

(* A number that is not prime has a prime divisor.                         *)
LEMMA PrimeDivisor ==
  ASSUME NEW x \in Nat, x > 1, ~ IsPrime(x)
  PROVE  \E p \in 2..(x - 1) : IsPrime(p) /\ x % p = 0
<1> DEFINE divisors == {d \in 2..(x - 1) : x % d = 0}
<1>1. divisors # {}
  BY DEF IsPrime
<1>2. PICK p : p \in divisors /\ \A d \in divisors : p <= d
  <2>1. divisors \in SUBSET Nat
    OBVIOUS
  <2> HIDE DEF divisors
  <2> QED
    BY <1>1, <2>1, LeastOf
<1>3. p \in 2..(x - 1) /\ x % p = 0
  BY <1>2
<1>4. ASSUME NEW e \in 2..(p - 1), p % e = 0 PROVE FALSE
  <2>1. e \in Nat \ {0} /\ p \in Nat \ {0} /\ e \in 2..(x - 1)
    BY <1>3
  <2>2. x % e = 0
    BY <1>3, <1>4, <2>1, DividesOn
  <2>3. e \in divisors
    BY <2>1, <2>2
  <2> HIDE DEF divisors
  <2> QED
    BY <1>2, <1>3, <2>3
<1>5. IsPrime(p)
  <2>1. \A e \in 2..(p - 1) : p % e # 0
    BY <1>4
  <2>2. p > 1
    BY <1>3
  <2> QED
    BY <2>1, <2>2, Zenon DEF IsPrime
<1> QED
  BY <1>3, <1>5

(* The locals of prime_up as a record.                                     *)
Primes(marked, k, m) == [marked |-> marked, k |-> k, m |-> m]

(* A table of the turns of the for loop.                                   *)
SieveUpTo(g, st, n, l) ==
  g = [i \in 1..l |-> IF i = 1 THEN st ELSE Sieve(g[i - 1], i, n)]

(* There is such a table for any number of turns.                          *)
LEMMA SieveExist ==
  ASSUME NEW st, NEW n
  PROVE  \A l \in Nat : \E g : SieveUpTo(g, st, n, l)
<1> DEFINE S == {l \in Nat : \E g : SieveUpTo(g, st, n, l)}
<1>1. 0 \in S
  <2>1. SieveUpTo([i \in 1..0 |-> st], st, n, 0)
    BY DEF SieveUpTo
  <2> QED
    BY <2>1
<1>2. ASSUME NEW l \in Nat, l \in S PROVE l + 1 \in S
  <2>1. PICK g : SieveUpTo(g, st, n, l)
    BY <1>2
  <2>2. g = [i \in 1..l |-> IF i = 1 THEN st ELSE Sieve(g[i - 1], i, n)]
    BY <2>1 DEF SieveUpTo
  <2> DEFINE h == [i \in 1..(l + 1) |-> IF i = 1 THEN st ELSE Sieve(g[i - 1], i, n)]
  <2>3. \A i \in 1..l : h[i] = g[i]
    BY <2>2
  <2>4. h = [i \in 1..(l + 1) |-> IF i = 1 THEN st ELSE Sieve(h[i - 1], i, n)]
    <3>1. \A i \in 1..(l + 1) : i # 1 => i - 1 \in 1..l
      OBVIOUS
    <3> QED
      BY <2>3, <3>1
  <2> HIDE DEF h
  <2>5. SieveUpTo(h, st, n, l + 1)
    BY <2>4 DEF SieveUpTo
  <2> QED
    BY <2>5
<1> HIDE DEF S
<1>3. Nat \subseteq S
  BY <1>1, <1>2, SetInduction
<1> QED
  BY <1>3 DEF S

(* So SieveTurns is what its equations say.                                *)
LEMMA SieveTurnsAre ==
  ASSUME NEW st, NEW n, ArraySize(st.m) \in Nat \ {0}
  PROVE  /\ SieveTurns(st, n)[1] = st
         /\ \A i \in 2..ArraySize(st.m) : SieveTurns(st, n)[i] = Sieve(SieveTurns(st, n)[i - 1], i, n)
<1> DEFINE t == SieveTurns(st, n)
<1>0. PICK l \in Nat \ {0} : l = ArraySize(st.m)
  OBVIOUS
<1>1. \E g : SieveUpTo(g, st, n, l)
  BY SieveExist
<1>2. SieveUpTo(t, st, n, l)
  BY <1>0, <1>1 DEF SieveUpTo, SieveTurns
<1> HIDE DEF t
<1>3. 1 \in 1..l /\ \A i \in 2..l : i \in 1..l /\ i # 1
  OBVIOUS
<1>4. t[1] = st /\ \A i \in 2..l : t[i] = Sieve(t[i - 1], i, n)
  BY <1>2, <1>3 DEF SieveUpTo
<1> QED
  BY <1>0, <1>4 DEF t

(* A table of the turns of the do loop.                                    *)
PrimesUpTo(g, n, l) ==
  g = [d \in 0..l |-> IF d = 0 THEN Primes({}, 0, Min({n, 89})) ELSE PrimeTurn(g[d - 1], n)]

(* There is such a table for any number of turns.                          *)
LEMMA PrimesExist ==
  ASSUME NEW n
  PROVE  \A l \in Nat : \E g : PrimesUpTo(g, n, l)
<1> DEFINE S == {l \in Nat : \E g : PrimesUpTo(g, n, l)}
           First == Primes({}, 0, Min({n, 89}))
<1> HIDE DEF First
<1>1. 0 \in S
  <2>1. PrimesUpTo([d \in 0..0 |-> First], n, 0)
    BY DEF PrimesUpTo, First
  <2> QED
    BY <2>1
<1>2. ASSUME NEW l \in Nat, l \in S PROVE l + 1 \in S
  <2>1. PICK g : PrimesUpTo(g, n, l)
    BY <1>2
  <2>2. g = [d \in 0..l |-> IF d = 0 THEN First ELSE PrimeTurn(g[d - 1], n)]
    BY <2>1 DEF PrimesUpTo, First
  <2> DEFINE h == [d \in 0..(l + 1) |-> IF d = 0 THEN First ELSE PrimeTurn(g[d - 1], n)]
  <2>3. \A d \in 0..l : h[d] = g[d]
    BY <2>2
  <2>4. h = [d \in 0..(l + 1) |-> IF d = 0 THEN First ELSE PrimeTurn(h[d - 1], n)]
    <3>1. \A d \in 0..(l + 1) : d # 0 => d - 1 \in 0..l
      OBVIOUS
    <3> QED
      BY <2>3, <3>1
  <2> HIDE DEF h
  <2>5. PrimesUpTo(h, n, l + 1)
    BY <2>4 DEF PrimesUpTo, First
  <2> QED
    BY <2>5
<1> HIDE DEF S
<1>3. Nat \subseteq S
  BY <1>1, <1>2, SetInduction
<1> QED
  BY <1>3 DEF S

(* So PrimeTurns is what its equations say.                                *)
LEMMA PrimeTurnsAre ==
  ASSUME NEW n
  PROVE  /\ PrimeTurns(n)[0] = Primes({}, 0, Min({n, 89}))
         /\ \A d \in 1..13 : PrimeTurns(n)[d] = PrimeTurn(PrimeTurns(n)[d - 1], n)
<1> DEFINE t == PrimeTurns(n)
<1>1. \E g : PrimesUpTo(g, n, 13)
  <2>1. 13 \in Nat
    OBVIOUS
  <2> QED
    BY <2>1, PrimesExist
<1>2. PrimesUpTo(t, n, 13)
  <2>1. Doublings + 1 = 13
    BY DEF Doublings
  <2> QED
    BY <1>1, <2>1, ZenonT(60) DEF PrimesUpTo, PrimeTurns, Primes
<1> HIDE DEF t
<1>3. 0 \in 0..13 /\ \A d \in 1..13 : d \in 0..13 /\ d # 0
  OBVIOUS
<1>4. /\ t[0] = Primes({}, 0, Min({n, 89}))
      /\ \A d \in 1..13 : t[d] = PrimeTurn(t[d - 1], n)
  BY <1>2, <1>3 DEF PrimesUpTo
<1> QED
  BY <1>4 DEF t

(* What the locals say after the turn for i: what is marked is not prime,  *)
(* the multiples of every prime number so far are marked up to m, and the  *)
(* result is the next prime number.                                        *)
OnlyComposites(marked) == \A x \in marked : x \in Nat /\ ~ IsPrime(x)
PrimesPassed(marked, m, n, i) == \A p \in 2..i : IsPrime(p) => p < n /\ Multiples(p, m) \subseteq marked
IsNext(k, n) == IsPrime(k) /\ k >= n /\ \A x \in n..(k - 1) : ~ IsPrime(x)
Sieved(st, m, n, i) ==
  \E marked, k : /\ st = Primes(marked, k, m)
                 /\ OnlyComposites(marked) /\ k \in Nat
                 /\ k = 0 => PrimesPassed(marked, m, n, i)
                 /\ k # 0 => IsNext(k, n)

(* A number that is not marked when its turn comes is prime.               *)
LEMMA UnmarkedIsPrime ==
  ASSUME NEW marked, NEW m \in Nat, NEW n \in Nat, NEW i \in Nat, i > 1, i < m,
         PrimesPassed(marked, m, n, i - 1), i \notin marked
  PROVE  IsPrime(i)
<1> SUFFICES ASSUME ~ IsPrime(i) PROVE FALSE
  OBVIOUS
<1>1. PICK p \in 2..(i - 1) : IsPrime(p) /\ i % p = 0
  BY PrimeDivisor
<1>2. i >= 2 * p
  <2>1. p \in Nat \ {0} /\ i > p
    OBVIOUS
  <2> QED
    BY <1>1, <2>1, TwiceAtLeast
<1>3. i \in Multiples(p, m)
  BY <1>1, <1>2 DEF Multiples
<1>4. Multiples(p, m) \subseteq marked
  BY <1>1 DEF PrimesPassed
<1> QED
  BY <1>3, <1>4

(* The multiples of a number are not prime.                                *)
LEMMA MultiplesComposite ==
  ASSUME NEW p \in Nat, p > 1, NEW m \in Nat, NEW x \in Multiples(p, m)
  PROVE  x \in Nat /\ ~ IsPrime(x)
<1>1. x \in (2 * p)..(m - 1) /\ x % p = 0
  BY DEF Multiples
<1>2. x \in Nat /\ p \in 2..(x - 1)
  BY <1>1
<1> QED
  BY <1>1, <1>2 DEF IsPrime

(* A turn of the for loop keeps this: marked numbers are passed, and the   *)
(* multiples of one that is not are marked.                                *)
LEMMA SieveKeeps ==
  ASSUME NEW m \in Nat, NEW n \in Nat, NEW i \in Nat, i > 1, i < m, NEW st, Sieved(st, m, n, i - 1)
  PROVE  Sieved(Sieve(st, i, n), m, n, i)
<1>1. PICK marked, k : /\ st = Primes(marked, k, m)
                       /\ OnlyComposites(marked) /\ k \in Nat
                       /\ k = 0 => PrimesPassed(marked, m, n, i - 1)
                       /\ k # 0 => IsNext(k, n)
  BY DEF Sieved
<1>2. st.marked = marked /\ st.k = k /\ st.m = m
  BY <1>1 DEF Primes
<1>3. CASE k # 0
  <2>1. Sieve(st, i, n) = st
    BY <1>2, <1>3 DEF Sieve
  <2> QED
    BY <1>1, <1>3, <2>1 DEF Sieved
<1>4. CASE k = 0 /\ i \in marked
  <2>1. Sieve(st, i, n) = st
    BY <1>2, <1>4 DEF Sieve
  <2>2. ~ IsPrime(i)
    BY <1>1, <1>4 DEF OnlyComposites
  <2>3. PrimesPassed(marked, m, n, i)
    <3> SUFFICES ASSUME NEW p \in 2..i, IsPrime(p) PROVE p < n /\ Multiples(p, m) \subseteq marked
      BY DEF PrimesPassed
    <3>1. p \in 2..(i - 1)
      BY <2>2
    <3> QED
      BY <1>1, <1>4, <3>1 DEF PrimesPassed
  <2> QED
    BY <1>1, <1>4, <2>1, <2>3 DEF Sieved
<1>5. CASE k = 0 /\ i \notin marked
  <2> DEFINE more == marked \cup Multiples(i, m)
             found == IF i >= n THEN i ELSE 0
  <2>1. Sieve(st, i, n) = Primes(more, found, m)
    BY <1>2, <1>5 DEF Sieve, Primes
  <2>2. IsPrime(i) /\ PrimesPassed(marked, m, n, i - 1)
    BY <1>1, <1>5, UnmarkedIsPrime
  <2>3. OnlyComposites(more)
    BY <1>1, MultiplesComposite DEF OnlyComposites
  <2>4. ASSUME ~ (i >= n) PROVE PrimesPassed(more, m, n, i)
    <3> SUFFICES ASSUME NEW p \in 2..i, IsPrime(p) PROVE p < n /\ Multiples(p, m) \subseteq more
      BY DEF PrimesPassed
    <3>1. CASE p = i
      BY <2>4, <3>1
    <3>2. CASE p # i
      <4>1. p \in 2..(i - 1)
        BY <3>2
      <4> QED
        BY <2>2, <4>1 DEF PrimesPassed
    <3> QED
      BY <3>1, <3>2
  <2>5. ASSUME i >= n PROVE IsNext(i, n)
    <3>1. ASSUME NEW x \in n..(i - 1), IsPrime(x) PROVE FALSE
      <4>1. x \in 2..(i - 1)
        BY <3>1 DEF IsPrime
      <4>2. x < n
        BY <2>2, <3>1, <4>1 DEF PrimesPassed
      <4> QED
        BY <4>2
    <3> QED
      BY <2>2, <2>5, <3>1 DEF IsNext
  <2>6. found \in Nat /\ (found = 0 => ~ (i >= n)) /\ (found # 0 => i >= n /\ found = i)
    OBVIOUS
  <2> HIDE DEF more, found
  <2> QED
    BY <2>1, <2>3, <2>4, <2>5, <2>6 DEF Sieved
<1> QED
  BY <1>1, <1>3, <1>4, <1>5

(* The greater one of two numbers.                                         *)
LEMMA MaxOfTwo ==
  ASSUME NEW a \in Int, NEW b \in Int
  PROVE  Max({a, b}) = IF a >= b THEN a ELSE b
<1> DEFINE m == IF a >= b THEN a ELSE b
<1>1. m \in {a, b} /\ \A y \in {a, b} : m >= y
  OBVIOUS
<1>2. \A x \in {a, b} : (\A y \in {a, b} : x >= y) => x = m
  OBVIOUS
<1> HIDE DEF m
<1>3. Max({a, b}) = m
  BY <1>1, <1>2 DEF Max
<1> QED
  BY <1>3 DEF m

(* The for loop as a whole.                                                *)
LEMMA AllSieved ==
  ASSUME NEW marked, OnlyComposites(marked), NEW m \in Nat, NEW n \in Nat
  PROVE  Sieved(SieveAll(Primes(marked, 0, m), n), m, n, Max({1, m \div 8}))
<1> DEFINE st == Primes(marked, 0, m)
           t == SieveTurns(st, n)
           S == {i \in Nat : i + 1 <= Max({1, m \div 8}) => Sieved(t[i + 1], m, n, i + 1)}
<1>1. st.m = m /\ ArraySize(m) = (m \div 8) + 1 /\ ArraySize(m) - 1 = m \div 8 /\ m \div 8 \in Nat
  BY DEF Primes, ArraySize
<1>2. /\ t[1] = st
      /\ \A i \in 2..((m \div 8) + 1) : t[i] = Sieve(t[i - 1], i, n)
  <2>1. ArraySize(st.m) \in Nat \ {0} /\ ArraySize(st.m) = (m \div 8) + 1
    BY <1>1
  <2> HIDE DEF st
  <2> QED
    BY <2>1, SieveTurnsAre
<1>3. PICK l : l = Max({1, m \div 8})
  OBVIOUS
<1>4. l \in Nat /\ l >= 1 /\ (l = 1 \/ l = m \div 8)
  <2>1. l = IF 1 >= m \div 8 THEN 1 ELSE m \div 8
    BY <1>1, <1>3, MaxOfTwo
  <2> QED
    BY <1>1, <2>1
<1>5. SieveAll(st, n) = t[l]
  BY <1>1, <1>3 DEF SieveAll
<1> HIDE DEF t
<1>6. 0 \in S
  <2>1. PrimesPassed(marked, m, n, 1)
    BY DEF PrimesPassed
  <2>2. Sieved(st, m, n, 1)
    BY <2>1 DEF Sieved
  <2> HIDE DEF st
  <2> QED
    BY <1>2, <2>2
<1>7. ASSUME NEW i \in Nat, i \in S PROVE i + 1 \in S
  <2> SUFFICES ASSUME (i + 1) + 1 <= l PROVE Sieved(t[(i + 1) + 1], m, n, (i + 1) + 1)
    BY <1>3
  <2>1. PICK j \in Nat : j = i + 2
    OBVIOUS
  <2>2. Sieved(t[j - 1], m, n, j - 1)
    <3>1. j - 1 = i + 1 /\ i + 1 <= l
      BY <1>4, <2>1
    <3>2. Sieved(t[i + 1], m, n, i + 1)
      BY <1>3, <1>7, <3>1
    <3> QED
      BY <3>1, <3>2
  <2>3. j \in 2..((m \div 8) + 1) /\ j > 1 /\ j < m
    BY <1>4, <2>1
  <2>4. t[j] = Sieve(t[j - 1], j, n)
    BY <1>2, <2>3
  <2>5. Sieved(t[j], m, n, j)
    BY <2>2, <2>3, <2>4, SieveKeeps
  <2>6. (i + 1) + 1 = j
    BY <2>1
  <2> QED
    BY <2>5, <2>6
<1> HIDE DEF S
<1>8. Nat \subseteq S
  BY <1>6, <1>7, SetInduction
<1>9. Sieved(t[l], m, n, l)
  <2>1. l - 1 \in Nat /\ (l - 1) + 1 = l
    BY <1>4
  <2>2. (l - 1) + 1 <= Max({1, m \div 8}) => Sieved(t[(l - 1) + 1], m, n, (l - 1) + 1)
    BY <1>8, <2>1 DEF S
  <2> QED
    BY <1>3, <1>4, <2>1, <2>2
<1> QED
  BY <1>3, <1>5, <1>9

(* The do loop is at a sieve of m bits, or has found the number.           *)
Sieving(st, m) == \E marked : st = Primes(marked, 0, m) /\ OnlyComposites(marked)
Found(st, n) == \E marked, k, m : st = Primes(marked, k, m) /\ k # 0 /\ IsNext(k, n)

(* A number that was found is kept.                                        *)
LEMMA FoundStays ==
  ASSUME NEW st, NEW n, Found(st, n)
  PROVE  Found(PrimeTurn(st, n), n)
<1>1. st.k # 0
  BY DEF Found, Primes
<1>2. PrimeTurn(st, n) = st
  BY <1>1 DEF PrimeTurn
<1> QED
  BY <1>2

(* A turn of the do loop finds the number, or all primes in this sieve are *)
(* too small.                                                              *)
LEMMA TurnSieves ==
  ASSUME NEW m \in Nat, NEW n \in Nat, NEW st, Sieving(st, m)
  PROVE  \/ Found(PrimeTurn(st, n), n)
         \/ /\ Sieving(PrimeTurn(st, n), 2 * m)
            /\ \A p \in 2..(m \div 8) : IsPrime(p) => p < n
<1>1. PICK marked : st = Primes(marked, 0, m) /\ OnlyComposites(marked)
  BY DEF Sieving
<1>2. PICK end : end = SieveAll(st, n)
  OBVIOUS
<1>3. Sieved(end, m, n, Max({1, m \div 8}))
  BY <1>1, <1>2, AllSieved
<1>4. PICK more, k : /\ end = Primes(more, k, m)
                     /\ OnlyComposites(more) /\ k \in Nat
                     /\ k = 0 => PrimesPassed(more, m, n, Max({1, m \div 8}))
                     /\ k # 0 => IsNext(k, n)
  BY <1>3 DEF Sieved
<1>5. end.k = k /\ end.marked = more /\ end.m = m /\ st.k = 0
  BY <1>1, <1>4 DEF Primes
<1>6. CASE k # 0
  <2>1. PrimeTurn(st, n) = end
    BY <1>2, <1>5, <1>6 DEF PrimeTurn
  <2> QED
    BY <1>4, <1>6, <2>1 DEF Found
<1>7. CASE k = 0
  <2>1. PrimeTurn(st, n) = Primes(more, 0, 2 * m)
    BY <1>2, <1>5, <1>7 DEF PrimeTurn, Primes
  <2>2. Sieving(PrimeTurn(st, n), 2 * m)
    BY <1>4, <2>1 DEF Sieving
  <2>3. \A p \in 2..(m \div 8) : IsPrime(p) => p < n
    <3>1. PICK a \in Nat : a = m \div 8
      OBVIOUS
    <3>2. PICK l : l = Max({1, a})
      OBVIOUS
    <3>3. l \in Nat /\ l >= a
      <4>1. l = IF 1 >= a THEN 1 ELSE a
        BY <3>2, MaxOfTwo
      <4> QED
        BY <4>1
    <3>4. PrimesPassed(more, m, n, l)
      BY <1>4, <1>7, <3>1, <3>2
    <3>5. \A p \in 2..l : IsPrime(p) => p < n
      BY <3>4 DEF PrimesPassed
    <3> QED
      BY <3>1, <3>3, <3>5
  <2> QED
    BY <2>2, <2>3
<1> QED
  BY <1>6, <1>7

(* After some turns the number is found, or the sieve has m bits.          *)
Reaches(st, n, m) == Found(st, n) \/ Sieving(st, m)

(* Another turn doubles the bits.                                          *)
LEMMA TurnReaches ==
  ASSUME NEW n \in Nat, NEW m \in Nat, NEW st, Reaches(st, n, m)
  PROVE  Reaches(PrimeTurn(st, n), n, 2 * m)
<1>1. CASE Found(st, n)
  BY <1>1, FoundStays DEF Reaches
<1>2. CASE Sieving(st, m)
  BY <1>2, TurnSieves DEF Reaches
<1> QED
  BY <1>1, <1>2 DEF Reaches

(* The turns of the do loop up to the last one that is modelled.           *)
LEMMA LastSieve ==
  ASSUME NEW n \in Nat, NEW m \in Nat, m = Min({n, 89})
  PROVE  Reaches(PrimeTurns(n)[12], n, 4096 * m)
<1> DEFINE t == PrimeTurns(n)
<1>1. t[0] = Primes({}, 0, m) /\ \A d \in 1..13 : t[d] = PrimeTurn(t[d - 1], n)
  BY PrimeTurnsAre
<1> HIDE DEF t
<1>2. Reaches(t[0], n, m)
  <2>1. OnlyComposites({})
    BY DEF OnlyComposites
  <2> QED
    BY <1>1, <2>1 DEF Reaches, Sieving
<1>3. ASSUME NEW d \in 1..12, NEW c \in Nat, Reaches(t[d - 1], n, c)
      PROVE  Reaches(t[d], n, 2 * c)
  <2>1. t[d] = PrimeTurn(t[d - 1], n)
    BY <1>1
  <2> QED
    BY <1>3, <2>1, TurnReaches
<1>4. \A d \in 1..12, c \in Nat : Reaches(t[d - 1], n, c) => Reaches(t[d], n, 2 * c)
  BY <1>3
<1>5. Reaches(t[1], n, 2 * m)
  BY <1>2, <1>4
<1>6. Reaches(t[2], n, 4 * m)
  BY <1>4, <1>5
<1>7. Reaches(t[3], n, 8 * m)
  BY <1>4, <1>6
<1>8. Reaches(t[4], n, 16 * m)
  BY <1>4, <1>7
<1>9. Reaches(t[5], n, 32 * m)
  BY <1>4, <1>8
<1>10. Reaches(t[6], n, 64 * m)
  BY <1>4, <1>9
<1>11. Reaches(t[7], n, 128 * m)
  BY <1>4, <1>10
<1>12. Reaches(t[8], n, 256 * m)
  BY <1>4, <1>11
<1>13. Reaches(t[9], n, 512 * m)
  BY <1>4, <1>12
<1>14. Reaches(t[10], n, 1024 * m)
  BY <1>4, <1>13
<1>15. Reaches(t[11], n, 2048 * m)
  BY <1>4, <1>14
<1>16. Reaches(t[12], n, 4096 * m)
  BY <1>4, <1>15
<1> QED
  BY <1>16 DEF t

(* prime_up returns the next prime number, if the last sieve has a byte    *)
(* for one.                                                                *)
LEMMA PrimeUpIsNext ==
  ASSUME NEW n \in Nat \ {0}, \E p \in n..(512 * Min({n, 89})) : IsPrime(p)
  PROVE  IsNext(PrimeUp(n), n)
<1>1. PICK m \in Nat : m = Min({n, 89})
  <2>1. Min({n, 89}) = IF n <= 89 THEN n ELSE 89
    BY MinOfTwo
  <2> QED
    BY <2>1
<1>2. PICK st : st = PrimeTurns(n)[12]
  OBVIOUS
<1>3. Reaches(st, n, 4096 * m)
  BY <1>1, <1>2, LastSieve
<1>4. PICK end : end = PrimeTurns(n)[13]
  OBVIOUS
<1>5. end = PrimeTurn(st, n)
  <2>1. 13 \in 1..13 /\ 13 - 1 = 12
    OBVIOUS
  <2> QED
    BY <1>2, <1>4, <2>1, PrimeTurnsAre
<1>6. Found(end, n)
  <2>1. CASE Found(st, n)
    BY <1>5, <2>1, FoundStays
  <2>2. CASE Sieving(st, 4096 * m)
    <3>1. PICK w \in Nat : w = 4096 * m /\ w \div 8 = 512 * m
      OBVIOUS
    <3>2. \/ Found(end, n)
          \/ \A p \in 2..(w \div 8) : IsPrime(p) => p < n
      BY <1>5, <2>2, <3>1, TurnSieves
    <3>3. ~ \A p \in 2..(w \div 8) : IsPrime(p) => p < n
      <4>1. PICK p \in n..(512 * m) : IsPrime(p)
        BY <1>1
      <4>2. p > 1
        BY <4>1 DEF IsPrime
      <4>3. p \in 2..(w \div 8) /\ ~ (p < n)
        BY <3>1, <4>1, <4>2
      <4> QED
        BY <4>1, <4>3
    <3> QED
      BY <3>2, <3>3
  <2> QED
    BY <1>3, <2>1, <2>2 DEF Reaches
<1>7. IsNext(end.k, n)
  BY <1>6 DEF Found, Primes
<1>8. Doublings + 1 = 13
  BY DEF Doublings
<1> QED
  BY <1>4, <1>7, <1>8 DEF PrimeUp

(* A pattern that is in the data is found where it is first, for data and  *)
(* patterns of any length; and prime_up returns the next prime number, if  *)
(* one is near enough (PrimesAssumption).                                  *)
THEOREM FoundWhereFirst == Spec => []Finds
<1>1. ASSUME FormatsInv, job.kind = "find", pc = "done"
      PROVE  FirstPlace(back, job.data, job.behind, job.pattern)
  <2>1. /\ job.data \in Seq({1, 2}) /\ job.behind \in Seq({1, 2})
        /\ job.pattern \in Seq({1, 2})
    <3>1. job \in FindJobs
      BY <1>1, JobsKnown DEF FormatsInv
    <3>2. /\ job.data \in BoundedSeq({1, 2}, MaxData) /\ job.behind \in BoundedSeq({1, 2}, MaxData)
          /\ job.pattern \in BoundedSeq({1, 2}, MaxData)
      BY <3>1 DEF FindJobs
    <3>3. \A S, n : BoundedSeq(S, n) \subseteq Seq(S)
      BY DEF BoundedSeq, SeqOf
    <3> QED
      BY <3>2, <3>3
  <2>2. back = Memmem(job.data \o job.behind, Len(job.data), job.pattern)
    BY <1>1 DEF FormatsInv, Parsed
  <2> QED
    BY <2>1, <2>2, FoundFirst
<1>2. ASSUME FormatsInv, job.kind = "prime", pc = "done"
      PROVE  IsNext(back, job.n)
  <2>1. job.n \in 1..MaxPrime
    <3>1. job \in PrimeJobs
      BY <1>2, JobsKnown DEF FormatsInv
    <3> QED
      BY <3>1 DEF PrimeJobs
  <2>2. job.n \in Nat \ {0} /\ \E p \in job.n..(512 * Min({job.n, 89})) : IsPrime(p)
    BY <2>1, PrimesAssumption
  <2>3. back = PrimeUp(job.n)
    BY <1>2 DEF FormatsInv, Parsed
  <2> QED
    BY <2>2, <2>3, PrimeUpIsNext
<1>3. FormatsInv => Finds
  <2>1. FormatsInv /\ job.kind = "find" /\ pc = "done"
          => FirstPlace(back, job.data, job.behind, job.pattern)
    BY <1>1
  <2>2. FormatsInv /\ job.kind = "prime" /\ pc = "done" => IsNext(back, job.n)
    BY <1>2
  <2> HIDE DEF FormatsInv
  <2> QED
    BY <2>1, <2>2 DEF FirstPlace, IsNext, Finds
<1> QED
  BY <1>3, FormatsKnown, PTL

-----------------------------------------------------------------------------
(* Prefixes and classes of addresses.                                      *)

(* The weights of the eight bits of a byte.                                *)
Weights == {1, 2, 4, 8, 16, 32, 64, 128}

(* They are the powers of two, in order.                                   *)
LEMMA WeightsOrdered ==
  ASSUME NEW k \in 0..7, NEW l \in 0..7
  PROVE  2^k \in Weights /\ (2^k < 2^l <=> k < l)
<1>1. PICK p : p = [i \in 0..7 |-> 2^i]
  OBVIOUS
<1>2. /\ p[0] = 1 /\ p[1] = 2 /\ p[2] = 4 /\ p[3] = 8
      /\ p[4] = 16 /\ p[5] = 32 /\ p[6] = 64 /\ p[7] = 128
  BY <1>1
<1>3. \A i \in 0..7 : i = 0 \/ i = 1 \/ i = 2 \/ i = 3 \/ i = 4 \/ i = 5 \/ i = 6 \/ i = 7
  OBVIOUS
<1>4. p[k] \in Weights /\ (p[k] < p[l] <=> k < l)
  BY <1>2, <1>3 DEF Weights
<1> QED
  BY <1>1, <1>4, Zenon

(* The byte x with its bit of that weight turned around.                   *)
Toggled(x, weight) == IF (x \div weight) % 2 = 1 THEN x - weight ELSE x + weight

(* It is another byte.                                                     *)
LEMMA ToggledIsByte ==
  ASSUME NEW x \in Byte, NEW w \in Weights
  PROVE  Toggled(x, w) \in Byte /\ Toggled(x, w) # x
<1> USE DEF Toggled, Byte, Weights
<1>1. CASE w \in {1, 2, 4, 8}
  BY <1>1
<1>2. CASE w \in {16, 32, 64, 128}
  BY <1>2
<1> QED
  BY <1>1, <1>2

(* Division by a power of two drops the bits of a smaller weight, and no   *)
(* others.                                                                 *)
LEMMA DroppedBits ==
  ASSUME NEW x \in Byte, NEW w \in Weights, NEW c \in Weights
  PROVE  Toggled(x, w) \div c = x \div c <=> w < c
<1> USE DEF Toggled, Byte
<1>0. CASE w = 1
  BY <1>0 DEF Weights
<1>1. CASE w = 2
  BY <1>1 DEF Weights
<1>2. CASE w = 4
  BY <1>2 DEF Weights
<1>3. CASE w = 8
  BY <1>3 DEF Weights
<1>4. CASE w = 16
  BY <1>4 DEF Weights
<1>5. CASE w = 32
  BY <1>5 DEF Weights
<1>6. CASE w = 64
  BY <1>6 DEF Weights
<1>7. CASE w = 128
  BY <1>7 DEF Weights
<1> QED
  BY <1>0, <1>1, <1>2, <1>3, <1>4, <1>5, <1>6, <1>7 DEF Weights

(* The other address has that byte instead of the one with the bit.        *)
LEMMA FlippedBytes ==
  ASSUME NEW a \in [1..16 -> Byte], NEW bit \in 1..128
  PROVE  \E k \in 1..16, j \in 0..7 :
           /\ bit = 8 * (k - 1) + j + 1
           /\ \A i \in 1..16 : Flipped(a, bit)[i] = IF i = k THEN Toggled(a[k], 2^(7 - j)) ELSE a[i]
<1>1. PICK k \in 1..16 : k = CeilDiv(bit, 8)
  BY DEF CeilDiv
<1>2. PICK j \in 0..7 : j = (bit - 1) % 8
  OBVIOUS
<1>3. bit = 8 * (k - 1) + j + 1
  BY <1>1, <1>2 DEF CeilDiv
<1>4. ASSUME NEW i \in 1..16
      PROVE  Flipped(a, bit)[i] = IF i = k THEN Toggled(a[k], 2^(7 - j)) ELSE a[i]
  <2>1. Flipped(a, bit)[i] = IF bit = 0 \/ i # k THEN a[i] ELSE Toggled(a[i], 2^(7 - j))
    BY <1>1, <1>2, Zenon DEF Flipped, Toggled
  <2> QED
    BY <2>1
<1> QED
  BY <1>3, <1>4

(* An address and another that differs in one bit match in a prefix if and *)
(* only if the bit is behind it.                                           *)
LEMMA MatchesUpTo ==
  ASSUME NEW a \in [1..16 -> Byte], NEW bit \in 0..128, NEW prefix \in Nat
  PROVE  Matches(a, Flipped(a, bit), prefix) <=> bit = 0 \/ bit > prefix
<1>1. PICK p \in 0..128 : p = Min({prefix, 128}) /\ (bit > p <=> bit > prefix)
  <2>1. Min({prefix, 128}) = IF prefix <= 128 THEN prefix ELSE 128
    BY MinOfTwo
  <2> QED
    BY <2>1
<1>2. PICK whole \in 0..16, rest \in 0..7 : whole = p \div 8 /\ rest = p % 8 /\ p = 8 * whole + rest
  OBVIOUS
<1>3. PICK b : b = Flipped(a, bit)
  OBVIOUS
<1>4. PICK c : c = 2^(8 - rest)
  OBVIOUS
<1>5. Matches(a, b, prefix) <=> /\ \A i \in 1..whole : a[i] = b[i]
                                /\ rest > 0 => a[whole + 1] \div c = b[whole + 1] \div c
  BY <1>1, <1>2, <1>4 DEF Matches
<1>6. rest > 0 => whole + 1 \in 1..16
  BY <1>2
<1>7. CASE bit = 0
  <2>1. \A i \in 1..16 : b[i] = a[i]
    BY <1>3, <1>7 DEF Flipped
  <2> QED
    BY <1>2, <1>3, <1>5, <1>6, <1>7, <2>1
<1>8. CASE bit # 0
  <2>1. PICK k \in 1..16, j \in 0..7 :
          /\ bit = 8 * (k - 1) + j + 1
          /\ \A i \in 1..16 : b[i] = IF i = k THEN Toggled(a[k], 2^(7 - j)) ELSE a[i]
    <3>1. bit \in 1..128
      BY <1>8
    <3> QED
      BY <1>3, <3>1, FlippedBytes, ZenonT(60)
  <2>2. PICK w \in Weights : w = 2^(7 - j)
    <3>1. 7 - j \in 0..7
      OBVIOUS
    <3>2. 2^(7 - j) \in Weights
      BY <3>1, WeightsOrdered, Zenon
    <3> QED
      BY <3>2, Zenon
  <2>3. a[k] \in Byte /\ b[k] = Toggled(a[k], w) /\ \A i \in 1..16 : i # k => b[i] = a[i]
    BY <2>1, <2>2
  <2>4. CASE k <= whole
    <3>1. b[k] # a[k]
      BY <2>3, ToggledIsByte
    <3>2. ~ (bit > prefix)
      BY <1>1, <1>2, <2>1, <2>4
    <3> QED
      BY <1>3, <1>5, <1>8, <2>4, <3>1, <3>2
  <2>5. CASE k = whole + 1 /\ rest > 0
    <3>1. c \in Weights /\ (w < c <=> 7 - j < 8 - rest)
      <4>1. 7 - j \in 0..7 /\ 8 - rest \in 0..7
        BY <2>5
      <4>2. 2^(8 - rest) \in Weights /\ (2^(7 - j) < 2^(8 - rest) <=> 7 - j < 8 - rest)
        BY <4>1, WeightsOrdered, Zenon
      <4> QED
        BY <1>4, <2>2, <4>2, Zenon
    <3>2. a[k] \div c = b[k] \div c <=> w < c
      BY <2>3, <3>1, DroppedBits
    <3>3. \A i \in 1..whole : a[i] = b[i]
      BY <2>3, <2>5
    <3>4. w < c <=> bit > p
      BY <1>2, <2>1, <2>5, <3>1
    <3> QED
      BY <1>1, <1>3, <1>5, <1>8, <2>5, <3>2, <3>3, <3>4
  <2>6. CASE k > whole /\ ~ (k = whole + 1 /\ rest > 0)
    <3>1. \A i \in 1..whole : a[i] = b[i]
      BY <2>3, <2>6
    <3>2. rest > 0 => a[whole + 1] = b[whole + 1]
      BY <1>6, <2>3, <2>6
    <3>3. bit > p
      BY <1>2, <2>1, <2>6
    <3> QED
      BY <1>1, <1>3, <1>5, <1>8, <3>1, <3>2, <3>3
  <2> QED
    BY <2>4, <2>5, <2>6
<1> QED
  BY <1>7, <1>8

(* The numbers of sixteen bits.                                           *)
Word == {x \in Nat : x < 65536}

(* The first bytes of an address as it is compared.                        *)
LEMMA FirstTwoBytes ==
  ASSUME NEW addr \in [1..8 -> Word]
  PROVE  /\ BytesOf(addr)[1] = addr[1] \div 256
         /\ BytesOf(addr)[2] = addr[1] % 256
<1>1. \A k \in 1..16 :
        BytesOf(addr)[k] = IF k % 2 = 1 THEN addr[(k + 1) \div 2] \div 256 ELSE addr[(k + 1) \div 2] % 256
  BY Zenon DEF BytesOf
<1>2. (1 + 1) \div 2 = 1 /\ 1 % 2 = 1
  OBVIOUS
<1>3. (2 + 1) \div 2 = 1 /\ 2 % 2 = 0
  OBVIOUS
<1>4. BytesOf(addr)[1] = addr[1] \div 256
  BY <1>1, <1>2
<1>5. BytesOf(addr)[2] = addr[1] % 256
  BY <1>1, <1>3
<1> QED
  BY <1>4, <1>5

(* The prefixes of classes have eight bits,                                *)
LEMMA MatchesEight ==
  ASSUME NEW b, NEW first \in Byte, NEW second \in Byte
  PROVE  Matches(b, Prefixed(first, second), 8) <=> b[1] = first
<1>1. Min({8, 128}) = 8 /\ 8 \div 8 = 1 /\ 8 % 8 = 0
  BY MinOfTwo
<1>2. Prefixed(first, second)[1] = first
  BY DEF Prefixed
<1> QED
  BY <1>1, <1>2 DEF Matches

(* The same for ten bits.                                                  *)
LEMMA MatchesTen ==
  ASSUME NEW b, NEW first \in Byte, NEW second \in Byte
  PROVE  Matches(b, Prefixed(first, second), 10) <=> b[1] = first /\ b[2] \div 64 = second \div 64
<1>1. Min({10, 128}) = 10 /\ 10 \div 8 = 1 /\ 10 % 8 = 2 /\ 2^(8 - 2) = 64 /\ 1 + 1 = 2 /\ 2 > 0
  BY MinOfTwo
<1>2. Prefixed(first, second)[1] = first /\ Prefixed(first, second)[2] = second
  BY DEF Prefixed
<1>3. Matches(b, Prefixed(first, second), 10)
        <=> /\ \A i \in 1..1 : b[i] = Prefixed(first, second)[i]
            /\ b[1 + 1] \div 2^(8 - 2) = Prefixed(first, second)[1 + 1] \div 2^(8 - 2)
  BY <1>1 DEF Matches
<1> QED
  BY <1>1, <1>2, <1>3

(* So the classes are ranges of the first group.                           *)
LEMMA ClassRanges ==
  ASSUME NEW addr \in [1..8 -> Word]
  PROVE  /\ IsMulticast(BytesOf(addr)) <=> addr[1] \in 65280..65535
         /\ IsLinkLocal(BytesOf(addr)) <=> addr[1] \in 65152..65215
         /\ IsSiteLocal(BytesOf(addr)) <=> addr[1] \in 65216..65279
<1>1. PICK g \in Word : g = addr[1]
  OBVIOUS
<1>2. BytesOf(addr)[1] = g \div 256 /\ BytesOf(addr)[2] = g % 256
  BY <1>1, FirstTwoBytes
<1>3. 255 \in Byte /\ 254 \in Byte /\ 0 \in Byte /\ 128 \in Byte /\ 192 \in Byte
  BY DEF Byte
<1>4. IsMulticast(BytesOf(addr)) <=> g \div 256 = 255
  BY <1>2, <1>3, MatchesEight DEF IsMulticast
<1>5. IsLinkLocal(BytesOf(addr)) <=> g \div 256 = 254 /\ (g % 256) \div 64 = 128 \div 64
  BY <1>2, <1>3, MatchesTen DEF IsLinkLocal
<1>6. IsSiteLocal(BytesOf(addr)) <=> g \div 256 = 254 /\ (g % 256) \div 64 = 192 \div 64
  BY <1>2, <1>3, MatchesTen DEF IsSiteLocal
<1>7. g \div 256 = 255 <=> g \in 65280..65535
  BY DEF Word
<1>8. g \div 256 = 254 /\ (g % 256) \div 64 = 128 \div 64 <=> g \in 65152..65215
  BY DEF Word
<1>9. g \div 256 = 254 /\ (g % 256) \div 64 = 192 \div 64 <=> g \in 65216..65279
  BY DEF Word
<1> QED
  BY <1>1, <1>4, <1>5, <1>6, <1>7, <1>8, <1>9

(* An IPv4 address is private if it is in one of the ranges.               *)
LEMMA PrivateRanges ==
  ASSUME NEW ip, ip[1] \in Byte, ip[2] \in Byte, ip[3] \in Byte
  PROVE  IPv4IsPrivate(ip) <=> \E range \in PrivateIPv4 : IsIn(range, Number3(ip[1], ip[2], ip[3]))
<1>1. PICK a \in 0..255, b \in 0..255, c \in 0..255 : a = ip[1] /\ b = ip[2] /\ c = ip[3]
  BY DEF Byte
<1>2. PICK n \in Nat : n = (a * 256 + b) * 256 + c
  OBVIOUS
<1>3. (\E range \in PrivateIPv4 : IsIn(range, Number3(ip[1], ip[2], ip[3])))
        <=> \/ (0 <= n /\ n <= 65535) \/ (655360 <= n /\ n <= 720895) \/ (8323072 <= n /\ n <= 8388607)
            \/ (11140608 <= n /\ n <= 11140863) \/ (11276288 <= n /\ n <= 11280383)
            \/ (12582914 <= n /\ n <= 12582914) \/ (12625920 <= n /\ n <= 12626175)
  <2>1. Number3(ip[1], ip[2], ip[3]) = n
    BY <1>1, <1>2 DEF Number3
  <2>2. \A x, y : IsIn(<<x, y>>, n) <=> x <= n /\ n <= y
    BY DEF IsIn
  <2>3. (\E range \in PrivateIPv4 : IsIn(range, n))
          <=> \/ IsIn(<<0, 65535>>, n) \/ IsIn(<<655360, 720895>>, n) \/ IsIn(<<8323072, 8388607>>, n)
              \/ IsIn(<<11140608, 11140863>>, n) \/ IsIn(<<11276288, 11280383>>, n)
              \/ IsIn(<<12582914, 12582914>>, n) \/ IsIn(<<12625920, 12626175>>, n)
    BY DEF PrivateIPv4, Number3
  <2> QED
    BY <2>1, <2>2, <2>3
<1>4. IPv4IsPrivate(ip)
        <=> \/ a = 0 \/ a = 10 \/ a = 127
            \/ a = 169 /\ b = 254
            \/ a = 172 /\ b \div 16 = 1
            \/ a = 192 /\ b = 0 /\ c = 2
            \/ a = 192 /\ b = 168
  <2>1. 64 * (a \div 64) # 224
    OBVIOUS
  <2> QED
    BY <1>1, <2>1 DEF IPv4IsPrivate
<1>5. 0 <= n /\ n <= 65535 <=> a = 0
  BY <1>2
<1>6. 655360 <= n /\ n <= 720895 <=> a = 10
  BY <1>2
<1>7. 8323072 <= n /\ n <= 8388607 <=> a = 127
  BY <1>2
<1>8. 11140608 <= n /\ n <= 11140863 <=> a = 169 /\ b = 254
  BY <1>2
<1>9. 11276288 <= n /\ n <= 11280383 <=> a = 172 /\ b \div 16 = 1
  BY <1>2
<1>10. 12582914 <= n /\ n <= 12582914 <=> a = 192 /\ b = 0 /\ c = 2
  BY <1>2
<1>11. 12625920 <= n /\ n <= 12626175 <=> a = 192 /\ b = 168
  BY <1>2
<1> QED
  BY <1>3, <1>4, <1>5, <1>6, <1>7, <1>8, <1>9, <1>10, <1>11

(* net_addr_is_private.                                                    *)
LEMMA PrivateAddresses ==
  ASSUME NEW addr \in [1..8 -> Word]
  PROVE  LET ip == IPv4Part(addr)
         IN  IsPrivate(addr) <=>
               IF IsIPv4Mapped(addr) THEN \E range \in PrivateIPv4 : IsIn(range, Number3(ip[1], ip[2], ip[3]))
               ELSE addr[1] \in 65152..65279
<1>1. IsLinkLocal(BytesOf(addr)) \/ IsSiteLocal(BytesOf(addr)) <=> addr[1] \in 65152..65279
  <2>1. addr[1] \in Nat
    BY DEF Word
  <2> QED
    BY <2>1, ClassRanges
<1>2. CASE IsIPv4Mapped(addr)
  <2> DEFINE ip == IPv4Part(addr)
  <2>1. addr[1] = 0
    <3> DEFINE mapped == <<0, 0, 0, 0, 0, 65535>>
    <3>1. mapped[1] = 0
      OBVIOUS
    <3>2. SubSeq(addr, 1, 6) = mapped
      BY <1>2 DEF IsIPv4Mapped
    <3> HIDE DEF mapped
    <3>3. SubSeq(addr, 1, 6) = [i \in 1..6 |-> addr[i]]
      OBVIOUS
    <3>4. [i \in 1..6 |-> addr[i]][1] = addr[1]
      OBVIOUS
    <3> QED
      BY <3>1, <3>2, <3>3, <3>4
  <2>2. ip[1] \in Byte /\ ip[2] \in Byte /\ ip[3] \in Byte
    <3>1. addr[7] \in Word /\ addr[8] \in Word
      OBVIOUS
    <3> QED
      BY <3>1 DEF IPv4Part, Byte, Word
  <2> HIDE DEF ip
  <2>3. IPv4IsPrivate(ip) <=> \E range \in PrivateIPv4 : IsIn(range, Number3(ip[1], ip[2], ip[3]))
    BY <2>2, PrivateRanges
  <2>4. IsPrivate(addr) <=> IPv4IsPrivate(ip)
    BY <1>1, <1>2, <2>1 DEF IsPrivate, ip
  <2> QED
    BY <1>2, <2>3, <2>4 DEF ip
<1>3. CASE ~ IsIPv4Mapped(addr)
  BY <1>1, <1>3 DEF IsPrivate
<1> QED
  BY <1>2, <1>3

(* The addresses of the jobs have eight groups of sixteen bits.            *)
LEMMA ClassAddressesAre ==
  ASSUME NEW addr \in ClassAddresses
  PROVE  addr \in [1..8 -> Word]
<1>1. ASSUME NEW a \in Word, NEW b \in Word PROVE <<a, b, 0, 0, 0, 0, 0, 1>> \in [1..8 -> Word]
  <2>1. \A c, d \in Word : <<a, b, c, c, c, c, c, d>> \in [1..8 -> Word]
    OBVIOUS
  <2>2. 0 \in Word /\ 1 \in Word
    BY DEF Word
  <2> QED
    BY <2>1, <2>2
<1>2. ASSUME NEW a \in Word, NEW b \in Word PROVE <<0, 0, 0, 0, 0, 65535, a, b>> \in [1..8 -> Word]
  <2>1. \A c, d \in Word : <<c, c, c, c, c, d, a, b>> \in [1..8 -> Word]
    OBVIOUS
  <2>2. 0 \in Word /\ 65535 \in Word
    BY DEF Word
  <2> QED
    BY <2>1, <2>2
<1>3. \A g \in {0, 255, 65151, 65152, 65215, 65216, 65279, 65280, 65535}, h \in {0, 65535} :
        g \in Word /\ h \in Word
  BY DEF Word
<1>4. \A a \in {0, 1, 9, 10, 11, 126, 127, 128, 169, 172, 191, 192, 193, 223, 224, 240, 255},
         b \in {0, 1, 15, 16, 31, 32, 167, 168, 169, 253, 254, 255}, c \in {1, 2, 3} :
        a * 256 + b \in Word /\ c * 256 + 1 \in Word
  <2>1. \A a, b \in 0..255 : a * 256 + b \in Word
    BY DEF Word
  <2> QED
    BY <2>1, SMTT(30)
<1>5. /\ \A a, b \in Word : <<a, b, 0, 0, 0, 0, 0, 1>> \in [1..8 -> Word]
      /\ \A a, b \in Word : <<0, 0, 0, 0, 0, 65535, a, b>> \in [1..8 -> Word]
  BY <1>1, <1>2
<1> DEFINE S == [1..8 -> Word]
<1> HIDE DEF S
<1>6. /\ \A a, b \in Word : <<a, b, 0, 0, 0, 0, 0, 1>> \in S
      /\ \A a, b \in Word : <<0, 0, 0, 0, 0, 65535, a, b>> \in S
  BY <1>5 DEF S
<1>7. addr \in S
  BY <1>3, <1>4, <1>6 DEF ClassAddresses
<1> QED
  BY <1>7 DEF S

(* Addresses are compared up to the end of a prefix and no further, and    *)
(* the classes of addresses are the ranges they stand for (PrefixBits).    *)
THEOREM PrefixesCompared == Spec => []PrefixBits
<1>1. ASSUME FormatsInv, job.kind = "prefix", pc = "done"
      PROVE  back = (job.bit = 0 \/ job.bit > job.prefix)
  <2>1. job.a \in [1..16 -> Byte] /\ job.bit \in 0..128 /\ job.prefix \in Nat
    <3>1. job \in PrefixJobs
      BY <1>1, JobsKnown DEF FormatsInv
    <3>2. job.a \in {[k \in 1..16 |-> b] : b \in Bytes} /\ job.bit \in 0..128 /\ job.prefix \in 0..129
      BY <3>1 DEF PrefixJobs
    <3> QED
      BY <3>2, BytesAssumption
  <2>2. back = Matches(job.a, Flipped(job.a, job.bit), job.prefix)
    BY <1>1 DEF FormatsInv, Parsed
  <2>3. Matches(job.a, Flipped(job.a, job.bit), job.prefix) <=> job.bit = 0 \/ job.bit > job.prefix
    BY <2>1, MatchesUpTo
  <2>4. Matches(job.a, Flipped(job.a, job.bit), job.prefix) \in BOOLEAN
    BY DEF Matches
  <2> QED
    BY <2>2, <2>3, <2>4
<1>2. ASSUME FormatsInv, job.kind = "class", pc = "done"
      PROVE  ClassesOf(job.addr, back)
  <2>1. job.addr \in [1..8 -> Word]
    <3>1. job \in ClassJobs
      BY <1>2, JobsKnown DEF FormatsInv
    <3>2. job.addr \in ClassAddresses
      BY <3>1 DEF ClassJobs
    <3> QED
      BY <3>2, ClassAddressesAre
  <2>2. /\ back.multicast = IsMulticast(BytesOf(job.addr)) /\ back.link = IsLinkLocal(BytesOf(job.addr))
        /\ back.site = IsSiteLocal(BytesOf(job.addr)) /\ back.private = IsPrivate(job.addr)
    BY <1>2 DEF FormatsInv, Parsed
  <2> QED
    BY <2>1, <2>2, ClassRanges, PrivateAddresses DEF ClassesOf
<1>3. FormatsInv => PrefixBits
  <2>1. FormatsInv /\ job.kind = "prefix" /\ pc = "done" => back = (job.bit = 0 \/ job.bit > job.prefix)
    BY <1>1
  <2>2. FormatsInv /\ job.kind = "class" /\ pc = "done" => ClassesOf(job.addr, back)
    BY <1>2
  <2> HIDE DEF FormatsInv
  <2> QED
    BY <2>1, <2>2, Zenon DEF PrefixBits
<1> QED
  BY <1>3, FormatsKnown, PTL

=============================================================================

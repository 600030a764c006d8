--------------------------- MODULE ParseUintProofs --------------------------
(***************************************************************************)
(* The overflow tests of the parse_uint functions are exact, for integers  *)
(* of every width, in every number system and for every text; and a        *)
(* decimal number that is parsed is printed as it was written.             *)
(***************************************************************************)
EXTENDS ParseUint, WellFoundedInduction, TLAPS

(* What a division leaves.                                                 *)
LEMMA Division ==
  ASSUME NEW n \in Nat, NEW d \in Nat \ {0}
  PROVE  /\ n \div d \in Nat /\ n % d \in 0..(d - 1)
         /\ d * (n \div d) <= n /\ n < d * (n \div d) + d
OBVIOUS

(* A product fits, or the division that undoes it gives something else.    *)
LEMMA ProductTest ==
  ASSUME NEW x \in 0..(Modulus - 1), NEW m \in 2..36
  PROVE  /\ x * m \in Nat
         /\ x * m < Modulus => (x * m) % Modulus = x * m
         /\ ((x * m) % Modulus) \div m = x <=> x * m < Modulus
         /\ (x * m) \div m = x
         /\ x < (Modulus - 1) \div m => x * m < Modulus
<1>1. Modulus \in Nat \ {0} /\ x \in Nat /\ m \in Nat \ {0}
  BY ModulusAssumption
<1>2. x * m \in Nat
  BY <1>1
<1>3. x * m < Modulus => (x * m) % Modulus = x * m
  BY <1>1, <1>2
<1>4. (x * m) \div m = x
  BY <1>1
<1>5. x * m >= Modulus => ((x * m) % Modulus) \div m # x
  <2> DEFINE w == (x * m) % Modulus
  <2>1. w \in Nat /\ w < Modulus
    BY <1>1, <1>2, Division
  <2> HIDE DEF w
  <2>2. m * (w \div m) <= w
    BY <1>1, <2>1, Division
  <2>3. w \div m = x => x * m <= w
    BY <1>1, <2>1, <2>2
  <2>4. x * m >= Modulus => w \div m # x
    BY <1>1, <1>2, <2>1, <2>3
  <2> QED
    BY <2>4 DEF w
<1>6. x < (Modulus - 1) \div m => x * m < Modulus
  <2> DEFINE s == (Modulus - 1) \div m
  <2>1. s \in Nat /\ m * s <= Modulus - 1
    BY <1>1, Division
  <2> HIDE DEF s
  <2>2. ASSUME x < s PROVE x * m < Modulus
    <3>1. x * m <= m * s
      BY <1>1, <2>1, <2>2
    <3> QED
      BY <1>1, <1>2, <2>1, <3>1
  <2> QED
    BY <2>2 DEF s
<1>7. x * m < Modulus => ((x * m) % Modulus) \div m = x
  BY <1>3, <1>4, Zenon
<1>8. x * m < Modulus \/ x * m >= Modulus
  BY <1>1, <1>2
<1> QED
  BY <1>2, <1>3, <1>4, <1>5, <1>6, <1>7, <1>8, Zenon

(* A sum of two numbers that fit is reduced by subtracting once.           *)
LEMMA WrapOnce ==
  ASSUME NEW n \in Nat, NEW m \in Nat \ {0}, n >= m, n < 2 * m
  PROVE  n % m = n - m
BY SMT

(* The loop takes a digit if and only if the number still fits.            *)
LEMMA OverflowIff ==
  ASSUME TypeOK, AtDigit
  PROVE  /\ Head(src) \in 0..35
         /\ TooLarge <=> v * base + Head(src) >= Modulus
         /\ ~TooLarge => Sum = v * base + Head(src)
<1> DEFINE d == Head(src)
           x == v * base
<1>1. /\ v \in 0..(Modulus - 1) /\ base \in 2..36 /\ Modulus \in Nat /\ Modulus >= 36
      /\ kind \in {"uint16", "uint32", "uint64"}
  BY BaseAssumption, ModulusAssumption DEF TypeOK
<1>2. d \in 0..35 /\ d < base
  <2>1. src \in Seq((0..35) \cup {Other}) /\ src # <<>>
    BY DEF TypeOK, AtDigit
  <2> DEFINE T == (0..35) \cup {Other}
  <2>2. Head(src) \in T
    <3> HIDE DEF T
    <3>1. src \in Seq(T)
      BY <2>1 DEF T
    <3> QED
      BY <2>1, <3>1
  <2> QED
    BY <2>2 DEF AtDigit
<1>3. /\ x \in Nat
      /\ x < Modulus => x % Modulus = x
      /\ (x % Modulus) \div base = v <=> x < Modulus
      /\ x \div base = v
      /\ v < (Modulus - 1) \div base => x < Modulus
  BY <1>1, ProductTest
<1>4. /\ Product = (IF kind = "uint16" THEN x ELSE x % Modulus)
      /\ Sum = (Product + d) % Modulus
      /\ ProductOverflows <=> /\ kind = "uint64" => v >= (Modulus - 1) \div base
                              /\ Product \div base # v
      /\ TooLarge <=> ProductOverflows \/ Sum < Product
  BY DEF Product, Sum, ProductOverflows, Safe, TooLarge
<1> HIDE DEF d, x
<1>5. x % Modulus \in 0..(Modulus - 1) /\ (Modulus - 1) \div base \in Nat
  <2>1. Modulus \in Nat \ {0} /\ Modulus - 1 \in Nat /\ base \in Nat \ {0}
    BY <1>1
  <2> QED
    BY <1>3, <2>1, Division
<1> DEFINE Claim == /\ TooLarge <=> x + d >= Modulus
                    /\ ~TooLarge => Sum = x + d
<1>6. ASSUME x < Modulus PROVE Claim
  <2>1. Product = x /\ ~ProductOverflows
    BY <1>3, <1>4, <1>6
  <2>2. x + d \in Nat /\ x + d < 2 * Modulus /\ d < Modulus
    BY <1>1, <1>2, <1>3, <1>6
  <2>3. x + d < Modulus => (x + d) % Modulus = x + d
    BY <1>1, <2>2
  <2>4. x + d >= Modulus => (x + d) % Modulus = x + d - Modulus
    <3>1. /\ x + d \in Nat /\ Modulus \in Nat \ {0} /\ x + d < 2 * Modulus
          /\ x + d \in Int /\ Modulus \in Int
      BY <1>1, <2>2
    <3>2. ASSUME x + d >= Modulus PROVE (x + d) % Modulus = x + d - Modulus
      <4> DEFINE n == x + d
      <4>1. n \in Nat /\ n >= Modulus /\ n < 2 * Modulus
        BY <3>1, <3>2
      <4> HIDE DEF n
      <4>2. n % Modulus = n - Modulus
        BY <3>1, <4>1, WrapOnce
      <4>3. (x + d) % Modulus = (x + d) - Modulus
        BY <4>2, Zenon DEF n
      <4> QED
        BY <1>1, <1>2, <1>3, <4>3
    <3> QED
      BY <3>2, Zenon
  <2>5. Sum = (x + d) % Modulus
    BY <1>4, <2>1
  <2> QED
    BY <1>1, <1>2, <1>3, <1>4, <2>1, <2>2, <2>3, <2>4, <2>5
<1>7. ASSUME x >= Modulus PROVE Claim
  <2>1. CASE kind = "uint16"
    <3>1. Product = x
      BY <1>4, <2>1
    <3>2. Sum \in 0..(Modulus - 1)
      <4>1. x + d \in Nat /\ Modulus \in Nat \ {0}
        BY <1>1, <1>2, <1>3
      <4> QED
        BY <1>4, <3>1, <4>1, Division
    <3>3. Sum < Product
      BY <1>1, <1>3, <1>7, <3>1, <3>2
    <3> QED
      BY <1>1, <1>2, <1>3, <1>4, <1>7, <3>3
  <2>2. CASE kind # "uint16"
    <3>1. ProductOverflows
      BY <1>1, <1>3, <1>4, <1>5, <1>7, <2>2
    <3> QED
      BY <1>1, <1>2, <1>3, <1>4, <1>7, <3>1
  <2> QED
    BY <2>1, <2>2
<1>8. Claim
  BY <1>1, <1>3, <1>6, <1>7
<1> QED
  BY <1>2, <1>8, Zenon DEF d, x

(* Types after a digit was looked at.                                      *)
LEMMA NextDigit ==
  ASSUME TypeOK, AtDigit
  PROVE  /\ value * base + Head(src) \in Nat
         /\ Tail(src) \in Seq((0..35) \cup {Other})
         /\ Sum \in 0..(Modulus - 1)
         /\ base \in Nat
<1>1. Head(src) \in Nat
  BY OverflowIff
<1>2. base \in Nat /\ base # 0 /\ value \in Nat /\ v \in Nat /\ Modulus \in Nat \ {0}
  BY BaseAssumption, ModulusAssumption DEF TypeOK
<1>3. value * base \in Nat /\ v * base \in Nat
  BY <1>2
<1>4. Product \in Nat
  <2>1. (v * base) % Modulus \in Nat
    BY <1>2, <1>3, Division
  <2> QED
    BY <1>3, <2>1 DEF Product
<1>5. Sum \in 0..(Modulus - 1)
  <2>1. Product + Head(src) \in Nat
    BY <1>1, <1>4
  <2> QED
    BY <1>2, <2>1, Division DEF Sum
<1>6. Tail(src) \in Seq((0..35) \cup {Other})
  BY DEF TypeOK, AtDigit
<1> QED
  BY <1>1, <1>2, <1>3, <1>5, <1>6

(* Nothing has been looked at yet.                                         *)
LEMMA InitInv == Init => IndInv
<1> SUFFICES ASSUME Init PROVE IndInv
  OBVIOUS
<1>1. 0 \in 0..(Modulus - 1) /\ ~(0 >= Modulus)
  BY ModulusAssumption
<1>2. src \in Seq((0..35) \cup {Other})
  BY TextAssumption DEF Init
<1> QED
  BY <1>1, <1>2 DEF Init, IndInv, TypeOK, ExactRange

(* A digit that still fits.                                                *)
LEMMA AddInv ==
  ASSUME IndInv, Add
  PROVE  IndInv'
<1>1. /\ TypeOK /\ AtDigit /\ v = value /\ error = "none" /\ pc = "loop" /\ ~TooLarge
      /\ v' = Sum /\ p' = p + 1 /\ value' = value * base + Head(src) /\ src' = Tail(src)
      /\ UNCHANGED <<kind, base, error, pc, text>>
  BY DEF IndInv, ExactRange, Add, LookAt
<1>2. v' = value'
  BY <1>1, OverflowIff
<1>3. TypeOK'
  BY <1>1, <1>2, NextDigit, ModulusAssumption DEF TypeOK
<1> QED
  BY <1>1, <1>2, <1>3 DEF IndInv, ExactRange

(* A digit that does not fit any more.                                     *)
LEMMA OverflowInv ==
  ASSUME IndInv, Overflow
  PROVE  IndInv'
<1>1. /\ TypeOK /\ AtDigit /\ v = value /\ pc = "loop" /\ TooLarge
      /\ v' = (IF ProductOverflows THEN v ELSE Sum) /\ error' = "ERANGE" /\ pc' = "end"
      /\ value' = value * base + Head(src) /\ src' = Tail(src)
      /\ UNCHANGED <<kind, base, p, text>>
  BY DEF IndInv, ExactRange, Overflow, LookAt
<1>2. value' >= Modulus
  BY <1>1, OverflowIff
<1>3. TypeOK'
  BY <1>1, NextDigit, ModulusAssumption DEF TypeOK
<1> QED
  BY <1>1, <1>2, <1>3 DEF IndInv, ExactRange

-----------------------------------------------------------------------------
(* The invariant holds whatever is parsed.                                 *)
THEOREM ParseInvariance == Spec => []IndInv
<1>1. IndInv /\ [Next]_vars => IndInv'
  <2> SUFFICES ASSUME IndInv, [Next]_vars PROVE IndInv'
    OBVIOUS
  <2>1. CASE Add
    BY <2>1, AddInv
  <2>2. CASE Overflow
    BY <2>2, OverflowInv
  <2>3. CASE Stop
    <3>1. ~(value >= Modulus)
      BY <2>3, ModulusAssumption DEF Stop, IndInv, ExactRange, TypeOK
    <3> QED
      BY <2>3, <3>1 DEF Stop, IndInv, ExactRange, TypeOK
  <2>4. CASE Return
    <3>1. 0 \in 0..(Modulus - 1)
      BY ModulusAssumption
    <3>2. TypeOK'
      BY <2>4, <3>1 DEF Return, IndInv, TypeOK
    <3> QED
      BY <2>4, <3>2 DEF Return, IndInv, ExactRange, TypeOK
  <2>5. CASE UNCHANGED vars
    BY <2>5 DEF vars, IndInv, TypeOK, ExactRange
  <2> QED
    BY <2>1, <2>2, <2>3, <2>4, <2>5 DEF Next
<1> QED
  BY <1>1, InitInv, PTL DEF Spec

(* An overflow is reported if and only if the digits stand for a number    *)
(* that does not fit; otherwise the result is that number.                 *)
THEOREM OverflowDetected == Spec => []ExactRange
<1>1. IndInv => ExactRange
  BY DEF IndInv
<1> QED
  BY <1>1, ParseInvariance, PTL

-----------------------------------------------------------------------------
(* Induction: a set that contains 0 and the successor of each of its       *)
(* numbers contains every number.                                          *)
LEMMA SetInduction ==
  ASSUME NEW S, 0 \in S, \A n \in Nat : n \in S => n + 1 \in S
  PROVE  Nat \subseteq S
<1> DEFINE T == Nat \ S
<1> SUFFICES ASSUME T # {} PROVE FALSE
  OBVIOUS
<1>1. PICK x \in T : \A y \in T : ~ (<<y, x>> \in OpToRel(<, Nat))
  BY WFMin, NatLessThanWellFounded
<1>2. \A y \in T : ~ (y < x)
  BY <1>1 DEF OpToRel
<1>3. x # 0 /\ x - 1 \in Nat /\ x - 1 \notin T
  BY <1>2
<1> QED
  BY <1>3

(* The digits of the numbers up to N; two such tables agree.               *)
Table(g, N) ==
  g = [k \in 0..N |-> IF k < 10 THEN <<k>> ELSE Append(g[k \div 10], k % 10)]

LEMMA TableExists ==
  \A N \in Nat : \E g : Table(g, N)
<1> DEFINE S == {N \in Nat : \E g : Table(g, N)}
<1>1. 0 \in S
  <2> DEFINE z == [k \in 0..0 |-> <<k>>]
  <2>1. Table(z, 0)
    BY DEF Table
  <2> QED
    BY <2>1
<1>2. ASSUME NEW N \in Nat, N \in S PROVE N + 1 \in S
  <2>1. PICK g : Table(g, N)
    BY <1>2
  <2> DEFINE m == N + 1
             h == [k \in 0..m |-> IF k = m THEN (IF m < 10 THEN <<m>> ELSE Append(g[m \div 10], m % 10)) ELSE g[k]]
  <2>2. ASSUME NEW k \in 0..m
        PROVE  h[k] = IF k < 10 THEN <<k>> ELSE Append(h[k \div 10], k % 10)
    <3>1. CASE k < 10
      BY <2>1, <3>1 DEF Table
    <3>2. CASE ~(k < 10)
      <4>1. k \div 10 \in 0..N /\ k \div 10 # m /\ k \div 10 \in 0..m
        BY <3>2
      <4>2. h[k \div 10] = g[k \div 10]
        BY <4>1
      <4>3. CASE k = m
        BY <3>2, <4>2, <4>3
      <4>4. CASE k # m
        <5>1. k \in 0..N
          BY <4>4
        <5>2. h[k] = g[k]
          BY <4>4
        <5>3. g[k] = Append(g[k \div 10], k % 10)
          BY <2>1, <3>2, <5>1 DEF Table
        <5> QED
          BY <3>2, <4>2, <5>2, <5>3
      <4> QED
        BY <4>3, <4>4
    <3> QED
      BY <3>1, <3>2
  <2>3. h = [k \in 0..m |-> h[k]]
    OBVIOUS
  <2> HIDE DEF h
  <2>4. Table(h, m)
    BY <2>2, <2>3 DEF Table
  <2> QED
    BY <2>4
<1> HIDE DEF S
<1>3. Nat \subseteq S
  BY <1>1, <1>2, SetInduction
<1> QED
  BY <1>3 DEF S

LEMMA TablesAgree ==
  ASSUME NEW M \in Nat, NEW N \in Nat, NEW g, NEW h, Table(g, M), Table(h, N),
         NEW n \in Nat, n <= M, n <= N
  PROVE  g[n] = h[n]
<1> DEFINE S == {k \in Nat : \A j \in 0..k : j <= M /\ j <= N => g[j] = h[j]}
<1>1. 0 \in S
  <2>1. g[0] = <<0>> /\ h[0] = <<0>>
    BY DEF Table
  <2> QED
    BY <2>1
<1>2. ASSUME NEW k \in Nat, k \in S PROVE k + 1 \in S
  <2> DEFINE j == k + 1
  <2> SUFFICES ASSUME j <= M, j <= N PROVE g[j] = h[j]
    BY <1>2
  <2>1. j \in 0..M /\ j \in 0..N
    OBVIOUS
  <2>2. CASE j < 10
    BY <2>1, <2>2 DEF Table
  <2>3. CASE ~(j < 10)
    <3>1. j \div 10 \in 0..k /\ j \div 10 <= M /\ j \div 10 <= N
      BY <2>3
    <3>2. g[j \div 10] = h[j \div 10]
      BY <1>2, <3>1
    <3>3. g[j] = Append(g[j \div 10], j % 10) /\ h[j] = Append(h[j \div 10], j % 10)
      <4> HIDE DEF j
      <4> QED
        BY <2>1, <2>3 DEF Table
    <3> QED
      BY <3>2, <3>3
  <2> QED
    BY <2>2, <2>3
<1> HIDE DEF S
<1>3. n \in S
  BY <1>1, <1>2, SetInduction
<1> QED
  BY <1>3 DEF S

(* What print_uint collects for a number.                                  *)
LEMMA PrintedIs ==
  ASSUME NEW n \in Nat
  PROVE  Printed(n) = IF n < 10 THEN <<n>> ELSE Append(Printed(n \div 10), n % 10)
<1> DEFINE g(k) == CHOOSE t : Table(t, k)
           F == [k \in Nat |-> g(k)[k]]
           digits == CHOOSE f : f = [k \in Nat |-> IF k < 10 THEN <<k>> ELSE Append(f[k \div 10], k % 10)]
<1>1. \A k \in Nat : Table(g(k), k)
  BY TableExists
<1> HIDE DEF g
<1>2. ASSUME NEW k \in Nat PROVE F[k] = IF k < 10 THEN <<k>> ELSE Append(F[k \div 10], k % 10)
  <2>1. k \div 10 \in Nat /\ k \div 10 <= k /\ k \in 0..k
    OBVIOUS
  <2>2. g(k)[k] = IF k < 10 THEN <<k>> ELSE Append(g(k)[k \div 10], k % 10)
    <3>1. Table(g(k), k)
      BY <1>1
    <3> QED
      BY <2>1, <3>1 DEF Table
  <2>3. g(k)[k \div 10] = g(k \div 10)[k \div 10]
    BY <1>1, <2>1, TablesAgree
  <2> QED
    BY <2>1, <2>2, <2>3
<1>3. F = [k \in Nat |-> F[k]]
  OBVIOUS
<1> HIDE DEF F
<1>4. F = [k \in Nat |-> IF k < 10 THEN <<k>> ELSE Append(F[k \div 10], k % 10)]
  BY <1>2, <1>3
<1>5. digits = [k \in Nat |-> IF k < 10 THEN <<k>> ELSE Append(digits[k \div 10], k % 10)]
  BY <1>4
<1>6. \A k \in Nat : Printed(k) = digits[k]
  BY DEF Printed
<1> HIDE DEF digits
<1>7. n \div 10 \in Nat
  OBVIOUS
<1>8. digits[n] = IF n < 10 THEN <<n>> ELSE Append(digits[n \div 10], n % 10)
  BY <1>5
<1> QED
  BY <1>6, <1>7, <1>8

(* What is behind the digits is still to be looked at.                     *)
Ahead ==
  /\ text \in Seq((0..35) \cup {Other})
  /\ error = "none" => p <= Len(text)
  /\ pc = "loop" => /\ Len(src) = Len(text) - p
                    /\ \A k \in 1..Len(src) : src[k] = text[p + k]
                    /\ p = 0 => value = 0

(* The digits accepted are those of the number, if it has no leading zero. *)
Digits ==
  base = 10 /\ error = "none" /\ p > 0 /\ (text[1] = 0 => p = 1) =>
    /\ Printed(value) = SubSeq(text, 1, p)
    /\ text[1] # 0 => value > 0

DigitInv == IndInv /\ Ahead /\ Digits

(* One digit more.                                                         *)
LEMMA Longer ==
  ASSUME NEW S, NEW t \in Seq(S), NEW n \in Nat, n + 1 <= Len(t)
  PROVE  SubSeq(t, 1, n + 1) = Append(SubSeq(t, 1, n), t[n + 1])
<1> DEFINE m == n + 1
<1>1. m \in Nat /\ m > 0 /\ m \in 1..Len(t) /\ Len(t) \in Nat
  OBVIOUS
<1>2. SubSeq(t, 1, m) = [k \in 1..m |-> t[k]]
  <2> HIDE DEF m
  <2> QED
    BY <1>1
<1>3. SubSeq(t, 1, n) \in Seq(S) /\ Len(SubSeq(t, 1, n)) = n /\ SubSeq(t, 1, n) = [k \in 1..n |-> t[k]]
  <2>1. CASE n = 0
    BY <2>1
  <2>2. CASE n > 0
    BY <1>1, <2>2
  <2> QED
    BY <2>1, <2>2
<1>4. Append(SubSeq(t, 1, n), t[m]) = [k \in 1..m |-> IF k = m THEN t[m] ELSE SubSeq(t, 1, n)[k]]
  BY <1>1, <1>3
<1>5. \A k \in 1..m : (IF k = m THEN t[m] ELSE SubSeq(t, 1, n)[k]) = t[k]
  BY <1>3
<1> QED
  BY <1>2, <1>4, <1>5

(* A text with a first character.                                          *)
LEMMA First ==
  ASSUME NEW S, NEW t \in Seq(S), Len(t) > 0
  PROVE  Head(t) \in S /\ SubSeq(t, 1, 1) = <<t[1]>>
<1>1. Len(t) \in Nat /\ 1 \in 1..Len(t) /\ t # <<>>
  OBVIOUS
<1>2. SubSeq(t, 1, 1) = [k \in 1..1 |-> t[k]]
  BY <1>1
<1>3. <<t[1]>> = [k \in 1..1 |-> t[k]]
  OBVIOUS
<1>4. Head(t) \in S
  BY <1>1
<1> QED
  BY <1>2, <1>3, <1>4

LEMMA AddDigits ==
  ASSUME DigitInv, Add
  PROVE  Ahead' /\ Digits'
<1>1. /\ TypeOK /\ AtDigit /\ v = value /\ error = "none" /\ pc = "loop"
      /\ p' = p + 1 /\ value' = value * base + Head(src) /\ src' = Tail(src)
      /\ UNCHANGED <<kind, base, error, pc, text>>
  BY DEF DigitInv, IndInv, ExactRange, Add, LookAt
<1>2. /\ p \in Nat /\ value \in Nat /\ p <= Len(text) /\ text \in Seq((0..35) \cup {Other})
      /\ src \in Seq((0..35) \cup {Other}) /\ src # <<>>
      /\ Len(src) = Len(text) - p /\ (\A k \in 1..Len(src) : src[k] = text[p + k])
      /\ (p = 0 => value = 0)
  BY <1>1 DEF DigitInv, TypeOK, Ahead, AtDigit
<1>3. Len(src) \in Nat /\ Len(src) > 0 /\ Head(src) = src[1] /\ Head(src) = text[p + 1] /\ p + 1 <= Len(text)
  BY <1>2
<1>4. Ahead'
  <2>1. Len(Tail(src)) = Len(src) - 1 /\ \A k \in 1..(Len(src) - 1) : Tail(src)[k] = src[k + 1]
    BY <1>2, <1>3
  <2>2. Len(src') = Len(text) - p'
    BY <1>1, <1>2, <1>3, <2>1
  <2>3. ASSUME NEW k \in 1..Len(src') PROVE src'[k] = text[p' + k]
    <3>1. k + 1 \in 1..Len(src) /\ k \in 1..(Len(src) - 1) /\ p + (k + 1) = p' + k
      BY <1>1, <1>2, <1>3, <2>1
    <3>2. src[k + 1] = text[p + (k + 1)]
      BY <1>2, <3>1
    <3> QED
      BY <1>1, <2>1, <3>1, <3>2
  <2> QED
    BY <1>1, <1>2, <1>3, <2>2, <2>3 DEF Ahead
<1>5. Digits'
  <2> SUFFICES ASSUME base = 10, text[1] = 0 => p' = 1
               PROVE  /\ Printed(value') = SubSeq(text, 1, p')
                      /\ text[1] # 0 => value' > 0
    BY <1>1 DEF Digits
  <2> DEFINE d == Head(src)
  <2>1. d \in 0..9 /\ d = text[p + 1] /\ value' = value * 10 + d /\ value' \in Nat
    <3>1. Head(src) \in (0..35) \cup {Other}
      BY <1>2, <1>3, First
    <3>2. Head(src) # Other /\ Head(src) < 10
      BY <1>1 DEF AtDigit
    <3>3. d \in 0..9
      BY <3>1, <3>2
    <3>4. d = text[p + 1] /\ value' = value * 10 + d
      BY <1>1, <1>3
    <3> QED
      BY <1>2, <3>3, <3>4
  <2> HIDE DEF d
  <2>2. SubSeq(text, 1, p + 1) = Append(SubSeq(text, 1, p), text[p + 1])
    BY <1>2, <1>3, Longer
  <2>3. CASE p = 0
    <3>1. value' = d /\ value' < 10
      BY <1>2, <2>1, <2>3
    <3>2. Printed(value') = <<d>>
      BY <2>1, <3>1, PrintedIs
    <3>3. SubSeq(text, 1, 1) = <<text[1]>>
      <4>1. Len(text) > 0
        BY <1>2, <1>3, <2>3
      <4> QED
        BY <1>2, <4>1, First
    <3>4. d = text[1] /\ p' = 1
      BY <1>1, <2>1, <2>3
    <3> QED
      BY <2>1, <3>1, <3>2, <3>3, <3>4
  <2>4. CASE p # 0
    <3>1. text[1] # 0 /\ p > 0
      BY <1>1, <1>2, <2>4
    <3>2. Printed(value) = SubSeq(text, 1, p) /\ value > 0
      BY <1>1, <3>1 DEF DigitInv, Digits
    <3>3. value' >= 10 /\ value' \div 10 = value /\ value' % 10 = d
      <4>1. value \in Nat /\ value > 0 /\ d \in 0..9 /\ value' = value * 10 + d
        BY <1>2, <2>1, <3>2
      <4> DEFINE w == value * 10 + d
      <4>2. w >= 10 /\ w \div 10 = value /\ w % 10 = d
        BY <4>1
      <4> HIDE DEF w
      <4> QED
        BY <4>1, <4>2 DEF w
    <3>4. Printed(value') = Append(Printed(value), d)
      <4>1. ~(value' < 10)
        BY <2>1, <3>3
      <4> QED
        BY <2>1, <3>3, <4>1, PrintedIs
    <3>5. value' > 0
      BY <2>1, <3>3
    <3> QED
      BY <1>1, <2>1, <2>2, <3>2, <3>4, <3>5, Zenon
  <2> QED
    BY <2>3, <2>4
<1> QED
  BY <1>4, <1>5

(* The digits that were accepted are known in every reachable state.       *)
THEOREM DigitsKnown == Spec => []DigitInv
<1>1. Init => Ahead /\ Digits
  <2> SUFFICES ASSUME Init PROVE Ahead /\ Digits
    OBVIOUS
  <2>1. text \in Seq((0..35) \cup {Other})
    BY TextAssumption DEF Init
  <2> QED
    BY <2>1 DEF Init, Ahead, Digits
<1>2. DigitInv /\ IndInv' /\ [Next]_vars => DigitInv'
  <2> SUFFICES ASSUME DigitInv, [Next]_vars PROVE Ahead' /\ Digits'
    BY DEF DigitInv
  <2>1. CASE Add
    BY <2>1, AddDigits
  <2>2. CASE Overflow
    BY <2>2 DEF Overflow, DigitInv, Ahead, Digits
  <2>3. CASE Stop
    BY <2>3 DEF Stop, DigitInv, Ahead, Digits
  <2>4. CASE Return
    <3>1. pc' = "done" /\ UNCHANGED <<base, src, p, value, text>> /\ pc = "end" /\ (error' = "none" => error = "none")
      BY <2>4 DEF Return
    <3> QED
      BY <3>1 DEF DigitInv, Ahead, Digits
  <2>5. CASE UNCHANGED vars
    BY <2>5 DEF vars, DigitInv, Ahead, Digits
  <2> QED
    BY <2>1, <2>2, <2>3, <2>4, <2>5 DEF Next
<1> QED
  BY <1>1, <1>2, InitInv, ParseInvariance, PTL DEF Spec, DigitInv

(* What is parsed is printed as it was written.                            *)
THEOREM ParsedPrintsBack == Spec => []PrintsBack
<1>1. DigitInv => PrintsBack
  <2> SUFFICES ASSUME DigitInv, pc = "done", base = 10, error = "none", p = Len(text), text[1] = 0 => p = 1
               PROVE  Printed(v) = text
    BY DEF PrintsBack
  <2>1. v = value /\ p > 0 /\ text \in Seq((0..35) \cup {Other})
    BY DEF DigitInv, IndInv, ExactRange, Ahead
  <2>2. Printed(value) = SubSeq(text, 1, Len(text))
    BY <2>1 DEF DigitInv, Digits
  <2>3. SubSeq(text, 1, Len(text)) = text
    BY <2>1
  <2> QED
    BY <2>1, <2>2, <2>3
<1> QED
  BY <1>1, DigitsKnown, PTL
=============================================================================

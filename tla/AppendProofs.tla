---------------------------- MODULE AppendProofs ----------------------------
(***************************************************************************)
(* No sequence of calls of the append functions stores beyond the buffer,  *)
(* and what is in it is what the functions promise: prefixes, NULs, whole  *)
(* escape sequences; for every buffer, every text and every number.        *)
(***************************************************************************)
EXTENDS Append, TLAPS

(* The invariant: types, and the room that is left behind the pointer.     *)
AppendInv == TypeOK /\ InBounds

(* The first n elements of a text, and the last ones.                      *)
LEMMA Cut ==
  ASSUME NEW S, NEW t \in Seq(S), NEW n \in Nat, n <= Len(t)
  PROVE  /\ Len(t) \in Nat
         /\ SubSeq(t, 1, n) \in Seq(S) /\ Len(SubSeq(t, 1, n)) = n
         /\ SubSeq(t, Len(t) - n + 1, Len(t)) \in Seq(S)
         /\ Len(SubSeq(t, Len(t) - n + 1, Len(t))) = n
<1>1. Len(t) \in Nat
  OBVIOUS
<1>2. CASE n = 0
  BY <1>1, <1>2
<1>3. CASE n > 0
  BY <1>1, <1>3
<1> QED
  BY <1>1, <1>2, <1>3

(* The smaller of two numbers.                                             *)
LEMMA LeastBound ==
  ASSUME NEW m \in Nat, NEW n \in Nat
  PROVE  Least(m, n) \in Nat /\ Least(m, n) <= m /\ Least(m, n) <= n
BY DEF Least

(* What Store does if there is room for the text and for its NUL.          *)
LEMMA StoreInBounds ==
  ASSUME TypeOK, high <= cap, dst # Null,
         NEW S, NEW t \in Seq(S), NEW nul \in BOOLEAN,
         Store(t, nul),
         dst + Len(t) + (IF nul THEN 1 ELSE 0) <= cap, cap' = cap
  PROVE  /\ dst' \in Nat /\ dst' # Null /\ dst' = dst + Len(t)
         /\ high' \in Nat /\ high' <= cap
         /\ DOMAIN mem' = 1..cap
<1>1. dst \in Nat /\ cap \in Nat /\ high \in Nat
  BY DEF TypeOK
<1>6. Len(t) \in Nat
  OBVIOUS
<1>2. dst' = dst + Len(t)
  BY DEF Store
<1>3. dst' \in Nat /\ dst' # Null
  BY <1>1, <1>2, <1>6, NullAssumption
<1>4. high' \in Nat /\ high' <= cap
  BY <1>1, <1>6 DEF Store
<1>5. DOMAIN mem' = 1..cap
  BY DEF Store
<1> QED
  BY <1>2, <1>3, <1>4, <1>5

(* The pointer and the size after a call of a function without a loop.     *)
LEMMA DoInv ==
  ASSUME AppendInv, pc = "call", dst # Null,
         NEW op, NEW t \in Seq(Chars), Do(op, t)
  PROVE  /\ dst' \in Nat /\ dst' # Null /\ size' \in Nat /\ dst' + size' <= cap
         /\ high' \in Nat /\ high' <= cap
         /\ DOMAIN mem' = 1..cap
<1>1. /\ dst \in Nat /\ size \in Nat /\ cap \in Nat /\ high \in Nat
      /\ dst + size <= cap /\ high <= cap
      /\ DOMAIN mem = 1..cap /\ cap' = cap
      /\ Len(t) \in Nat
  BY DEF AppendInv, TypeOK, InBounds, Do
<1> DEFINE Goal == /\ dst' \in Nat /\ dst' # Null /\ size' \in Nat /\ dst' + size' <= cap
                   /\ high' \in Nat /\ high' <= cap
                   /\ DOMAIN mem' = 1..cap
<1>2. ASSUME Nothing, size' = size PROVE Goal
  BY <1>1, <1>2 DEF Nothing
<1>3. ASSUME NEW u \in Seq(Chars), NEW nul \in BOOLEAN, Store(u, nul),
             Len(u) + (IF nul THEN 1 ELSE 0) <= size,
             size' \in Nat, size' <= size - Len(u)
      PROVE  Goal
  <2>1. Len(u) \in Nat
    BY <1>3
  <2>2. dst + Len(u) + (IF nul THEN 1 ELSE 0) <= cap
    BY <1>1, <1>3, <2>1
  <2>3. /\ dst' \in Nat /\ dst' # Null /\ dst' = dst + Len(u)
        /\ high' \in Nat /\ high' <= cap /\ DOMAIN mem' = 1..cap
    BY <1>1, <1>3, <2>2, StoreInBounds DEF AppendInv
  <2> QED
    BY <1>1, <1>3, <2>1, <2>3
<1> HIDE DEF Goal
<1>4. ASSUME NEW n \in Nat, n <= Len(t), NEW nul \in BOOLEAN,
             n + (IF nul THEN 1 ELSE 0) <= size,
             \/ Store(SubSeq(t, 1, n), nul)
             \/ Store(SubSeq(t, Len(t) - n + 1, Len(t)), nul),
             size' \in Nat, size' <= size - n
      PROVE  Goal
  <2>1. CASE Store(SubSeq(t, 1, n), nul)
    <3>1. SubSeq(t, 1, n) \in Seq(Chars) /\ Len(SubSeq(t, 1, n)) = n
      BY <1>4, Cut
    <3> QED
      BY <1>3, <1>4, <2>1, <3>1
  <2>2. CASE Store(SubSeq(t, Len(t) - n + 1, Len(t)), nul)
    <3>1. /\ SubSeq(t, Len(t) - n + 1, Len(t)) \in Seq(Chars)
          /\ Len(SubSeq(t, Len(t) - n + 1, Len(t))) = n
      BY <1>4, Cut
    <3> QED
      BY <1>3, <1>4, <2>2, <3>1
  <2> QED
    BY <1>4, <2>1, <2>2
<1>5. ASSUME PutUint(t) \/ PutUint32(t) PROVE Goal
  <2>1. CASE size = 0
    BY <1>2, <1>5, <2>1 DEF PutUint, PutUint32, Nothing
  <2>2. CASE size > 0
    <3> DEFINE n == Least(Len(t), size - 1)
    <3>1. n \in Nat /\ n <= Len(t) /\ n <= size - 1
      <4>1. size - 1 \in Nat
        BY <1>1, <2>2
      <4> QED
        BY <1>1, <4>1, LeastBound
    <3>2. /\ Store(SubSeq(t, 1, n), TRUE) \/ Store(SubSeq(t, Len(t) - n + 1, Len(t)), TRUE)
          /\ size' = size - n
      <4>1. ~(size < 1)
        BY <1>1, <2>2
      <4>2. CASE PutUint(t)
        BY <4>1, <4>2, Zenon DEF PutUint
      <4>3. CASE PutUint32(t)
        BY <4>1, <4>3, Zenon DEF PutUint32
      <4> QED
        BY <1>5, <4>2, <4>3
    <3> HIDE DEF n
    <3>3. size' \in Nat /\ size' <= size - n /\ n + 1 <= size
      BY <1>1, <3>1, <3>2
    <3> QED
      BY <1>4, <3>1, <3>2, <3>3
  <2> QED
    BY <1>1, <2>1, <2>2
<1>6. ASSUME PutString(t) PROVE Goal
  <2>1. CASE size = 0
    BY <1>2, <1>6, <2>1 DEF PutString, Nothing
  <2>2. CASE size > 0
    <3> DEFINE n == Least(Len(t), size - 1)
    <3>1. n \in Nat /\ n <= Len(t) /\ n <= size - 1
      <4>1. size - 1 \in Nat
        BY <1>1, <2>2
      <4> QED
        BY <1>1, <4>1, LeastBound
    <3>2. /\ Store(SubSeq(t, 1, n), TRUE)
          /\ size' = IF Len(t) < size THEN size - Len(t) ELSE 0
      <4>1. ~(size = 0)
        BY <1>1, <2>2
      <4> QED
        BY <4>1, <1>6, Zenon DEF PutString
    <3>3. n = IF Len(t) < size THEN Len(t) ELSE size - 1
      BY <1>1 DEF Least
    <3> HIDE DEF n
    <3>4. size' \in Nat /\ size' <= size - n /\ n + 1 <= size
      BY <1>1, <2>2, <3>1, <3>2, <3>3
    <3> QED
      BY <1>4, <3>1, <3>2, <3>4
  <2> QED
    BY <1>1, <2>1, <2>2
<1>7. ASSUME PutChars(t) PROVE Goal
  <2> DEFINE n == Least(Len(t), size)
  <2>1. n \in Nat /\ n <= Len(t) /\ n <= size
    BY <1>1, LeastBound
  <2>2. Store(SubSeq(t, 1, n), FALSE) /\ size' = size - n
    BY <1>7 DEF PutChars
  <2> HIDE DEF n
  <2>3. size' \in Nat /\ size' <= size - n /\ n + 0 <= size
    BY <1>1, <2>1, <2>2
  <2> QED
    BY <1>4, <2>1, <2>2, <2>3
<1>8. PutString(t) \/ PutChars(t) \/ PutUint(t) \/ PutUint32(t)
  BY DEF Do, PutUint64
<1>9. Goal
  BY <1>5, <1>6, <1>7, <1>8
<1> QED
  BY <1>9 DEF Goal

(* What a character becomes is one, two or four bytes.                     *)
LEMMA EscapeLength ==
  ASSUME NEW c
  PROVE  \E S : Escape(c) \in Seq(S) /\ Len(Escape(c)) \in 1..4
<1> DEFINE S == {Backslash, Digit, c}
<1>1. /\ <<Backslash, Digit, Digit, Digit>> \in Seq(S)
      /\ <<Backslash, c>> \in Seq(S) /\ <<c>> \in Seq(S)
  OBVIOUS
<1>2. /\ Len(<<Backslash, Digit, Digit, Digit>>) = 4
      /\ Len(<<Backslash, c>>) = 2 /\ Len(<<c>>) = 1
  OBVIOUS
<1>3. \/ Escape(c) = <<Backslash, Digit, Digit, Digit>>
      \/ Escape(c) = <<Backslash, c>>
      \/ Escape(c) = <<c>>
  BY DEF Escape
<1> HIDE DEF S
<1>4. Escape(c) \in Seq(S) /\ Len(Escape(c)) \in 1..4
  <2>1. CASE Escape(c) = <<Backslash, Digit, Digit, Digit>>
    BY <1>1, <1>2, <2>1
  <2>2. CASE Escape(c) = <<Backslash, c>>
    BY <1>1, <1>2, <2>2
  <2>3. CASE Escape(c) = <<c>>
    BY <1>1, <1>2, <2>3
  <2> QED
    BY <1>3, <2>1, <2>2, <2>3
<1> QED
  BY <1>4

(* Nothing has been stored yet.                                            *)
LEMMA InitInv ==
  ASSUME Init
  PROVE  AppendInv
<1>1. /\ cap \in Nat /\ dst = 0 /\ size = cap /\ left = 0 /\ high = 0
      /\ DOMAIN mem = 1..cap /\ pc = "call" /\ src = <<>> /\ plan = <<>>
  BY CapacityAssumption DEF Init
<1>2. PendingOK
  BY <1>1 DEF PendingOK
<1>3. dst # Null
  BY <1>1, NullAssumption
<1> QED
  BY <1>1, <1>2, <1>3 DEF AppendInv, TypeOK, InBounds

-----------------------------------------------------------------------------
(* What a caller, and append_size, append is made of characters.           *)
LEMMA CallText ==
  ASSUME Call
  PROVE  \E op, t : t \in Seq(Chars) /\ Do(op, t)
<1>1. Texts \subseteq Seq(Chars) /\ Numbers \subseteq Seq(Chars)
  BY TextAssumption, Zenon
<1>2. ASSUME NEW t \in Texts \cup Numbers, NEW op, Do(op, t)
      PROVE  \E o, u : u \in Seq(Chars) /\ Do(o, u)
  BY <1>1, <1>2, Zenon
<1> QED
  BY <1>2, Zenon DEF Call

LEMMA SizeCallText ==
  ASSUME AppendInv, SizeCall
  PROVE  \E op, t : t \in Seq(Chars) /\ Do(op, t)
<1> DEFINE C == [op : {"uint64", "chars"}, text : Seq(Chars)]
<1>1. plan \in Seq(C) /\ plan # <<>>
  BY DEF AppendInv, TypeOK, PendingOK, SizeCall
<1>2. Head(plan) \in C
  <2> HIDE DEF C
  <2> QED
    BY <1>1
<1>3. PICK c \in C : Do(c.op, c.text)
  <2> HIDE DEF C
  <2> QED
    BY <1>2, Zenon DEF SizeCall
<1>4. c.text \in Seq(Chars)
  OBVIOUS
<1> HIDE DEF C
<1> QED
  BY <1>3, <1>4, Zenon

(* A call of a caller.                                                     *)
LEMMA CallInv ==
  ASSUME AppendInv, Call
  PROVE  AppendInv'
<1>1. PICK op, t : t \in Seq(Chars) /\ Do(op, t)
  BY CallText
<1>2. pc = "call" /\ dst # Null /\ cap' = cap /\ UNCHANGED <<src, left, pc, plan>>
  BY <1>1 DEF Call, Ready, Do
<1>3. /\ dst' \in Nat /\ dst' # Null /\ size' \in Nat /\ dst' + size' <= cap
      /\ high' \in Nat /\ high' <= cap
      /\ DOMAIN mem' = 1..cap
  BY <1>1, <1>2, DoInv
<1> QED
  BY <1>2, <1>3 DEF AppendInv, TypeOK, PendingOK, InBounds

(* append_date, which may lose the pointer.                                *)
LEMMA DateInv ==
  ASSUME AppendInv, Date
  PROVE  AppendInv'
<1>1. /\ dst \in Nat /\ size \in Nat /\ cap \in Nat /\ high \in Nat
      /\ dst + size <= cap /\ high <= cap /\ pc = "call" /\ dst # Null
      /\ cap' = cap /\ UNCHANGED <<plan, src, left, pc>>
  BY DEF AppendInv, TypeOK, InBounds, Date, Ready, local
<1>2. DateText \in Seq(Chars)
  BY TextAssumption
<1>3. CASE size > Len(DateText)
  <2>1. Store(DateText, TRUE) /\ size' = size - Len(DateText) /\ Len(DateText) \in Nat
    <3>1. PutDate
      BY DEF Date
    <3>2. Store(DateText, TRUE) /\ size' = size - Len(DateText)
      BY <1>3, <3>1, Zenon DEF PutDate
    <3>3. Len(DateText) \in Nat
      BY <1>2
    <3> QED
      BY <3>2, <3>3, Zenon
  <2>2. dst + Len(DateText) + (IF TRUE THEN 1 ELSE 0) <= cap
    BY <1>1, <1>3, <2>1
  <2>3. /\ dst' \in Nat /\ dst' # Null /\ dst' = dst + Len(DateText)
        /\ high' \in Nat /\ high' <= cap /\ DOMAIN mem' = 1..cap
    BY <1>1, <1>2, <2>1, <2>2, StoreInBounds DEF AppendInv
  <2>4. size' \in Nat /\ dst' + size' <= cap
    BY <1>1, <1>3, <2>1, <2>3
  <2> QED
    BY <1>1, <2>3, <2>4 DEF AppendInv, TypeOK, PendingOK, InBounds
<1>4. CASE ~(size > Len(DateText))
  <2>1. /\ DOMAIN mem' = 1..cap /\ dst' = Null /\ size' = size + Base + dst
        /\ high' = IF size > 0 /\ dst + 1 > high THEN dst + 1 ELSE high
    <3>1. PutDate
      BY DEF Date
    <3> QED
      BY <1>4, <3>1, Zenon DEF PutDate
  <2>2. high' \in Nat /\ high' <= cap /\ size' \in Nat
    BY <1>1, <2>1, BaseAssumption
  <2> QED
    <3>1. plan = <<>>
      BY DEF Date, Ready
    <3> QED
      BY <1>1, <2>1, <2>2, <3>1 DEF AppendInv, TypeOK, PendingOK, InBounds
<1> QED
  BY <1>3, <1>4

(* append_size lists its calls.                                            *)
LEMMA SizeInv ==
  ASSUME AppendInv, Size
  PROVE  AppendInv'
<1>1. UNCHANGED <<cap, dst, size, mem, src, left, pc, high>>
  BY DEF Size
<1>2. plan' \in Seq([op : {"uint64", "chars"}, text : Seq(Chars)])
  <2> DEFINE C == [op : {"uint64", "chars"}, text : Seq(Chars)]
             call(op, t) == [op |-> op, text |-> t]
  <2>1. PICK s \in Scaled :
          plan' = IF s.suf = <<>>
                  THEN <<call("uint64", s.i), call("chars", <<Blank, Unit>>)>>
                  ELSE <<call("uint64", s.i), call("chars", <<Dot>>), call("uint64", s.f),
                         call("chars", <<Blank>>), call("chars", s.suf), call("chars", <<Unit>>)>>
    BY DEF Size
  <2>2. s.i \in Seq(Chars) /\ s.f \in Seq(Chars) /\ s.suf \in Seq(Chars)
    BY TextAssumption
  <2>3. /\ <<Blank>> \in Seq(Chars) /\ <<Dot>> \in Seq(Chars) /\ <<Unit>> \in Seq(Chars)
        /\ <<Blank, Unit>> \in Seq(Chars)
    <3>1. Blank \in Chars /\ Dot \in Chars /\ Unit \in Chars
      BY TextAssumption
    <3> QED
      BY <3>1
  <2>4. \A op \in {"uint64", "chars"}, t \in Seq(Chars) : call(op, t) \in C
    OBVIOUS
  <2> HIDE DEF C, call
  <2>5. /\ call("uint64", s.i) \in C /\ call("uint64", s.f) \in C /\ call("chars", s.suf) \in C
        /\ call("chars", <<Blank>>) \in C /\ call("chars", <<Dot>>) \in C
        /\ call("chars", <<Unit>>) \in C /\ call("chars", <<Blank, Unit>>) \in C
    BY <2>2, <2>3, <2>4
  <2>6. plan' \in Seq(C)
    BY <2>1, <2>5
  <2> QED
    BY <2>6 DEF C
<1> QED
  BY <1>1, <1>2 DEF AppendInv, TypeOK, PendingOK, InBounds, Reserve, Size, Ready

(* A call made by append_size.                                             *)
LEMMA SizeCallInv ==
  ASSUME AppendInv, SizeCall
  PROVE  AppendInv'
<1> DEFINE C == [op : {"uint64", "chars"}, text : Seq(Chars)]
<1>1. plan \in Seq(C) /\ plan # <<>> /\ pc = "call"
  BY DEF AppendInv, TypeOK, PendingOK, SizeCall
<1>2. Head(plan) \in C /\ Tail(plan) \in Seq(C)
  <2> HIDE DEF C
  <2> QED
    BY <1>1
<1>3. dst # Null
  BY DEF AppendInv, TypeOK, SizeCall
<1>4. PICK op, t : t \in Seq(Chars) /\ Do(op, t)
  BY SizeCallText
<1> HIDE DEF C
<1>5. cap' = cap /\ plan' = Tail(plan) /\ UNCHANGED <<src, left, pc>>
  BY <1>4 DEF SizeCall, Do
<1>6. /\ dst' \in Nat /\ dst' # Null /\ size' \in Nat /\ dst' + size' <= cap
      /\ high' \in Nat /\ high' <= cap
      /\ DOMAIN mem' = 1..cap
  BY <1>1, <1>3, <1>4, DoInv
<1>7. PendingOK'
  BY <1>2, <1>5 DEF AppendInv, TypeOK, PendingOK, C
<1> QED
  BY <1>1, <1>5, <1>6, <1>7 DEF AppendInv, TypeOK, InBounds

-----------------------------------------------------------------------------
(* The loops over a string to be escaped.                                  *)
LEMMA EscapeBeginInv ==
  ASSUME AppendInv, EscapeBegin
  PROVE  AppendInv'
<1>1. /\ dst \in Nat /\ size \in Nat /\ cap \in Nat
      /\ dst + size <= cap /\ high <= cap /\ pc = "call" /\ dst # Null
      /\ UNCHANGED <<cap, dst, size, mem, plan, high>>
  BY DEF AppendInv, TypeOK, InBounds, EscapeBegin, Ready
<1>2. PICK t \in Texts, loop \in {"escape", "escape_chars"} :
         IF size = 0 THEN UNCHANGED <<src, left, pc>>
         ELSE /\ pc' = loop /\ src' = t
              /\ left' = IF loop = "escape" THEN size - 1 ELSE size
  BY DEF EscapeBegin
<1>3. t \in Seq(Chars)
  BY TextAssumption
<1>4. CASE size = 0
  BY <1>1, <1>2, <1>4 DEF AppendInv, TypeOK, PendingOK, InBounds
<1>5. CASE size # 0
  <2>1. /\ pc' = loop /\ pc' # "call" /\ src' = t
        /\ left' \in Nat /\ dst' + left' + Reserve' <= cap'
    BY <1>1, <1>2, <1>5 DEF Reserve
  <2>2. PendingOK'
    BY <1>1, <1>3, <2>1 DEF AppendInv, TypeOK, PendingOK
  <2>3. plan = <<>>
    BY DEF EscapeBegin, Ready
  <2> QED
    BY <1>1, <2>1, <2>2, <2>3 DEF AppendInv, TypeOK, InBounds
<1> QED
  BY <1>4, <1>5

LEMMA EscapeStepInv ==
  ASSUME AppendInv, EscapeChar \/ EscapeEnd
  PROVE  AppendInv'
<1>1. /\ dst \in Nat /\ dst # Null /\ left \in Nat /\ cap \in Nat /\ high \in Nat /\ size \in Nat
      /\ pc \in {"escape", "escape_chars"}
      /\ dst + left + Reserve <= cap /\ high <= cap /\ Reserve \in {0, 1}
      /\ cap' = cap /\ plan' = plan
  BY DEF AppendInv, TypeOK, InBounds, EscapeChar, EscapeEnd, Reserve
<1>2. CASE EscapeChar
  <2> DEFINE e == Escape(Head(src))
  <2>1. PICK S : e \in Seq(S) /\ Len(e) \in 1..4
    BY EscapeLength
  <2>2. Store(e, FALSE) /\ left' = left - Len(e) /\ Len(e) <= left
    BY <1>2 DEF EscapeChar, EscapeMore
  <2> HIDE DEF e
  <2>3. dst + Len(e) + (IF FALSE THEN 1 ELSE 0) <= cap
    BY <1>1, <2>1, <2>2
  <2>4. /\ dst' \in Nat /\ dst' # Null /\ dst' = dst + Len(e)
        /\ high' \in Nat /\ high' <= cap /\ DOMAIN mem' = 1..cap
    BY <1>1, <2>1, <2>2, <2>3, StoreInBounds DEF AppendInv
  <2>5. left' \in Nat /\ dst' + left' + Reserve' <= cap'
    BY <1>1, <1>2, <2>1, <2>2, <2>4 DEF EscapeChar, Reserve
  <2>6. src' \in Seq(Chars)
    BY <1>2 DEF EscapeChar, EscapeMore, AppendInv, TypeOK, PendingOK
  <2>7. size' = size /\ pc' = pc
    BY <1>2 DEF EscapeChar
  <2>8. PendingOK'
    BY <1>1, <2>6 DEF AppendInv, TypeOK, PendingOK
  <2> QED
    BY <1>1, <2>4, <2>5, <2>7, <2>8 DEF AppendInv, TypeOK, InBounds
<1>3. CASE EscapeEnd
  <2> DEFINE nul == (pc = "escape")
  <2>1. Store(<<>>, nul) /\ size' = left /\ pc' = "call" /\ UNCHANGED <<src, left>>
    BY <1>3 DEF EscapeEnd
  <2>2. nul \in BOOLEAN /\ <<>> \in Seq(Chars) /\ Len(<<>>) = 0
    OBVIOUS
  <2>3. dst + 0 + (IF nul THEN 1 ELSE 0) <= cap
    BY <1>1 DEF Reserve
  <2> HIDE DEF nul
  <2>4. /\ dst' \in Nat /\ dst' # Null /\ dst' = dst + 0
        /\ high' \in Nat /\ high' <= cap /\ DOMAIN mem' = 1..cap
    BY <1>1, <2>1, <2>2, <2>3, StoreInBounds DEF AppendInv
  <2>5. PendingOK'
    BY <1>1, <2>1 DEF AppendInv, TypeOK, PendingOK
  <2> QED
    BY <1>1, <2>1, <2>4, <2>5 DEF AppendInv, TypeOK, InBounds
<1> QED
  BY <1>2, <1>3

-----------------------------------------------------------------------------
(* The invariant holds in every reachable state, however many calls are    *)
(* made and in whatever order.                                             *)
THEOREM RoomLeft == Spec => []AppendInv
<1>1. AppendInv /\ [Next]_vars => AppendInv'
  <2> SUFFICES ASSUME AppendInv, [Next]_vars PROVE AppendInv'
    OBVIOUS
  <2>1. CASE Call
    BY <2>1, CallInv
  <2>2. CASE Date
    BY <2>2, DateInv
  <2>3. CASE Size
    BY <2>3, SizeInv
  <2>4. CASE SizeCall
    BY <2>4, SizeCallInv
  <2>5. CASE EscapeBegin
    BY <2>5, EscapeBeginInv
  <2>6. CASE EscapeChar \/ EscapeEnd
    BY <2>6, EscapeStepInv
  <2>7. CASE UNCHANGED vars
    BY <2>7 DEF vars, local, history, AppendInv, TypeOK, PendingOK, InBounds, Reserve
  <2> QED
    BY <2>1, <2>2, <2>3, <2>4, <2>5, <2>6, <2>7 DEF Next
<1> QED
  BY <1>1, InitInv, PTL DEF Spec

(* No append function stores beyond the buffer it was given.               *)
THEOREM NoOverflow == Spec => []InBounds
<1>1. AppendInv => InBounds
  BY DEF AppendInv
<1> QED
  BY <1>1, RoomLeft, PTL

(* What was appended is never overwritten by a later call.                 *)
THEOREM TextIsKept == Spec => TextStays
<1>1. AppendInv /\ [Next]_vars => [dst # Null => \A k \in 1..dst : mem'[k] = mem[k]]_vars
  <2> SUFFICES ASSUME AppendInv, Next, dst # Null, NEW k \in 1..dst PROVE mem'[k] = mem[k]
    OBVIOUS
  <2>1. dst \in Nat /\ cap \in Nat /\ dst <= cap /\ k \in 1..cap /\ ~(dst < k) /\ k # dst + 1
    BY DEF AppendInv, TypeOK, InBounds, Reserve
  <2>2. ASSUME NEW t, NEW nul, Store(t, nul) PROVE mem'[k] = mem[k]
    BY <2>1, <2>2 DEF Store
  <2>3. CASE Call \/ SizeCall
    <3>1. PICK op, t : Do(op, t)
      BY <2>3, Zenon DEF Call, SizeCall
    <3>2. \/ Nothing
          \/ \E u, nul : Store(u, nul)
      BY <3>1, Zenon DEF Do, PutString, PutChars, PutUint, PutUint32, PutUint64
    <3>3. CASE Nothing
      BY <3>3 DEF Nothing
    <3>4. CASE \E u, nul : Store(u, nul)
      BY <2>2, <3>4
    <3> QED
      BY <3>2, <3>3, <3>4
  <2>4. CASE Date
    <3>1. PutDate
      BY <2>4 DEF Date
    <3>2. \/ Store(DateText, TRUE)
          \/ mem' = [n \in 1..cap |-> IF size > 0 /\ n = dst + 1 THEN NUL ELSE mem[n]]
      BY <3>1, Zenon DEF PutDate
    <3> QED
      BY <2>1, <2>2, <3>2
  <2>5. CASE EscapeChar \/ EscapeEnd
    <3>1. \E u, nul : Store(u, nul)
      BY <2>5, Zenon DEF EscapeChar, EscapeEnd
    <3> QED
      BY <2>2, <3>1
  <2>6. CASE Size \/ EscapeBegin
    BY <2>6 DEF Size, EscapeBegin
  <2> QED
    BY <2>3, <2>4, <2>5, <2>6 DEF Next
<1> QED
  BY <1>1, RoomLeft, PTL DEF Spec, TextStays

-----------------------------------------------------------------------------
(* What was stored where, if there is room for the text and for its NUL.   *)
LEMMA Stored ==
  ASSUME TypeOK, dst # Null, NEW S, NEW t \in Seq(S), NEW nul \in BOOLEAN,
         Store(t, nul), dst + Len(t) + (IF nul THEN 1 ELSE 0) <= cap
  PROVE  /\ dst \in Nat /\ dst' = dst + Len(t)
         /\ \A k \in 1..dst : mem'[k] = mem[k]
         /\ \A k \in 1..Len(t) : mem'[dst + k] = t[k]
         /\ nul => dst' < cap /\ mem'[dst' + 1] = NUL
<1>1. dst \in Nat /\ cap \in Nat /\ Len(t) \in Nat /\ DOMAIN mem = 1..cap
  BY DEF TypeOK
<1> DEFINE end == dst + Len(t)
<1>2. /\ dst' = end
      /\ mem' = [k \in 1..cap |-> IF dst < k /\ k <= end THEN t[k - dst]
                                  ELSE IF nul /\ k = end + 1 THEN NUL ELSE mem[k]]
  BY DEF Store
<1>3. end \in Nat /\ end >= dst /\ end <= cap /\ (nul => end + 1 <= cap)
  BY <1>1
<1>4. \A k \in 1..dst : mem'[k] = mem[k]
  BY <1>1, <1>2, <1>3
<1>5. \A k \in 1..Len(t) : mem'[dst + k] = t[k]
  <2> TAKE k \in 1..Len(t)
  <2>1. dst + k \in 1..cap /\ dst < dst + k /\ dst + k <= end /\ (dst + k) - dst = k
    BY <1>1, <1>3
  <2> HIDE DEF end
  <2> QED
    BY <1>2, <2>1
<1>6. nul => dst' < cap /\ mem'[dst' + 1] = NUL
  <2> HIDE DEF end
  <2>1. nul => end + 1 \in 1..cap /\ ~(end + 1 <= end)
    BY <1>3, <1>1
  <2> QED
    BY <1>1, <1>2, <1>3, <2>1
<1> QED
  BY <1>1, <1>2, <1>4, <1>5, <1>6

(* The first n elements of a text.                                         *)
LEMMA Beginning ==
  ASSUME NEW S, NEW t \in Seq(S), NEW n \in Nat, n <= Len(t)
  PROVE  /\ SubSeq(t, 1, n) \in Seq(S) /\ Len(SubSeq(t, 1, n)) = n
         /\ \A k \in 1..n : SubSeq(t, 1, n)[k] = t[k]
<1>1. SubSeq(t, 1, n) \in Seq(S) /\ Len(SubSeq(t, 1, n)) = n
  BY Cut
<1>2. \A k \in 1..n : SubSeq(t, 1, n)[k] = t[k]
  OBVIOUS
<1> QED
  BY <1>1, <1>2

(* append_string, append_uint and append_chars store as much of the        *)
(* beginning of the text as there is room for.                             *)
LEMMA StoresBeginning ==
  ASSUME AppendInv, pc = "call", dst # Null, NEW t \in Seq(Chars),
         NEW n \in Nat, n <= Len(t), NEW nul \in BOOLEAN,
         n + (IF nul THEN 1 ELSE 0) <= size, Store(SubSeq(t, 1, n), nul)
  PROVE  /\ dst \in Nat /\ dst' = dst + n
         /\ \A k \in 1..dst : mem'[k] = mem[k]
         /\ \A k \in 1..n : mem'[dst + k] = t[k]
         /\ nul => dst' < cap /\ mem'[dst' + 1] = NUL
<1> DEFINE u == SubSeq(t, 1, n)
<1>1. u \in Seq(Chars) /\ Len(u) = n /\ \A k \in 1..n : u[k] = t[k]
  BY Beginning
<1>2. dst \in Nat /\ size \in Nat /\ cap \in Nat /\ dst + size <= cap /\ TypeOK
  BY DEF AppendInv, TypeOK, InBounds
<1> HIDE DEF u
<1>3. dst + Len(u) + (IF nul THEN 1 ELSE 0) <= cap
  BY <1>1, <1>2
<1>4. Store(u, nul)
  BY DEF u
<1>5. /\ dst \in Nat /\ dst' = dst + Len(u)
      /\ \A k \in 1..dst : mem'[k] = mem[k]
      /\ \A k \in 1..Len(u) : mem'[dst + k] = u[k]
      /\ nul => dst' < cap /\ mem'[dst' + 1] = NUL
  BY <1>1, <1>2, <1>3, <1>4, Stored
<1> QED
  BY <1>1, <1>5

(* How many bytes of a text and a NUL fit.                                 *)
LEMMA DoString ==
  ASSUME AppendInv, NEW t \in Seq(Chars), PutString(t), size # 0
  PROVE  \E n \in Nat : /\ n <= Len(t) /\ n + 1 <= size /\ Store(SubSeq(t, 1, n), TRUE)
                        /\ size' = IF n = Len(t) THEN size - n ELSE 0
<1> DEFINE n == Least(Len(t), size - 1)
<1>1. size \in Nat /\ Len(t) \in Nat /\ size - 1 \in Nat
  BY DEF AppendInv, TypeOK
<1>2. n \in Nat /\ n <= Len(t) /\ n <= size - 1 /\ (n = Len(t) <=> Len(t) < size)
  BY <1>1 DEF Least
<1>3. Store(SubSeq(t, 1, n), TRUE) /\ size' = IF Len(t) < size THEN size - Len(t) ELSE 0
  BY Zenon DEF PutString
<1> HIDE DEF n
<1>4. size' = IF n = Len(t) THEN size - n ELSE 0
  BY <1>2, <1>3
<1>5. n \in Nat /\ n <= Len(t) /\ n + 1 <= size
  BY <1>1, <1>2
<1> QED
  BY <1>3, <1>4, <1>5, Zenon

LEMMA DoUint ==
  ASSUME AppendInv, NEW t \in Seq(Chars), PutUint(t), size # 0
  PROVE  \E n \in Nat : /\ n <= Len(t) /\ n + 1 <= size /\ Store(SubSeq(t, 1, n), TRUE)
                        /\ size' = size - n /\ (n = Len(t) \/ size' = 1)
<1> DEFINE n == Least(Len(t), size - 1)
<1>1. size \in Nat /\ Len(t) \in Nat /\ size - 1 \in Nat /\ ~(size < 1)
  BY DEF AppendInv, TypeOK
<1>2. n \in Nat /\ n <= Len(t) /\ n <= size - 1 /\ (n = Len(t) \/ n = size - 1)
  BY <1>1 DEF Least
<1>3. Store(SubSeq(t, 1, n), TRUE) /\ size' = size - n
  BY <1>1, Zenon DEF PutUint
<1> HIDE DEF n
<1>4. n \in Nat /\ n <= Len(t) /\ n + 1 <= size /\ (n = Len(t) \/ size' = 1)
  BY <1>1, <1>2, <1>3
<1> QED
  BY <1>3, <1>4, Zenon

LEMMA DoChars ==
  ASSUME AppendInv, NEW t \in Seq(Chars), PutChars(t)
  PROVE  \E n \in Nat : /\ n <= Len(t) /\ n <= size /\ Store(SubSeq(t, 1, n), FALSE)
                        /\ size' = size - n /\ (n = Len(t) \/ size' = 0)
<1> DEFINE n == Least(Len(t), size)
<1>1. size \in Nat /\ Len(t) \in Nat
  BY DEF AppendInv, TypeOK
<1>2. n \in Nat /\ n <= Len(t) /\ n <= size /\ (n = Len(t) \/ n = size)
  BY <1>1 DEF Least
<1>3. Store(SubSeq(t, 1, n), FALSE) /\ size' = size - n
  BY DEF PutChars
<1> HIDE DEF n
<1>4. n \in Nat /\ n <= Len(t) /\ n <= size /\ (n = Len(t) \/ size' = 0)
  BY <1>1, <1>2, <1>3
<1> QED
  BY <1>3, <1>4, Zenon

-----------------------------------------------------------------------------
(* Nothing was called yet, or the loop that is running was; the pointer is *)
(* lost by append_date only.                                               *)
Origin == kinds = {} => dst = 0 /\ size = cap /\ want = <<>>
Running == pc # "call" => pc \in kinds
Dated == dst = Null => "date" \in kinds

(* Strings and numbers: what is there is the beginning of the text, and    *)
(* once something was lost there is no room for more.                      *)
Kept ==
  kinds \subseteq {"string", "uint"} =>
    /\ want \in Seq(Chars) /\ dst <= Len(want)
    /\ \A k \in 1..dst : mem[k] = want[k]
    /\ dst = Len(want) \/ size <= 1

(* Characters: the same, to the last byte of the buffer.                   *)
Filled ==
  kinds \subseteq {"chars"} =>
    /\ want \in Seq(Chars) /\ dst <= Len(want)
    /\ \A k \in 1..dst : mem[k] = want[k]
    /\ dst = Len(want) \/ size = 0
    /\ dst + size = cap

TextInv ==
  /\ Origin /\ Running /\ Dated
  /\ Kept /\ Filled /\ StringsTerminated /\ EscapesWhole

(* A text appended to another.                                             *)
LEMMA Joined ==
  ASSUME NEW s \in Seq(Chars), NEW t \in Seq(Chars)
  PROVE  /\ s \o t \in Seq(Chars) /\ Len(s \o t) = Len(s) + Len(t)
         /\ \A k \in 1..Len(s) : (s \o t)[k] = s[k]
         /\ \A k \in 1..Len(t) : (s \o t)[Len(s) + k] = t[k]
OBVIOUS

(* What is stored behind the beginning of a text continues it.             *)
LEMMA Continued ==
  ASSUME NEW s \in Seq(Chars), NEW t \in Seq(Chars), dst = Len(s), NEW n \in Nat, n <= Len(t),
         dst \in Nat, dst' = dst + n,
         \A k \in 1..dst : mem[k] = s[k],
         \A k \in 1..dst : mem'[k] = mem[k],
         \A k \in 1..n : mem'[dst + k] = t[k]
  PROVE  dst' <= Len(s \o t) /\ \A k \in 1..dst' : mem'[k] = (s \o t)[k]
<1>1. /\ Len(s \o t) = Len(s) + Len(t) /\ Len(t) \in Nat
      /\ \A k \in 1..Len(s) : (s \o t)[k] = s[k]
      /\ \A k \in 1..Len(t) : (s \o t)[Len(s) + k] = t[k]
  BY Joined
<1>2. ASSUME NEW k \in 1..dst' PROVE mem'[k] = (s \o t)[k]
  <2>1. CASE k <= dst
    BY <1>1, <2>1
  <2>2. CASE k > dst
    <3> DEFINE j == k - dst
    <3>1. j \in 1..n /\ j \in 1..Len(t) /\ k = dst + j /\ k = Len(s) + j
      BY <1>1, <2>2
    <3> HIDE DEF j
    <3> QED
      BY <1>1, <3>1
  <2> QED
    BY <2>1, <2>2
<1> QED
  BY <1>1, <1>2

(* Beginnings of a text stay such when nothing is stored.                  *)
LEMMA Lost ==
  ASSUME NEW s \in Seq(Chars), NEW t \in Seq(Chars), dst \in Nat, dst <= Len(s), dst' = dst,
         \A k \in 1..dst : mem[k] = s[k],
         \A k \in 1..dst : mem'[k] = mem[k]
  PROVE  dst' <= Len(s \o t) /\ \A k \in 1..dst' : mem'[k] = (s \o t)[k]
<1>1. /\ Len(s \o t) = Len(s) + Len(t) /\ Len(t) \in Nat /\ Len(s) \in Nat
      /\ \A k \in 1..Len(s) : (s \o t)[k] = s[k]
  BY Joined
<1> QED
  BY <1>1

-----------------------------------------------------------------------------
(* A call of a function without a loop.                                    *)
LEMMA DoKept ==
  ASSUME AppendInv, TextInv, pc = "call", dst # Null, NEW op, NEW t \in Seq(Chars), Do(op, t)
  PROVE  Kept'
<1> SUFFICES ASSUME kinds' \subseteq {"string", "uint"}
             PROVE  /\ want' \in Seq(Chars) /\ dst' <= Len(want')
                    /\ \A k \in 1..dst' : mem'[k] = want'[k]
                    /\ dst' = Len(want') \/ size' <= 1
  BY DEF Kept
<1>1. /\ want' = want \o t /\ op \in {"string", "uint"} /\ kinds \subseteq {"string", "uint"}
      /\ (PutString(t) \/ PutUint(t)) /\ cap' = cap
  BY DEF Do
<1>2. /\ want \in Seq(Chars) /\ dst <= Len(want) /\ (dst = Len(want) \/ size <= 1)
      /\ \A k \in 1..dst : mem[k] = want[k]
  BY <1>1 DEF TextInv, Kept
<1>3. dst \in Nat /\ size \in Nat /\ Len(t) \in Nat /\ Len(want) \in Nat
  BY <1>2 DEF AppendInv, TypeOK
<1>4. want' \in Seq(Chars) /\ Len(want') = Len(want) + Len(t)
  BY <1>1, <1>2, Joined
<1>5. CASE size = 0
  <2>1. UNCHANGED <<dst, mem, size>>
    BY <1>1, <1>3, <1>5 DEF PutString, PutUint, Nothing
  <2>2. dst' <= Len(want \o t) /\ \A k \in 1..dst' : mem'[k] = (want \o t)[k]
    BY <1>2, <1>3, <2>1, Lost
  <2>3. size' <= 1
    BY <1>5, <2>1
  <2> QED
    BY <1>1, <1>4, <2>2, <2>3, Zenon
<1>6. CASE size # 0
  <2>1. PICK n \in Nat : /\ n <= Len(t) /\ n + 1 <= size /\ Store(SubSeq(t, 1, n), TRUE)
                         /\ \/ size' = IF n = Len(t) THEN size - n ELSE 0
                            \/ size' = size - n /\ (n = Len(t) \/ size' = 1)
    BY <1>1, <1>6, DoString, DoUint
  <2>2. /\ dst' = dst + n
        /\ \A k \in 1..dst : mem'[k] = mem[k]
        /\ \A k \in 1..n : mem'[dst + k] = t[k]
    <3>1. n + (IF TRUE THEN 1 ELSE 0) <= size
      BY <2>1
    <3> QED
      BY <2>1, <3>1, StoresBeginning
  <2>3. CASE dst = Len(want)
    <3>1. dst' <= Len(want \o t) /\ \A k \in 1..dst' : mem'[k] = (want \o t)[k]
      BY <1>2, <1>3, <2>1, <2>2, <2>3, Continued
    <3>2. dst' = Len(want') \/ size' <= 1
      <4>1. dst' = dst + n /\ Len(want') = Len(want) + Len(t)
        BY <1>4, <2>2
      <4>2. n = Len(t) \/ size' <= 1
        BY <2>1
      <4> QED
        BY <2>3, <4>1, <4>2
    <3> QED
      BY <1>1, <1>4, <3>1, <3>2
  <2>4. CASE dst # Len(want)
    <3>1. size = 1 /\ n = 0 /\ dst' = dst /\ size' <= 1
      BY <1>2, <1>3, <1>6, <2>1, <2>2, <2>4
    <3>2. dst' <= Len(want \o t) /\ \A k \in 1..dst' : mem'[k] = (want \o t)[k]
      BY <1>2, <1>3, <2>2, <3>1, Lost
    <3> QED
      BY <1>1, <1>4, <3>1, <3>2
  <2> QED
    BY <2>3, <2>4
<1> QED
  BY <1>5, <1>6

LEMMA DoFilled ==
  ASSUME AppendInv, TextInv, pc = "call", dst # Null, NEW op, NEW t \in Seq(Chars), Do(op, t)
  PROVE  Filled'
<1> SUFFICES ASSUME kinds' \subseteq {"chars"}
             PROVE  /\ want' \in Seq(Chars) /\ dst' <= Len(want')
                    /\ \A k \in 1..dst' : mem'[k] = want'[k]
                    /\ dst' = Len(want') \/ size' = 0
                    /\ dst' + size' = cap'
  BY DEF Filled
<1>1. want' = want \o t /\ op = "chars" /\ kinds \subseteq {"chars"} /\ PutChars(t) /\ cap' = cap
  BY DEF Do
<1>2. /\ want \in Seq(Chars) /\ dst <= Len(want) /\ (dst = Len(want) \/ size = 0)
      /\ \A k \in 1..dst : mem[k] = want[k]
      /\ dst + size = cap
  BY <1>1 DEF TextInv, Filled
<1>3. dst \in Nat /\ size \in Nat /\ Len(t) \in Nat /\ Len(want) \in Nat
  BY <1>2 DEF AppendInv, TypeOK
<1>4. want' \in Seq(Chars) /\ Len(want') = Len(want) + Len(t)
  BY <1>1, <1>2, Joined
<1>5. PICK n \in Nat : /\ n <= Len(t) /\ n <= size /\ Store(SubSeq(t, 1, n), FALSE)
                       /\ size' = size - n /\ (n = Len(t) \/ size' = 0)
  BY <1>1, DoChars
<1>6. /\ dst' = dst + n
      /\ \A k \in 1..dst : mem'[k] = mem[k]
      /\ \A k \in 1..n : mem'[dst + k] = t[k]
  <2>1. n + (IF FALSE THEN 1 ELSE 0) <= size
    BY <1>5
  <2> QED
    BY <1>5, <2>1, StoresBeginning
<1>7. CASE dst = Len(want)
  <2>1. dst' <= Len(want \o t) /\ \A k \in 1..dst' : mem'[k] = (want \o t)[k]
    BY <1>2, <1>3, <1>5, <1>6, <1>7, Continued
  <2>2. (dst' = Len(want') \/ size' = 0) /\ dst' + size' = cap'
    <3>1. /\ dst' = dst + n /\ Len(want') = Len(want) + Len(t) /\ cap' = cap
          /\ dst + size = cap /\ size' = size - n /\ (n = Len(t) \/ size' = 0)
      BY <1>1, <1>2, <1>4, <1>5, <1>6
    <3> QED
      BY <1>3, <1>7, <3>1
  <2> QED
    BY <1>1, <1>4, <2>1, <2>2
<1>8. CASE dst # Len(want)
  <2>1. size = 0 /\ n = 0 /\ dst' = dst /\ size' = 0 /\ dst' + size' = cap'
    BY <1>1, <1>2, <1>3, <1>5, <1>6, <1>8
  <2>2. dst' <= Len(want \o t) /\ \A k \in 1..dst' : mem'[k] = (want \o t)[k]
    BY <1>2, <1>3, <1>6, <2>1, Lost
  <2> QED
    BY <1>1, <1>4, <2>1, <2>2
<1> QED
  BY <1>7, <1>8

(* The functions for strings and short numbers end what they store by NUL. *)
LEMMA DoTerminated ==
  ASSUME AppendInv, TextInv, pc = "call", dst # Null, NEW op, NEW t \in Seq(Chars), Do(op, t)
  PROVE  StringsTerminated'
<1> SUFFICES ASSUME kinds' \subseteq {"string", "escape", "uint", "uint32"}, cap' > 0
             PROVE  dst' < cap' /\ mem'[dst' + 1] = NUL
  BY DEF StringsTerminated
<1>1. /\ (PutString(t) \/ PutUint(t) \/ PutUint32(t)) /\ cap' = cap /\ UNCHANGED pc
      /\ kinds \subseteq {"string", "escape", "uint", "uint32"}
  BY DEF Do
<1>2. dst \in Nat /\ size \in Nat /\ cap \in Nat /\ Len(t) \in Nat /\ dst + size <= cap /\ TypeOK
  BY DEF AppendInv, TypeOK, InBounds
<1>3. CASE size = 0
  <2>1. UNCHANGED <<dst, mem>>
    BY <1>1, <1>2, <1>3 DEF PutString, PutUint, PutUint32, Nothing
  <2>2. kinds # {}
    BY <1>1, <1>3 DEF TextInv, Origin
  <2> QED
    BY <1>1, <2>1, <2>2 DEF TextInv, StringsTerminated
<1>4. CASE size # 0
  <2>1. PICK u : u \in Seq(Chars) /\ Len(u) + 1 <= size /\ Store(u, TRUE)
    <3>1. ASSUME NEW n \in Nat, n <= Len(t), n + 1 <= size, Store(SubSeq(t, 1, n), TRUE)
          PROVE  \E u : u \in Seq(Chars) /\ Len(u) + 1 <= size /\ Store(u, TRUE)
      <4>1. SubSeq(t, 1, n) \in Seq(Chars) /\ Len(SubSeq(t, 1, n)) = n
        BY <3>1, Cut
      <4>2. Len(SubSeq(t, 1, n)) + 1 <= size
        BY <3>1, <4>1
      <4> QED
        BY <3>1, <4>1, <4>2, Zenon
    <3>2. CASE PutString(t)
      BY <1>4, <3>1, <3>2, DoString
    <3>3. CASE PutUint(t)
      BY <1>4, <3>1, <3>3, DoUint
    <3>4. CASE PutUint32(t)
      <4> DEFINE n == Least(Len(t), size - 1)
                 w == SubSeq(t, Len(t) - n + 1, Len(t))
      <4>1. ~(size < 1) /\ size - 1 \in Nat
        BY <1>2, <1>4
      <4>2. n \in Nat /\ n <= Len(t) /\ n <= size - 1
        BY <1>2, <4>1, LeastBound
      <4>3. Store(w, TRUE)
        BY <3>4, <4>1, Zenon DEF PutUint32
      <4>4. w \in Seq(Chars) /\ Len(w) = n
        <5> HIDE DEF n
        <5> QED
          BY <4>2, Cut
      <4> HIDE DEF n, w
      <4>5. Len(w) + 1 <= size
        BY <1>2, <4>2, <4>4
      <4> QED
        BY <4>3, <4>4, <4>5, Zenon
    <3> QED
      BY <1>1, <3>2, <3>3, <3>4
  <2>2. dst + Len(u) + (IF TRUE THEN 1 ELSE 0) <= cap
    <3>1. Len(u) \in Nat
      BY <2>1
    <3> QED
      BY <1>2, <2>1, <3>1
  <2>3. dst' < cap /\ mem'[dst' + 1] = NUL
    BY <1>2, <2>1, <2>2, Stored
  <2> QED
    BY <1>1, <2>3
<1> QED
  BY <1>3, <1>4

LEMMA DoText ==
  ASSUME AppendInv, TextInv, pc = "call", dst # Null, NEW op, NEW t \in Seq(Chars), Do(op, t)
  PROVE  TextInv'
<1>1. op \in kinds' /\ op \notin {"escape", "escape_chars"} /\ pc' = pc
  BY DEF Do
<1>2. dst' # Null
  BY DoInv
<1>3. Origin' /\ Running' /\ Dated' /\ EscapesWhole'
  <2>1. Origin'
    BY <1>1 DEF Origin
  <2>2. Running' /\ Dated'
    BY <1>1, <1>2 DEF Running, Dated
  <2>3. EscapesWhole'
    BY <1>1, Zenon DEF EscapesWhole
  <2> QED
    BY <2>1, <2>2, <2>3
<1> QED
  BY <1>3, DoKept, DoFilled, DoTerminated DEF TextInv

-----------------------------------------------------------------------------
(* A part of the buffer that is not stored to stays as it is.              *)
LEMMA SamePart ==
  ASSUME TypeOK, NEW d \in Nat, d <= cap, DOMAIN mem' = 1..cap,
         \A k \in 1..d : mem'[k] = mem[k],
         NEW b \in Nat, NEW n \in Nat, b + n <= d
  PROVE  SubSeq(mem', b + 1, b + n) = SubSeq(mem, b + 1, b + n)
<1>1. cap \in Nat /\ DOMAIN mem = 1..cap
  BY DEF TypeOK
<1>2. SubSeq(mem', b + 1, b + n) = [i \in 1..n |-> mem'[b + i]]
  BY <1>1
<1>3. SubSeq(mem, b + 1, b + n) = [i \in 1..n |-> mem[b + i]]
  BY <1>1
<1>4. \A i \in 1..n : mem'[b + i] = mem[b + i]
  <2> TAKE i \in 1..n
  <2>1. b + i \in 1..d
    OBVIOUS
  <2> QED
    BY <2>1
<1> QED
  BY <1>2, <1>3, <1>4

(* The division into characters stays when the text does.                  *)
LEMMA StillWhole ==
  ASSUME AppendInv, EscapesWhole, kinds' \subseteq {"escape", "escape_chars"} => kinds \subseteq {"escape", "escape_chars"},
         dst \in Nat, dst' = dst, DOMAIN mem' = 1..cap,
         \A k \in 1..dst : mem'[k] = mem[k]
  PROVE  EscapesWhole'
<1> SUFFICES ASSUME kinds' \subseteq {"escape", "escape_chars"}
             PROVE  \E ends \in SUBSET (0..dst) :
                      /\ {0, dst} \subseteq ends
                      /\ \A b \in ends \ {dst} : \E c \in Chars :
                           LET e == Escape(c)
                           IN  b + Len(e) \in ends /\ SubSeq(mem', b + 1, b + Len(e)) = e
  BY DEF EscapesWhole
<1>1. PICK ends \in SUBSET (0..dst) :
        /\ {0, dst} \subseteq ends
        /\ \A b \in ends \ {dst} : \E c \in Chars :
             b + Len(Escape(c)) \in ends /\ SubSeq(mem, b + 1, b + Len(Escape(c))) = Escape(c)
  BY DEF EscapesWhole
<1>2. TypeOK /\ dst <= cap
  <2>1. dst # Null
    BY NullAssumption
  <2> QED
    BY <2>1 DEF AppendInv, TypeOK, InBounds, Reserve
<1>3. ASSUME NEW b \in ends \ {dst}, NEW c \in Chars, b + Len(Escape(c)) \in ends,
             SubSeq(mem, b + 1, b + Len(Escape(c))) = Escape(c)
      PROVE  SubSeq(mem', b + 1, b + Len(Escape(c))) = Escape(c)
  <2> DEFINE n == Len(Escape(c))
  <2>1. n \in Nat
    BY EscapeLength
  <2>2. b \in Nat /\ b + n <= dst
    BY <1>3
  <2> HIDE DEF n
  <2>3. SubSeq(mem', b + 1, b + n) = SubSeq(mem, b + 1, b + n)
    BY <1>2, <2>1, <2>2, SamePart
  <2> QED
    BY <1>3, <2>3 DEF n
<1>4. \A b \in ends \ {dst} : \E c \in Chars :
        b + Len(Escape(c)) \in ends /\ SubSeq(mem', b + 1, b + Len(Escape(c))) = Escape(c)
  BY <1>1, <1>3, Zenon
<1> QED
  BY <1>1, <1>4, Zenon

LEMMA EscapeBeginText ==
  ASSUME AppendInv, TextInv, EscapeBegin
  PROVE  TextInv'
<1>1. pc = "call" /\ dst # Null /\ UNCHANGED <<cap, dst, size, mem>>
  BY DEF EscapeBegin, Ready
<1>2. PICK loop \in {"escape", "escape_chars"} :
        /\ kinds' = kinds \cup {loop}
        /\ IF size = 0 THEN UNCHANGED pc ELSE pc' = loop
  BY DEF EscapeBegin
<1>3. dst \in Nat /\ cap \in Nat /\ DOMAIN mem = 1..cap /\ size \in Nat
  BY <1>1 DEF AppendInv, TypeOK
<1>4. Origin' /\ Running' /\ Dated' /\ Kept' /\ Filled'
  BY <1>1, <1>2 DEF TextInv, Origin, Running, Dated, Kept, Filled
<1>5. StringsTerminated'
  <2> SUFFICES ASSUME kinds' \subseteq {"string", "escape", "uint", "uint32"}, pc' = "call", cap > 0
               PROVE  dst < cap /\ mem[dst + 1] = NUL
    BY <1>1 DEF StringsTerminated
  <2>1. size = 0 /\ kinds \subseteq {"string", "escape", "uint", "uint32"}
    BY <1>2
  <2>2. kinds # {}
    BY <2>1 DEF TextInv, Origin
  <2> QED
    BY <1>1, <2>1, <2>2 DEF TextInv, StringsTerminated
<1>6. EscapesWhole'
  BY <1>1, <1>2, <1>3, StillWhole DEF TextInv
<1> QED
  BY <1>4, <1>5, <1>6 DEF TextInv

(* A character that is escaped is stored as a whole.                       *)
LEMMA EscapeCharText ==
  ASSUME AppendInv, TextInv, EscapeChar
  PROVE  TextInv'
<1>1. pc # "call" /\ UNCHANGED <<cap, size, kinds, want, pc>>
  BY DEF EscapeChar, history
<1>2. dst \in Nat /\ dst # Null /\ left \in Nat /\ cap \in Nat /\ dst + left + Reserve <= cap /\ Reserve \in {0, 1} /\ TypeOK
  BY <1>1 DEF AppendInv, TypeOK, InBounds, Reserve
<1> DEFINE c0 == Head(src)
           e0 == Escape(c0)
<1>3. c0 \in Chars /\ Store(e0, FALSE) /\ Len(e0) <= left
  <2>1. src # <<>> /\ src \in Seq(Chars)
    BY DEF EscapeChar, EscapeMore, AppendInv, TypeOK, PendingOK
  <2>2. Head(src) \in Chars
    BY <2>1
  <2>3. Store(e0, FALSE) /\ Len(e0) <= left
    BY DEF EscapeChar, EscapeMore
  <2> QED
    BY <2>2, <2>3
<1>4. PICK S : e0 \in Seq(S) /\ Len(e0) \in 1..4
  BY EscapeLength
<1> HIDE DEF c0, e0
<1>5. dst + Len(e0) + (IF FALSE THEN 1 ELSE 0) <= cap
  BY <1>2, <1>3, <1>4
<1>6. /\ dst' = dst + Len(e0)
      /\ \A k \in 1..dst : mem'[k] = mem[k]
      /\ \A k \in 1..Len(e0) : mem'[dst + k] = e0[k]
  BY <1>2, <1>3, <1>4, <1>5, Stored
<1>7. DOMAIN mem' = 1..cap /\ dst' # Null
  BY <1>2, <1>3, <1>4, <1>6, NullAssumption DEF Store
<1>8. Origin' /\ Running' /\ Dated'
  BY <1>1, <1>7 DEF TextInv, Origin, Running, Dated
<1>9. Kept' /\ Filled' /\ StringsTerminated'
  <2>1. pc \in {"escape", "escape_chars"} /\ pc \in kinds
    BY <1>1 DEF AppendInv, TypeOK, TextInv, Running
  <2> QED
    BY <1>1, <2>1 DEF Kept, Filled, StringsTerminated
<1>10. EscapesWhole'
  <2> SUFFICES ASSUME kinds' \subseteq {"escape", "escape_chars"}
               PROVE  \E ends \in SUBSET (0..dst') :
                        /\ {0, dst'} \subseteq ends
                        /\ \A b \in ends \ {dst'} : \E c \in Chars :
                             LET e == Escape(c)
                             IN  b + Len(e) \in ends /\ SubSeq(mem', b + 1, b + Len(e)) = e
    BY DEF EscapesWhole
  <2>1. PICK old \in SUBSET (0..dst) :
          /\ {0, dst} \subseteq old
          /\ \A b \in old \ {dst} : \E c \in Chars :
               b + Len(Escape(c)) \in old /\ SubSeq(mem, b + 1, b + Len(Escape(c))) = Escape(c)
    BY <1>1 DEF TextInv, EscapesWhole
  <2> DEFINE ends == old \cup {dst'}
  <2>2. ends \in SUBSET (0..dst') /\ {0, dst'} \subseteq ends
    <3>1. dst' \in Nat /\ dst <= dst'
      BY <1>2, <1>4, <1>6
    <3>2. old \subseteq 0..dst'
      BY <1>2, <3>1
    <3> QED
      BY <2>1, <3>1, <3>2
  <2>3. ASSUME NEW b \in ends \ {dst'}
        PROVE  \E c \in Chars : b + Len(Escape(c)) \in ends
                                /\ SubSeq(mem', b + 1, b + Len(Escape(c))) = Escape(c)
    <3>1. CASE b = dst
      <4>1. dst + Len(e0) \in ends
        BY <1>6
      <4>2. SubSeq(mem', dst + 1, dst + Len(e0)) = e0
        <5>1. Len(e0) \in Nat /\ dst + Len(e0) <= cap /\ cap \in Nat
          BY <1>2, <1>3, <1>4
        <5>2. SubSeq(mem', dst + 1, dst + Len(e0)) = [i \in 1..Len(e0) |-> mem'[dst + i]]
          BY <1>2, <1>7, <5>1
        <5>3. e0 = [i \in 1..Len(e0) |-> e0[i]]
          BY <1>4
        <5> QED
          BY <1>6, <5>2, <5>3
      <4> QED
        BY <1>3, <3>1, <4>1, <4>2 DEF e0
    <3>2. CASE b # dst
      <4>1. b \in old \ {dst}
        BY <3>2
      <4>2. PICK c \in Chars : b + Len(Escape(c)) \in old /\ SubSeq(mem, b + 1, b + Len(Escape(c))) = Escape(c)
        BY <2>1, <4>1
      <4> DEFINE n == Len(Escape(c))
      <4>3. n \in Nat
        BY EscapeLength
      <4>4. b \in Nat /\ b + n <= dst
        BY <4>1, <4>2
      <4> HIDE DEF n
      <4>5. SubSeq(mem', b + 1, b + n) = SubSeq(mem, b + 1, b + n)
        <5>1. dst <= cap
          BY <1>2
        <5> QED
          BY <1>2, <1>6, <1>7, <4>3, <4>4, <5>1, SamePart
      <4>6. SubSeq(mem', b + 1, b + Len(Escape(c))) = Escape(c) /\ b + Len(Escape(c)) \in ends
        BY <4>2, <4>5 DEF n
      <4> QED
        BY <4>6
    <3> QED
      BY <3>1, <3>2
  <2> HIDE DEF ends
  <2> QED
    BY <2>2, <2>3, Zenon
<1> QED
  BY <1>8, <1>9, <1>10 DEF TextInv

LEMMA EscapeEndText ==
  ASSUME AppendInv, TextInv, EscapeEnd
  PROVE  TextInv'
<1>1. pc \in {"escape", "escape_chars"} /\ pc' = "call" /\ UNCHANGED <<cap, kinds, want>> /\ pc \in kinds
  BY DEF EscapeEnd, history, AppendInv, TypeOK, TextInv, Running
<1>2. dst \in Nat /\ dst # Null /\ left \in Nat /\ cap \in Nat /\ dst + left + Reserve <= cap /\ TypeOK
  BY <1>1 DEF AppendInv, TypeOK, InBounds
<1> DEFINE nul == (pc = "escape")
           none == <<>>
<1>3. nul \in BOOLEAN /\ none \in Seq(Chars) /\ Len(none) = 0
  OBVIOUS
<1>4. Store(none, nul) /\ dst + 0 + (IF nul THEN 1 ELSE 0) <= cap
  BY <1>1, <1>2 DEF EscapeEnd, Reserve
<1> HIDE DEF nul, none
<1>5. dst + Len(none) + (IF nul THEN 1 ELSE 0) <= cap
  BY <1>3, <1>4
<1>6. /\ dst' = dst + Len(none)
      /\ \A k \in 1..dst : mem'[k] = mem[k]
      /\ nul => dst' < cap /\ mem'[dst' + 1] = NUL
  BY <1>2, <1>3, <1>4, <1>5, Stored
<1>7. dst' = dst /\ DOMAIN mem' = 1..cap
  BY <1>2, <1>3, <1>4, <1>6 DEF Store
<1>8. Origin' /\ Running' /\ Dated' /\ Kept' /\ Filled'
  BY <1>1, <1>2, <1>7 DEF Origin, Running, Dated, Kept, Filled
<1>9. StringsTerminated'
  BY <1>1, <1>6 DEF StringsTerminated, nul
<1>10. EscapesWhole'
  BY <1>1, <1>2, <1>6, <1>7, StillWhole DEF TextInv
<1> QED
  BY <1>8, <1>9, <1>10 DEF TextInv

LEMMA DateKinds ==
  ASSUME AppendInv, TextInv, Date
  PROVE  TextInv'
<1>1. pc = "call" /\ pc' = pc /\ "date" \in kinds'
  BY DEF Date, Ready, local
<1>2. Origin' /\ Running' /\ Dated' /\ Kept' /\ Filled' /\ StringsTerminated'
  BY <1>1 DEF Origin, Running, Dated, Kept, Filled, StringsTerminated
<1>3. EscapesWhole'
  BY <1>1, Zenon DEF EscapesWhole
<1> QED
  BY <1>2, <1>3 DEF TextInv

LEMMA SameText ==
  ASSUME TextInv, UNCHANGED <<cap, dst, size, mem, pc, want, kinds>>
  PROVE  TextInv'
<1>1. Origin' /\ Running' /\ Dated' /\ Kept' /\ Filled' /\ StringsTerminated'
  BY DEF TextInv, Origin, Running, Dated, Kept, Filled, StringsTerminated
<1>2. EscapesWhole'
  BY Zenon DEF TextInv, EscapesWhole
<1> QED
  BY <1>1, <1>2 DEF TextInv

(* A buffer that agrees with a text up to the pointer holds its beginning. *)
LEMMA BeginningIs ==
  ASSUME AppendInv, dst # Null, NEW s \in Seq(Chars), dst \in Nat, dst <= Len(s),
         \A k \in 1..dst : mem[k] = s[k]
  PROVE  Text = SubSeq(s, 1, dst) /\ Len(Text) = dst
<1>1. dst <= cap /\ cap \in Nat /\ DOMAIN mem = 1..cap
  BY DEF AppendInv, TypeOK, InBounds, Reserve
<1>2. Text = [k \in 1..dst |-> mem[k]]
  BY <1>1 DEF Text
<1>3. SubSeq(s, 1, dst) = [k \in 1..dst |-> s[k]]
  OBVIOUS
<1>4. Text = SubSeq(s, 1, dst)
  BY <1>2, <1>3
<1>5. Len(SubSeq(s, 1, dst)) = dst
  BY Beginning
<1> QED
  BY <1>4, <1>5

-----------------------------------------------------------------------------
LEMMA InitText ==
  ASSUME Init
  PROVE  TextInv
<1>1. cap \in Nat /\ dst = 0 /\ size = cap /\ want = <<>> /\ kinds = {} /\ pc = "call" /\ dst # Null
  BY CapacityAssumption, NullAssumption DEF Init
<1>2. Origin /\ Running /\ Dated /\ Kept /\ Filled /\ StringsTerminated
  BY <1>1 DEF Origin, Running, Dated, Kept, Filled, StringsTerminated
<1>3. EscapesWhole
  <2> DEFINE ends == {0}
  <2>1. ends \in SUBSET (0..dst) /\ {0, dst} \subseteq ends /\ ends \ {dst} = {}
    BY <1>1
  <2> HIDE DEF ends
  <2> QED
    BY <2>1 DEF EscapesWhole
<1> QED
  BY <1>2, <1>3 DEF TextInv

(* What was stored and what was not, in every reachable state.             *)
THEOREM TextKnown == Spec => [](AppendInv /\ TextInv)
<1>1. TextInv /\ AppendInv /\ [Next]_vars => TextInv'
  <2> SUFFICES ASSUME AppendInv, TextInv, [Next]_vars PROVE TextInv'
    OBVIOUS
  <2>1. CASE Call
    <3>1. PICK op, t : t \in Seq(Chars) /\ Do(op, t)
      BY <2>1, CallText
    <3> QED
      BY <2>1, <3>1, DoText DEF Call, Ready
  <2>2. CASE Date
    BY <2>2, DateKinds
  <2>3. CASE Size
    BY <2>3, SameText DEF Size
  <2>4. CASE SizeCall
    <3>1. PICK op, t : t \in Seq(Chars) /\ Do(op, t)
      BY <2>4, SizeCallText
    <3>2. pc = "call" /\ dst # Null
      BY <2>4 DEF SizeCall, AppendInv, TypeOK
    <3> QED
      BY <3>1, <3>2, DoText
  <2>5. CASE EscapeBegin
    BY <2>5, EscapeBeginText
  <2>6. CASE EscapeChar
    BY <2>6, EscapeCharText
  <2>7. CASE EscapeEnd
    BY <2>7, EscapeEndText
  <2>8. CASE UNCHANGED vars
    BY <2>8, SameText DEF vars, local, history
  <2> QED
    BY <2>1, <2>2, <2>3, <2>4, <2>5, <2>6, <2>7, <2>8 DEF Next
<1> QED
  BY <1>1, InitText, RoomLeft, PTL DEF Spec

(* Strings and numbers appended to a buffer leave a prefix of the whole    *)
(* text there, and a NUL behind it.                                        *)
THEOREM PrefixTerminated == Spec => []TerminatedPrefix
<1>1. AppendInv /\ TextInv => TerminatedPrefix
  <2> SUFFICES ASSUME AppendInv, TextInv, kinds # {}, kinds \subseteq {"string", "uint"}, cap > 0
               PROVE  dst < cap /\ mem[dst + 1] = NUL /\ IsPrefix(Text, want)
    BY DEF TerminatedPrefix
  <2>1. pc = "call" /\ dst # Null
    BY DEF TextInv, Running, Dated, AppendInv, TypeOK
  <2>2. dst < cap /\ mem[dst + 1] = NUL
    BY <2>1 DEF TextInv, StringsTerminated
  <2>3. /\ want \in Seq(Chars) /\ dst <= Len(want) /\ dst \in Nat
        /\ \A k \in 1..dst : mem[k] = want[k]
    BY <2>1 DEF TextInv, Kept, AppendInv, TypeOK
  <2>4. Text = SubSeq(want, 1, dst) /\ Len(Text) = dst
    BY <2>1, <2>3, BeginningIs
  <2>5. SubSeq(Text, 1, dst) = Text
    BY <2>3, <2>4
  <2> QED
    BY <2>2, <2>3, <2>4, <2>5 DEF IsPrefix
<1> QED
  BY <1>1, TextKnown, PTL

(* Characters use all of the buffer before anything is lost.               *)
THEOREM PrefixFilled == Spec => []FilledPrefix
<1>1. AppendInv /\ TextInv => FilledPrefix
  <2> SUFFICES ASSUME AppendInv, TextInv, kinds \subseteq {"chars"}
               PROVE  Text = SubSeq(want, 1, Least(cap, Len(want))) /\ dst + size = cap
    BY DEF FilledPrefix
  <2>1. dst # Null
    BY DEF TextInv, Dated
  <2>2. /\ want \in Seq(Chars) /\ dst <= Len(want) /\ dst \in Nat /\ size \in Nat /\ cap \in Nat
        /\ \A k \in 1..dst : mem[k] = want[k]
        /\ dst = Len(want) \/ size = 0
        /\ dst + size = cap
    BY <2>1 DEF TextInv, Filled, AppendInv, TypeOK
  <2>3. Text = SubSeq(want, 1, dst)
    BY <2>1, <2>2, BeginningIs
  <2>4. dst = Least(cap, Len(want))
    BY <2>2 DEF Least
  <2> QED
    BY <2>2, <2>3, <2>4
<1> QED
  BY <1>1, TextKnown, PTL

(* Functions for strings leave a NUL behind the text in any order.         *)
THEOREM NULFollows == Spec => []StringsTerminated
<1>1. TextInv => StringsTerminated
  BY DEF TextInv
<1> QED
  BY <1>1, TextKnown, PTL

(* Escape sequences are never cut.                                         *)
THEOREM WholeEscapes == Spec => []EscapesWhole
<1>1. TextInv => EscapesWhole
  BY DEF TextInv
<1> QED
  BY <1>1, TextKnown, PTL
=============================================================================

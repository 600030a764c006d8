---------------------------- MODULE BitterProofs ----------------------------
(***************************************************************************)
(* The program: the options select the mode, one descriptor is enough,     *)
(* success means that every file was dealt with, and a line has the        *)
(* digests of one whole file; however long the command line is, however    *)
(* files grow, however short reads are and however often calls fail.       *)
(***************************************************************************)
EXTENDS Bitter, SequenceTheorems, WellFoundedInduction, TLAPS

(* Induction: a set that contains 0 and the successor of each of its       *)
(* numbers contains every number.                                          *)
LEMMA SetInduction ==
  ASSUME NEW S, 0 \in S, \A n \in Nat : n \in S => n + 1 \in S
  PROVE  Nat \subseteq S
<1> DEFINE T == Nat \ S
<1> SUFFICES ASSUME T # {} PROVE FALSE
  OBVIOUS
<1>1. PICK x \in T : \A y \in T : ~ (<<y, x>> \in OpToRel(<, Nat))
  BY WFMin, NatLessThanWellFounded
<1>2. \A y \in T : ~ (y < x)
  BY <1>1 DEF OpToRel
<1>3. x # 0 /\ x - 1 \in Nat /\ x - 1 \notin T
  BY <1>2
<1> QED
  BY <1>3

Reading == {"fstat", "read", "update", "final", "print"}

(* In which stages which descriptors are open.                             *)
Descriptors ==
  /\ pc \in {"options", "open", "close", "exited"} \cup Reading
  /\ pc \in {"options", "open", "exited"} => table = StdFds
  /\ pc \in Reading =>
       IF args = <<>> THEN table = StdFds ELSE fd \notin StdFds /\ table = StdFds \cup {fd}
  /\ pc = "open" => args # <<>>
  /\ pc = "close" => args # <<>> /\ fd \notin StdFds /\ table = StdFds \cup {fd}

-----------------------------------------------------------------------------
LEMMA InitDescriptors == Init => Descriptors
BY DEF Init, Descriptors, Reading

(* open returns the lowest number that is free.                            *)
LEMMA LowestIsNew == table = StdFds => LowestFree \notin StdFds
<1> SUFFICES ASSUME table = StdFds
             PROVE  LowestFree \notin StdFds
  OBVIOUS
<1>1. 3 \in 0..FdLimit /\ 3 \notin table /\ \A m \in 0..(3 - 1) : m \in table
  BY SizeAssumption DEF StdFds
<1>2. LowestFree \notin table
  BY <1>1 DEF LowestFree
<1> QED
  BY <1>2

LEMMA NextDescriptors == Descriptors /\ [Next]_vars => Descriptors'
<1> SUFFICES ASSUME Descriptors, [Next]_vars
             PROVE  Descriptors'
  OBVIOUS
<1> USE DEF Descriptors, Reading, os, main, flags, sums, history
<1>1. CASE OptionExit
  BY <1>1 DEF OptionExit, Exit
<1>2. CASE OptionMode \/ OptionQuiet
  BY <1>2 DEF OptionMode, OptionQuiet
<1>3. CASE OptionsEnd
  BY <1>3 DEF OptionsEnd
<1>4. CASE Open
  <2>1. args # <<>>
    BY <1>4 DEF Open
  <2>2. table = StdFds /\ table' = table \cup {LowestFree} /\ fd' = LowestFree /\ pc' = "fstat"
        /\ UNCHANGED args
    BY <1>4 DEF Open
  <2> QED
    BY <2>1, <2>2, LowestIsNew
<1>5. CASE OpenFails \/ Return
  BY <1>5 DEF OpenFails, Return, Exit
<1>6. CASE PrintResult
  BY <1>6 DEF PrintResult, Exit
<1>7. CASE Close
  BY <1>7 DEF Close
<1>8. CASE Fstat \/ ReadData \/ ReadEnd \/ ReadAgain \/ UpdateSums \/ FinalSums
  BY <1>8 DEF Fstat, ReadData, ReadEnd, ReadAgain, UpdateSums, FinalSums
<1>9. CASE FstatFails \/ ReadFails
  BY <1>9 DEF FstatFails, ReadFails, SumsFail, Exit
<1>10. CASE Grow
  BY <1>10 DEF Grow
<1>11. CASE UNCHANGED vars
  BY <1>11 DEF vars
<1> QED
  BY <1>1, <1>2, <1>3, <1>4, <1>5, <1>6, <1>7, <1>8, <1>9, <1>10, <1>11
     DEF Next, Step, ReadAnswers

(* Whatever fails, a file is closed before the next one is opened and      *)
(* before the program returns.                                             *)
THEOREM OneIsEnough == Spec => []OneDescriptor
<1>1. Descriptors => OneDescriptor
  BY DEF Descriptors, OneDescriptor, Reading
<1> QED
  BY <1>1, InitDescriptors, NextDescriptors, PTL DEF Spec
-----------------------------------------------------------------------------
(* How many options getopt has returned, and which of them select a mode.  *)
Taken == Len(given) - Len(opts)
Selected == {k \in 1..Taken : given[k] \in {"S", "T"}}

Mode ==
  /\ given \in Seq(Options) /\ opts \in Seq(Options) /\ Len(opts) <= Len(given)
  /\ \A k \in 1..Len(opts) : opts[k] = given[Taken + k]
  /\ pc \notin {"options", "exited"} => opts = <<>>
  /\ get_bitprint \in BOOLEAN /\ get_sha1 \in BOOLEAN /\ get_tth \in BOOLEAN
  /\ pc # "exited" =>
       /\ \A k, m \in Selected : k = m
       /\ get_bitprint <=> Selected = {}
       /\ get_bitprint => IF pc = "options" THEN ~get_sha1 /\ ~get_tth ELSE get_sha1 /\ get_tth
       /\ ~get_bitprint => /\ get_sha1 <=> \A k \in Selected : given[k] = "S"
                           /\ get_tth <=> \A k \in Selected : given[k] = "T"

LEMMA InitMode == Init => Mode
<1> SUFFICES ASSUME Init
             PROVE  Mode
  OBVIOUS
<1>1. opts \in Seq(Options) /\ given = opts
  BY SizeAssumption DEF Init, BoundedSeq, SeqOf
<1>2. Len(opts) \in Nat /\ Taken = 0
  BY <1>1 DEF Taken
<1>3. Selected = {}
  BY <1>2 DEF Selected
<1>4. pc = "options" /\ get_bitprint = TRUE /\ get_sha1 = FALSE /\ get_tth = FALSE
  BY DEF Init
<1>5. \A k \in 1..Len(opts) : opts[k] = given[Taken + k]
  BY <1>1, <1>2
<1>6. given \in Seq(Options) /\ Len(opts) <= Len(given)
  BY <1>1, <1>2
<1>7. get_bitprint \in BOOLEAN /\ get_sha1 \in BOOLEAN /\ get_tth \in BOOLEAN
  BY <1>4
<1>8. /\ \A k, m \in Selected : k = m
      /\ get_bitprint <=> Selected = {}
      /\ get_bitprint => IF pc = "options" THEN ~get_sha1 /\ ~get_tth ELSE get_sha1 /\ get_tth
      /\ get_bitprint
  BY <1>3, <1>4
<1>9. pc \notin {"options", "exited"} => opts = <<>>
  BY <1>4
<1> QED
  BY <1>1, <1>5, <1>6, <1>7, <1>8, <1>9 DEF Mode

(* getopt returns an option.                                               *)
LEMMA TakeOption ==
  ASSUME Mode, opts # <<>>, opts' = Tail(opts), UNCHANGED given
  PROVE  /\ opts' \in Seq(Options) /\ given' \in Seq(Options) /\ Len(opts') <= Len(given')
         /\ Taken \in Nat /\ Taken' = Taken + 1
         /\ \A k \in 1..Len(opts') : opts'[k] = given'[Taken' + k]
         /\ given[Taken + 1] = Head(opts)
         /\ Head(opts) \in {"S", "T"} => Selected' = Selected \cup {Taken + 1}
         /\ Head(opts) \notin {"S", "T"} => Selected' = Selected
<1>1. opts \in Seq(Options) /\ given \in Seq(Options) /\ Len(opts) \in Nat /\ Len(given) \in Nat
      /\ Len(opts) <= Len(given) /\ Len(opts) > 0
  BY DEF Mode
<1>2. Tail(opts) \in Seq(Options) /\ Len(Tail(opts)) = Len(opts) - 1
      /\ \A k \in 1..(Len(opts) - 1) : Tail(opts)[k] = opts[k + 1]
  BY <1>1, HeadTailProperties
<1>3. Taken \in Nat /\ Taken' = Taken + 1
  BY <1>1, <1>2 DEF Taken
<1>4. \A k \in 1..Len(opts) : opts[k] = given[Taken + k]
  BY DEF Mode
<1>5. \A k \in 1..Len(opts') : opts'[k] = given'[Taken' + k]
  <2> SUFFICES ASSUME NEW k \in 1..Len(opts')
               PROVE  opts'[k] = given'[Taken' + k]
    OBVIOUS
  <2>1. k + 1 \in 1..Len(opts) /\ opts'[k] = opts[k + 1]
    BY <1>1, <1>2
  <2>2. opts[k + 1] = given[Taken + (k + 1)]
    BY <1>4, <2>1
  <2>3. Taken' + k = Taken + (k + 1)
    BY <1>3, <2>1
  <2> QED
    BY <2>1, <2>2, <2>3
<1>6. given[Taken + 1] = Head(opts)
  BY <1>1, <1>4
<1> HIDE DEF Taken
<1>7. 1..Taken' = 1..Taken \cup {Taken + 1}
  BY <1>3
<1>8. /\ Head(opts) \in {"S", "T"} => Selected' = Selected \cup {Taken + 1}
      /\ Head(opts) \notin {"S", "T"} => Selected' = Selected
  BY <1>6, <1>7 DEF Selected
<1> QED
  BY <1>1, <1>2, <1>3, <1>5, <1>6, <1>8

LEMMA NextMode == Mode /\ [Next]_vars => Mode'
<1> SUFFICES ASSUME Mode, [Next]_vars
             PROVE  Mode'
  OBVIOUS
<1> USE DEF os, main, flags, sums, history
<1>1. CASE OptionMode
  <2>1. /\ opts # <<>> /\ opts' = Tail(opts) /\ UNCHANGED given /\ pc = "options" /\ pc' = pc
        /\ Head(opts) \in {"S", "T"} /\ get_bitprint /\ get_bitprint' = FALSE
        /\ get_sha1' = (Head(opts) = "S") /\ get_tth' = (Head(opts) = "T")
    BY <1>1 DEF OptionMode
  <2>2. /\ opts' \in Seq(Options) /\ given' \in Seq(Options) /\ Len(opts') <= Len(given')
        /\ \A k \in 1..Len(opts') : opts'[k] = given'[Taken' + k]
        /\ given[Taken + 1] = Head(opts)
        /\ Selected' = Selected \cup {Taken + 1}
    BY <2>1, TakeOption
  <2>3. Selected' = {Taken + 1}
    BY <2>1, <2>2 DEF Mode
  <2>4. /\ \A k, m \in Selected' : k = m
        /\ Selected' # {}
        /\ get_sha1' <=> \A k \in Selected' : given'[k] = "S"
        /\ get_tth' <=> \A k \in Selected' : given'[k] = "T"
        /\ ~get_bitprint' /\ get_bitprint' \in BOOLEAN /\ get_sha1' \in BOOLEAN /\ get_tth' \in BOOLEAN
    BY <2>1, <2>2, <2>3
  <2> QED
    BY <2>1, <2>2, <2>4 DEF Mode
<1>2. CASE OptionQuiet
  <2>1. /\ opts # <<>> /\ opts' = Tail(opts) /\ pc = "options" /\ Head(opts) \notin {"S", "T"}
        /\ UNCHANGED <<given, pc, get_bitprint, get_sha1, get_tth>>
    BY <1>2 DEF OptionQuiet
  <2>2. /\ opts' \in Seq(Options) /\ given' \in Seq(Options) /\ Len(opts') <= Len(given')
        /\ \A k \in 1..Len(opts') : opts'[k] = given'[Taken' + k]
        /\ Selected' = Selected
    BY <2>1, TakeOption
  <2> QED
    BY <2>1, <2>2 DEF Mode
<1>3. CASE OptionsEnd
  <2>1. /\ opts = <<>> /\ pc = "options" /\ pc' \in {"fstat", "open"} /\ UNCHANGED <<given, opts, get_bitprint>>
        /\ get_sha1' = (get_bitprint \/ get_sha1) /\ get_tth' = (get_bitprint \/ get_tth)
    BY <1>3 DEF OptionsEnd
  <2>2. Selected' = Selected /\ Taken' = Taken
    BY <2>1 DEF Selected, Taken
  <2>3. get_sha1' \in BOOLEAN /\ get_tth' \in BOOLEAN
    BY <2>1 DEF Mode
  <2> QED
    BY <2>1, <2>2, <2>3 DEF Mode
<1>4. CASE UNCHANGED <<given, opts, get_bitprint, get_sha1, get_tth>>
           /\ (pc' = "exited" \/ pc' = pc \/ (pc # "options" /\ pc # "exited" /\ pc' # "options"))
  <2>1. Selected' = Selected /\ Taken' = Taken
    BY <1>4 DEF Selected, Taken
  <2> QED
    BY <1>4, <2>1 DEF Mode
<1>5. CASE OptionExit \/ Open \/ OpenFails \/ PrintResult \/ Close \/ Return
  BY <1>4, <1>5 DEF OptionExit, Open, OpenFails, PrintResult, Close, Return, Exit
<1>6. CASE Fstat \/ ReadData \/ ReadEnd \/ ReadAgain \/ UpdateSums \/ FinalSums \/ Grow
  BY <1>4, <1>6 DEF Fstat, ReadData, ReadEnd, ReadAgain, UpdateSums, FinalSums, Grow
<1>7. CASE FstatFails \/ ReadFails
  BY <1>4, <1>7 DEF FstatFails, ReadFails, SumsFail, Exit
<1>8. CASE UNCHANGED vars
  BY <1>4, <1>8 DEF vars
<1> QED
  BY <1>1, <1>2, <1>3, <1>5, <1>6, <1>7, <1>8 DEF Next, Step, ReadAnswers

(* The mode is the one that the options select, however many there are.    *)
THEOREM OptionsSelect == Spec => []ModeFollowsOptions
<1>1. ASSUME Mode
      PROVE  ModeFollowsOptions
  <2> SUFFICES ASSUME pc \notin {"options", "exited"}
               PROVE  /\ \A k, m \in Modes : k = m
                      /\ get_sha1 = (\A k \in Modes : given[k] = "S")
                      /\ get_tth = (\A k \in Modes : given[k] = "T")
                      /\ get_bitprint = (Modes = {})
    BY DEF ModeFollowsOptions
  <2>1. opts = <<>> /\ given \in Seq(Options)
    BY <1>1 DEF Mode
  <2>2. Taken = Len(given)
    BY <2>1 DEF Taken
  <2>3. Selected = Modes
    BY <2>1, <2>2 DEF Selected, Modes
  <2> QED
    BY <1>1, <2>3 DEF Mode
<1> QED
  BY <1>1, InitMode, NextMode, PTL DEF Spec
-----------------------------------------------------------------------------
(* The turns of a loop that begins with a.                                 *)
Turns(f, a, n) == f = [k \in 0..n |-> IF k = 0 THEN a ELSE Sha1Chunk(f[k - 1])]

LEMMA TurnsExist ==
  ASSUME NEW a
  PROVE  \A n \in Nat : \E f : Turns(f, a, n)
<1> DEFINE S == {n \in Nat : \E f : Turns(f, a, n)}
<1>1. 0 \in S
  <2>1. Turns([k \in 0..0 |-> a], a, 0)
    BY DEF Turns
  <2> QED
    BY <2>1
<1>2. ASSUME NEW n \in Nat, n \in S
      PROVE  n + 1 \in S
  <2>1. PICK f : Turns(f, a, n)
    BY <1>2
  <2> DEFINE g == [k \in 0..(n + 1) |-> IF k <= n THEN f[k] ELSE Sha1Chunk(f[n])]
  <2>2. \A k \in 0..n : g[k] = f[k]
    OBVIOUS
  <2>3. \A k \in 0..n : f[k] = IF k = 0 THEN a ELSE Sha1Chunk(f[k - 1])
    BY <2>1 DEF Turns
  <2>4. \A k \in 0..(n + 1) : g[k] = IF k = 0 THEN a ELSE Sha1Chunk(g[k - 1])
    <3> TAKE k \in 0..(n + 1)
    <3>1. CASE k = 0
      BY <3>1, <2>2, <2>3
    <3>2. CASE k \in 1..n
      BY <3>2, <2>2, <2>3
    <3>3. CASE k = n + 1
      <4>1. g[k] = Sha1Chunk(f[n])
        BY <3>3
      <4>2. g[k - 1] = f[n]
        BY <3>3, <2>2
      <4> QED
        BY <3>3, <4>1, <4>2
    <3> QED
      BY <3>1, <3>2, <3>3
  <2>5. g = [k \in 0..(n + 1) |-> g[k]]
    OBVIOUS
  <2> HIDE DEF g
  <2>6. g = [k \in 0..(n + 1) |-> IF k = 0 THEN a ELSE Sha1Chunk(g[k - 1])]
    BY <2>4, <2>5
  <2>7. Turns(g, a, n + 1)
    BY <2>6 DEF Turns
  <2> QED
    BY <2>7
<1> HIDE DEF S
<1>3. Nat \subseteq S
  BY <1>1, <1>2, SetInduction
<1> QED
  BY <1>3 DEF S

LEMMA MinOfTwo ==
  ASSUME NEW a \in Nat, NEW b \in Nat
  PROVE  Min({a, b}) = IF a <= b THEN a ELSE b
BY DEF Min

(* A turn moves bytes from the rest to the context, at least one if there  *)
(* is one.                                                                 *)
LEMMA ChunkMoves ==
  ASSUME NEW B, NEW c \in Seq(B), NEW r \in Seq(B)
  PROVE  LET st == Sha1Chunk([ctx |-> c, rest |-> r])
         IN  /\ st = [ctx |-> st.ctx, rest |-> st.rest]
             /\ st.ctx \in Seq(B) /\ st.rest \in Seq(B)
             /\ st.ctx \o st.rest = c \o r
             /\ Len(st.rest) = 0 \/ Len(st.rest) < Len(r)
<1> DEFINE n == Min({MaxChunk, Len(r)})
           c1 == c \o SubSeq(r, 1, n)
           r1 == SubSeq(r, n + 1, Len(r))
<1>1. MaxChunk \in Nat \ {0} /\ Len(r) \in Nat
  BY SizeAssumption
<1>2. n \in 0..Len(r) /\ (Len(r) > 0 => n > 0)
  BY <1>1, MinOfTwo
<1>3. Sha1Chunk([ctx |-> c, rest |-> r]) = [ctx |-> c1, rest |-> r1]
  BY DEF Sha1Chunk
<1> HIDE DEF n
<1>4. SubSeq(r, 1, n) \in Seq(B) /\ r1 \in Seq(B) /\ Len(r1) = Len(r) - n
  BY <1>1, <1>2, SubSeqProperties
<1>5. SubSeq(r, 1, n) \o r1 = r
  <2>1. 1 \in 1..(Len(r) + 1) /\ n \in (1 - 1)..Len(r) /\ Len(r) \in n..Len(r)
    BY <1>1, <1>2
  <2>2. SubSeq(r, 1, n) \o SubSeq(r, n + 1, Len(r)) = SubSeq(r, 1, Len(r))
    BY <2>1, ConcatAdjacentSubSeq
  <2> QED
    BY <2>2, SubSeqFull
<1>6. c1 \in Seq(B)
  BY <1>4
<1> HIDE DEF r1
<1>7. c1 \o r1 = c \o r
  <2> DEFINE m == SubSeq(r, 1, n)
  <2>1. m \in Seq(B) /\ m \o r1 = r
    BY <1>4, <1>5
  <2> HIDE DEF m
  <2>2. \A x, y, z \in Seq(B) : (x \o y) \o z = x \o (y \o z)
    BY ConcatAssociative
  <2>3. c \in Seq(B) /\ m \in Seq(B) /\ r1 \in Seq(B)
    BY <1>4, <2>1
  <2>4. (c \o m) \o r1 = c \o (m \o r1)
    BY <2>2, <2>3
  <2> QED
    BY <2>1, <2>4 DEF m
<1>8. Len(r1) = 0 \/ Len(r1) < Len(r)
  BY <1>1, <1>2, <1>4
<1> HIDE DEF c1
<1> DEFINE st == Sha1Chunk([ctx |-> c, rest |-> r])
<1>9. st = [ctx |-> c1, rest |-> r1]
  BY <1>3 DEF r1
<1> HIDE DEF st
<1>10. st.ctx = c1 /\ st.rest = r1
  BY <1>9
<1> QED
  BY <1>4, <1>6, <1>7, <1>8, <1>9, <1>10 DEF st

(* compat_sha1_update feeds all of the bytes, whatever the chunks are.     *)
LEMMA AllFed ==
  ASSUME NEW B, sha1_ctx \in Seq(B), NEW bytes \in Seq(B)
  PROVE  Sha1Update(bytes) = sha1_ctx \o bytes
<1> DEFINE a == [ctx |-> sha1_ctx, rest |-> bytes]
           N == Len(bytes)
           f == CHOOSE f : f = [k \in 0..N |-> IF k = 0 THEN a ELSE Sha1Chunk(f[k - 1])]
<1>1. N \in Nat
  OBVIOUS
<1>2. Sha1Update(bytes) = f[N].ctx
  BY DEF Sha1Update
<1> HIDE DEF N, a
<1>3. \E g : g = [k \in 0..N |-> IF k = 0 THEN a ELSE Sha1Chunk(g[k - 1])]
  BY <1>1, TurnsExist DEF Turns
<1>4. f = [k \in 0..N |-> IF k = 0 THEN a ELSE Sha1Chunk(f[k - 1])]
  BY <1>3
<1> HIDE DEF f
<1>5. \A k \in 0..N : f[k] = IF k = 0 THEN a ELSE Sha1Chunk(f[k - 1])
  BY <1>4
<1> DEFINE Good(k) ==
      /\ f[k] = [ctx |-> f[k].ctx, rest |-> f[k].rest]
      /\ f[k].ctx \in Seq(B) /\ f[k].rest \in Seq(B)
      /\ f[k].ctx \o f[k].rest = sha1_ctx \o bytes
      /\ Len(f[k].rest) = 0 \/ Len(f[k].rest) <= N - k
    S == {k \in Nat : k <= N => Good(k)}
<1>6. 0 \in S
  <2>1. f[0] = [ctx |-> sha1_ctx, rest |-> bytes]
    BY <1>1, <1>5 DEF a
  <2>2. f[0].ctx = sha1_ctx /\ f[0].rest = bytes
    BY <2>1
  <2>3. Good(0)
    BY <2>1, <2>2, <1>1 DEF N
  <2> QED
    BY <2>3
<1> HIDE DEF Good
<1>7. ASSUME NEW k \in Nat, k \in S
      PROVE  k + 1 \in S
  <2> SUFFICES ASSUME k + 1 <= N
               PROVE  Good(k + 1)
    OBVIOUS
  <2>1. Good(k)
    BY <1>1, <1>7
  <2>2. f[k + 1] = Sha1Chunk(f[k])
    BY <1>1, <1>5
  <2> DEFINE c == f[k].ctx
             r == f[k].rest
  <2>3. /\ c \in Seq(B) /\ r \in Seq(B) /\ c \o r = sha1_ctx \o bytes
        /\ f[k] = [ctx |-> c, rest |-> r]
        /\ Len(r) = 0 \/ Len(r) <= N - k
    BY <2>1 DEF Good
  <2> HIDE DEF c, r
  <2> DEFINE st == f[k + 1]
  <2>4. st = Sha1Chunk([ctx |-> c, rest |-> r])
    BY <2>2, <2>3
  <2>5. /\ st = [ctx |-> st.ctx, rest |-> st.rest]
        /\ st.ctx \in Seq(B) /\ st.rest \in Seq(B)
        /\ st.ctx \o st.rest = c \o r
        /\ Len(st.rest) = 0 \/ Len(st.rest) < Len(r)
    <3> HIDE DEF st
    <3> QED
      BY <2>3, <2>4, ChunkMoves, ZenonT(60)
  <2>6. Len(st.rest) \in Nat /\ Len(r) \in Nat
    BY <2>3, <2>5
  <2>7. Len(st.rest) = 0 \/ Len(st.rest) <= N - (k + 1)
    BY <1>1, <2>3, <2>5, <2>6
  <2> QED
    BY <2>3, <2>5, <2>7 DEF Good
<1> HIDE DEF S
<1>8. Nat \subseteq S
  BY <1>6, <1>7, SetInduction
<1>9. Good(N)
  BY <1>1, <1>8 DEF S
<1>10. f[N].rest \in Seq(B) /\ Len(f[N].rest) = 0 /\ f[N].ctx \in Seq(B)
  BY <1>1, <1>9 DEF Good
<1>11. f[N].rest = <<>>
  BY <1>10
<1> QED
  BY <1>2, <1>9, <1>10, <1>11, ConcatEmptySeq DEF Good

Bytes == Streams \X Nat

LEMMA PrefixIsSeq ==
  ASSUME NEW f \in Streams, NEW n \in Nat
  PROVE  Prefix(f, n) \in Seq(Bytes) /\ Len(Prefix(f, n)) = n
<1>1. Prefix(f, n) \in [1..n -> Bytes]
  BY DEF Prefix, Bytes
<1> QED
  BY <1>1

(* What a read stored continues what was absorbed.                         *)
LEMMA PrefixGrows ==
  ASSUME NEW f \in Streams, NEW m \in Nat, NEW n \in Nat, NEW d,
         \A k \in 1..n : d[k] = <<f, m + k>>
  PROVE  /\ SubSeq(d, 1, n) \in Seq(Bytes)
         /\ Prefix(f, m) \o SubSeq(d, 1, n) = Prefix(f, m + n)
<1> DEFINE p == Prefix(f, m)
           q == SubSeq(d, 1, n)
           w == Prefix(f, m + n)
<1>1. \A k \in 1..n : d[k] \in Bytes
  BY DEF Bytes
<1>2. q \in Seq(Bytes) /\ Len(q) = n /\ \A k \in 1..n : q[k] = d[k]
  <2>1. /\ SubSeq(d, 1, n) \in Seq(Bytes)
        /\ Len(SubSeq(d, 1, n)) = IF 1 <= n THEN n - 1 + 1 ELSE 0
        /\ \A k \in 1..(n - 1 + 1) : SubSeq(d, 1, n)[k] = d[1 + k - 1]
    BY <1>1, SubSeqProperties
  <2> QED
    BY <2>1
<1>3. /\ p \in Seq(Bytes) /\ Len(p) = m /\ \A k \in 1..m : p[k] = <<f, k>>
      /\ w \in Seq(Bytes) /\ Len(w) = m + n /\ \A k \in 1..(m + n) : w[k] = <<f, k>>
  BY PrefixIsSeq DEF Prefix
<1> HIDE DEF p, q, w
<1>4. /\ p \o q \in Seq(Bytes) /\ Len(p \o q) = m + n
      /\ \A k \in 1..(m + n) : (p \o q)[k] = IF k <= m THEN p[k] ELSE q[k - m]
  BY <1>2, <1>3, ConcatProperties
<1> DEFINE both == p \o q
<1>5. both \in Seq(Bytes) /\ Len(both) = m + n
  BY <1>4
<1>6. ASSUME NEW k \in 1..(m + n)
      PROVE  both[k] = w[k]
  <2>1. both[k] = IF k <= m THEN p[k] ELSE q[k - m]
    BY <1>4
  <2> HIDE DEF both
  <2>2. w[k] = <<f, k>>
    BY <1>3
  <2>3. CASE k <= m
    <3>1. k \in 1..m
      BY <2>3
    <3> QED
      BY <1>3, <2>1, <2>2, <2>3, <3>1
  <2>4. CASE k > m
    <3>1. k - m \in 1..n /\ m + (k - m) = k
      BY <2>4
    <3>2. q[k - m] = <<f, k>>
      BY <1>2, <3>1
    <3> QED
      BY <2>1, <2>2, <2>4, <3>2
  <2> QED
    BY <2>3, <2>4
<1> HIDE DEF both
<1>7. both = w
  BY <1>3, <1>5, <1>6, SeqEqual
<1> QED
  BY <1>2, <1>7 DEF both, p, q, w

-----------------------------------------------------------------------------
(* A line has a name and one or two digests.                               *)
HashLine == [kind : HashKinds, name : Files \cup {NoName}, digests : Seq(Seq(Bytes))]
OutLines == [kind : {"version", "converted"}] \cup HashLine
Reports == [result : {"line", "lost", "failed"}, stream : Streams, least : Nat, line : Nat]

Ranges ==
  /\ args \in Seq(Files) /\ i \in 0..Len(args)
  /\ size \in [Streams -> Nat] /\ atOpen \in Nat
  /\ out \in Seq(OutLines)
  /\ reported \in Seq(Reports)

(* Of each file that is done there is a report, in their order.            *)
Covered ==
  /\ pc = "options" => reported = <<>> /\ i = 0
  /\ pc = "open" => Len(reported) = i
  /\ pc \in Reading => Len(reported) = i /\ (args # <<>> => i < Len(args))
  /\ pc = "close" => i < Len(args) /\ Len(reported) = i + 1
  /\ args # <<>> => \A k \in 1..Len(reported) : k <= Len(args) /\ reported[k].stream = args[k]

Finished ==
  /\ pc # "exited" => status = Unset
  /\ pc = "exited" /\ status = "success" /\ opts = <<>> =>
       IF args = <<>>
       THEN Len(reported) = 1 /\ reported[1].stream = Stdin /\ reported[1].result # "failed"
       ELSE Len(reported) = Len(args)

(* n bytes of the stream have been hashed, by both or by the one wanted.   *)
Hashed(sha1, tth, n) ==
  /\ get_sha1 => sha1 = Prefix(Stream, n)
  /\ get_tth => tth = Prefix(Stream, n)

Contexts ==
  /\ offset \in Nat
  /\ pc = "fstat" => offset = 0
  /\ pc \in Reading => offset <= size[Stream] /\ atOpen <= size[Stream]
  /\ pc = "read" => Hashed(sha1_ctx, tt_ctx, offset)
  /\ pc = "update" => /\ ret \in 1..BufSize /\ ret <= offset
                      /\ \A k \in 1..ret : data[k] = <<Stream, (offset - ret) + k>>
                      /\ Hashed(sha1_ctx, tt_ctx, offset - ret)
  /\ pc = "final" => Hashed(sha1_ctx, tt_ctx, offset)
  /\ pc = "print" => Hashed(sha1_buf, tth_buf, offset)
  /\ pc \in {"final", "print"} => offset = size[Stream]

(* The line of report r is that of a whole file.                           *)
Right(r, lines, plain, sizes) ==
  /\ r.line \in DOMAIN lines /\ lines[r.line].kind \in HashKinds
  /\ lines[r.line].name = IF r.stream = Stdin \/ plain THEN NoName ELSE r.stream
  /\ \A d \in DOMAIN lines[r.line].digests :
       \E n \in r.least..sizes[r.stream] : lines[r.line].digests[d] = Prefix(r.stream, n)

Lines ==
  /\ \A k, m \in Done : k < m => reported[k].line < reported[m].line
  /\ \A j \in DOMAIN out : out[j].kind \in HashKinds => \E k \in Done : reported[k].line = j
  /\ \A k \in Done : Right(reported[k], out, quiet, size)
  /\ \A j \in DOMAIN out :
       out[j].kind = "bitprint" => Len(out[j].digests) = 2 /\ out[j].digests[1] = out[j].digests[2]

Inner == Ranges /\ Covered /\ Finished /\ Mode /\ Contexts /\ Lines
IndInv == Descriptors /\ Inner

-----------------------------------------------------------------------------
LEMMA Bounded ==
  ASSUME NEW S, NEW n \in Nat, NEW s \in BoundedSeq(S, n)
  PROVE  s \in Seq(S)
BY DEF BoundedSeq, SeqOf

LEMMA InitInv == Init => IndInv
<1> SUFFICES ASSUME Init
             PROVE  IndInv
  OBVIOUS
<1>1. args \in Seq(Files)
  BY SizeAssumption, Bounded DEF Init
<1>2. size \in [Streams -> Nat]
  BY SizeAssumption DEF Init
<1>3. out = <<>> /\ reported = <<>> /\ pc = "options" /\ offset = 0
  BY DEF Init
<1>4. Ranges
  BY <1>1, <1>2, <1>3 DEF Init, Ranges
<1>5. Covered /\ Finished
  BY DEF Init, Covered, Finished, Reading
<1>6. Contexts
  BY <1>3 DEF Contexts, Reading
<1>7. Done = {}
  BY <1>3 DEF Done
<1>8. Lines
  BY <1>3, <1>7 DEF Lines
<1> QED
  BY <1>4, <1>5, <1>6, <1>8, InitDescriptors, InitMode DEF IndInv, Inner

LEMMA StreamRead ==
  ASSUME Ranges, Covered, pc \in Reading
  PROVE  /\ Stream \in Streams /\ size[Stream] \in Nat
         /\ (Stream = Stdin) <=> (args = <<>>)
         /\ args # <<>> => Stream = args[i + 1] /\ Stream \in Files
<1>1. args # <<>> => args[i + 1] \in Files
  BY DEF Ranges, Covered
<1>2. Stream \in Streams
  BY <1>1 DEF Stream, Streams
<1> QED
  BY <1>1, <1>2, NameAssumption DEF Stream, Ranges

LEMMA NextContexts ==
  ASSUME Ranges, Covered, Mode, Contexts, [Next]_vars
  PROVE  Contexts'
<1> USE DEF os, main, flags, sums, history
<1>1. pc \in Reading => Stream \in Streams /\ size[Stream] \in Nat
  BY StreamRead
<1>2. CASE UNCHANGED offset /\ pc' \notin Reading
  BY <1>2 DEF Contexts, Reading
<1>3. CASE OptionExit \/ OpenFails \/ PrintResult \/ Close \/ Return \/ FstatFails \/ ReadFails
  BY <1>2, <1>3 DEF OptionExit, OpenFails, PrintResult, Close, Return, FstatFails, ReadFails, SumsFail,
                    Exit, Reading
<1>4. CASE OptionMode \/ OptionQuiet
  <2>1. UNCHANGED offset /\ pc' = "options"
    BY <1>4 DEF OptionMode, OptionQuiet
  <2> QED
    BY <1>2, <2>1 DEF Reading
<1>5. CASE OptionsEnd
  <2>1. CASE args = <<>>
    <3>1. offset' = 0 /\ atOpen' = size[Stdin] /\ pc' = "fstat" /\ UNCHANGED <<size, args, i>>
      BY <1>5, <2>1 DEF OptionsEnd
    <3>2. Stream' = Stdin /\ size'[Stdin] \in Nat
      BY <2>1, <3>1 DEF Stream, Ranges, Streams
    <3> QED
      BY <3>1, <3>2 DEF Contexts, Reading
  <2>2. CASE args # <<>>
    BY <1>2, <1>5, <2>2 DEF OptionsEnd, Reading
  <2> QED
    BY <2>1, <2>2
<1>6. CASE Open
  <2>1. offset' = 0 /\ atOpen' = size[args[i + 1]] /\ pc' = "fstat" /\ UNCHANGED <<size, args, i>>
        /\ i < Len(args)
    BY <1>6 DEF Open
  <2>2. args # <<>> /\ args[i + 1] \in Files
    BY <2>1 DEF Ranges
  <2>3. Stream' = args[i + 1] /\ size'[args[i + 1]] \in Nat
    BY <2>1, <2>2 DEF Stream, Ranges, Streams
  <2> QED
    BY <2>1, <2>3 DEF Contexts, Reading
<1>7. CASE Fstat
  <2>1. /\ pc = "fstat" /\ pc' = "read" /\ UNCHANGED <<size, args, i, offset, atOpen, get_sha1, get_tth>>
        /\ sha1_ctx' = (IF get_sha1 THEN <<>> ELSE Unset) /\ tt_ctx' = (IF get_tth THEN <<>> ELSE Unset)
    BY <1>7 DEF Fstat
  <2>2. Stream' = Stream /\ offset = 0
    BY <2>1 DEF Stream, Contexts
  <2>3. Prefix(Stream, 0) = <<>>
    BY DEF Prefix
  <2>4. Hashed(sha1_ctx, tt_ctx, offset)'
    BY <2>1, <2>2, <2>3 DEF Hashed
  <2> QED
    BY <2>1, <2>2, <2>4 DEF Contexts, Reading
<1>8. CASE ReadData
  <2>1. PICK n \in 1..BufSize :
          /\ offset + n <= size[Stream] /\ ret' = n /\ offset' = offset + n
          /\ data' = [k \in 1..BufSize |-> IF k <= n THEN <<Stream, offset + k>> ELSE data[k]]
    BY <1>8 DEF ReadData
  <2>2. /\ pc = "read" /\ pc' = "update"
        /\ UNCHANGED <<size, args, i, atOpen, get_sha1, get_tth, sha1_ctx, tt_ctx>>
    BY <1>8 DEF ReadData
  <2>3. Stream' = Stream /\ n \in Nat /\ BufSize \in Nat /\ offset \in Nat /\ Hashed(sha1_ctx, tt_ctx, offset)
    BY <2>1, <2>2, SizeAssumption DEF Stream, Contexts
  <2>4. offset' - ret' = offset /\ ret' <= offset' /\ offset' \in Nat
    BY <2>1, <2>3
  <2>5. \A k \in 1..n : data'[k] = <<Stream, offset + k>>
    BY <2>1, <2>3
  <2>6. Hashed(sha1_ctx, tt_ctx, offset - ret)'
    BY <2>2, <2>3, <2>4 DEF Hashed
  <2>7. offset' <= size'[Stream'] /\ atOpen' <= size'[Stream']
    BY <2>1, <2>2, <2>3 DEF Contexts, Reading
  <2>8. ret' \in 1..BufSize /\ \A k \in 1..ret' : data'[k] = <<Stream', (offset' - ret') + k>>
    BY <2>1, <2>3, <2>4, <2>5
  <2> QED
    BY <2>2, <2>4, <2>6, <2>7, <2>8 DEF Contexts, Reading
<1>9. CASE ReadEnd
  <2>1. /\ pc = "read" /\ pc' = "final" /\ offset >= size[Stream]
        /\ UNCHANGED <<size, args, i, offset, atOpen, get_sha1, get_tth, sha1_ctx, tt_ctx>>
    BY <1>9 DEF ReadEnd
  <2>2. Stream' = Stream /\ Hashed(sha1_ctx, tt_ctx, offset)'
    BY <2>1 DEF Stream, Contexts, Hashed
  <2>3. offset = size[Stream]
    BY <1>1, <2>1 DEF Contexts, Reading
  <2> QED
    BY <2>1, <2>2, <2>3 DEF Contexts, Reading
<1>10. CASE ReadAgain
  <2>1. /\ pc = "read" /\ pc' = "read"
        /\ UNCHANGED <<size, args, i, offset, atOpen, get_sha1, get_tth, sha1_ctx, tt_ctx>>
    BY <1>10 DEF ReadAgain
  <2>2. Stream' = Stream /\ Hashed(sha1_ctx, tt_ctx, offset)'
    BY <2>1 DEF Stream, Contexts, Hashed
  <2> QED
    BY <2>1, <2>2 DEF Contexts, Reading
<1>11. CASE UpdateSums
  <2>1. /\ pc = "update" /\ pc' = "read" /\ UNCHANGED <<size, args, i, offset, atOpen, get_sha1, get_tth>>
        /\ sha1_ctx' = IF get_sha1 THEN Sha1Update(SubSeq(data, 1, ret)) ELSE sha1_ctx
        /\ tt_ctx' = IF get_tth THEN Absorbed(tt_ctx) ELSE tt_ctx
    BY <1>11 DEF UpdateSums
  <2> DEFINE m == offset - ret
             d == SubSeq(data, 1, ret)
             p == Prefix(Stream, m)
  <2>2. /\ ret \in 1..BufSize /\ ret <= offset /\ Hashed(sha1_ctx, tt_ctx, m)
        /\ \A k \in 1..ret : data[k] = <<Stream, m + k>>
    BY <2>1 DEF Contexts
  <2>3. m \in Nat /\ ret \in Nat /\ m + ret = offset /\ Stream \in Streams
    BY <1>1, <2>1, <2>2, SizeAssumption DEF Contexts, Reading
  <2> HIDE DEF m
  <2>4. d \in Seq(Bytes) /\ p \o d = Prefix(Stream, offset)
    BY <2>2, <2>3, PrefixGrows
  <2>5. p \in Seq(Bytes)
    BY <2>3, PrefixIsSeq
  <2>6. get_tth => tt_ctx' = Prefix(Stream, offset)
    BY <2>1, <2>2, <2>4 DEF Absorbed, Hashed
  <2>7. get_sha1 => sha1_ctx' = Prefix(Stream, offset)
    <3> SUFFICES ASSUME get_sha1
                 PROVE  sha1_ctx' = Prefix(Stream, offset)
      OBVIOUS
    <3>1. sha1_ctx = p
      BY <2>2 DEF Hashed
    <3>2. sha1_ctx' = Sha1Update(d)
      BY <2>1
    <3> HIDE DEF p, d
    <3>3. Sha1Update(d) = sha1_ctx \o d
      BY <2>4, <2>5, <3>1, AllFed
    <3> QED
      BY <2>4, <3>1, <3>2, <3>3
  <2>8. Stream' = Stream
    BY <2>1 DEF Stream
  <2>9. Hashed(sha1_ctx, tt_ctx, offset)'
    BY <2>1, <2>6, <2>7, <2>8 DEF Hashed
  <2> QED
    BY <2>1, <2>8, <2>9 DEF Contexts, Reading
<1>12. CASE FinalSums
  <2>1. /\ pc = "final" /\ pc' = "print" /\ UNCHANGED <<size, args, i, offset, atOpen, get_sha1, get_tth>>
        /\ sha1_buf' = (IF get_sha1 THEN sha1_ctx ELSE sha1_buf)
        /\ tth_buf' = (IF get_tth THEN tt_ctx ELSE tth_buf)
    BY <1>12 DEF FinalSums
  <2>2. Stream' = Stream /\ Hashed(sha1_buf, tth_buf, offset)'
    BY <2>1 DEF Stream, Contexts, Hashed
  <2> QED
    BY <2>1, <2>2 DEF Contexts, Reading
<1>13. CASE Grow
  <2>1. /\ pc \in {"fstat", "read", "update"} /\ size' = [size EXCEPT ![Stream] = @ + 1]
        /\ UNCHANGED <<pc, args, i, offset, atOpen, get_sha1, get_tth, sha1_ctx, tt_ctx, ret, data>>
    BY <1>13 DEF Grow
  <2>2. Stream' = Stream
    BY <2>1 DEF Stream
  <2>3. size'[Stream] = size[Stream] + 1 /\ size[Stream] \in Nat
    BY <1>1, <2>1 DEF Ranges, Reading
  <2>4. offset' <= size'[Stream'] /\ atOpen' <= size'[Stream']
    BY <2>1, <2>2, <2>3 DEF Contexts, Reading, Ranges
  <2>6. pc = "update" => Hashed(sha1_ctx, tt_ctx, offset - ret)'
    BY <2>1, <2>2 DEF Hashed, Contexts
  <2>7. pc = "read" => Hashed(sha1_ctx, tt_ctx, offset)'
    BY <2>1, <2>2 DEF Hashed, Contexts
  <2> QED
    BY <2>1, <2>2, <2>4, <2>6, <2>7 DEF Contexts, Reading
<1>14. CASE UNCHANGED vars
  <2>1. UNCHANGED <<pc, size, args, i, offset, atOpen, get_sha1, get_tth, sha1_ctx, tt_ctx, sha1_buf, tth_buf, ret, data>>
    BY <1>14 DEF vars
  <2>2. Stream' = Stream
    BY <2>1 DEF Stream
  <2> QED
    BY <2>1, <2>2 DEF Contexts, Hashed
<1> QED
  BY <1>3, <1>4, <1>5, <1>6, <1>7, <1>8, <1>9, <1>10, <1>11, <1>12, <1>13, <1>14
     DEF Next, Step, ReadAnswers

(* What print_result prints is one line of the stream that was read.       *)
LEMMA OneLine ==
  ASSUME Ranges, Covered, Mode, Contexts, pc = "print"
  PROVE  \E l \in HashLine :
           /\ ResultLines = <<l>>
           /\ l.name = IF Stream = Stdin \/ quiet THEN NoName ELSE Stream
           /\ \A d \in DOMAIN l.digests : l.digests[d] = Prefix(Stream, offset)
           /\ l.kind = "bitprint" => Len(l.digests) = 2 /\ l.digests[1] = l.digests[2]
<1> DEFINE name == IF args = <<>> \/ quiet THEN NoName ELSE args[i + 1]
           p == Prefix(Stream, offset)
           line(k, digests) == [kind |-> k, name |-> name, digests |-> digests]
<1>1. /\ Stream \in Streams /\ ((Stream = Stdin) <=> (args = <<>>))
      /\ args # <<>> => Stream = args[i + 1] /\ Stream \in Files
  BY StreamRead DEF Reading
<1>2. name \in Files \cup {NoName} /\ name = IF Stream = Stdin \/ quiet THEN NoName ELSE Stream
  BY <1>1
<1>3. p \in Seq(Bytes)
  BY <1>1, PrefixIsSeq DEF Contexts
<1>4. (get_sha1 => sha1_buf = p) /\ (get_tth => tth_buf = p)
  BY DEF Contexts, Hashed
<1>5. /\ get_bitprint \in BOOLEAN /\ get_sha1 \in BOOLEAN /\ get_tth \in BOOLEAN
      /\ get_bitprint => get_sha1 /\ get_tth
      /\ ~get_bitprint => get_sha1 = ~get_tth
  <2>1. /\ pc # "exited" /\ pc # "options" /\ get_bitprint \in BOOLEAN /\ get_sha1 \in BOOLEAN /\ get_tth \in BOOLEAN
        /\ get_bitprint => get_sha1 /\ get_tth
        /\ get_bitprint <=> Selected = {}
        /\ \A k, m \in Selected : k = m
        /\ ~get_bitprint => /\ get_sha1 <=> \A k \in Selected : given[k] = "S"
                            /\ get_tth <=> \A k \in Selected : given[k] = "T"
    BY DEF Mode
  <2>2. ASSUME ~get_bitprint
        PROVE  get_sha1 = ~get_tth
    <3>1. PICK k \in Selected : TRUE
      BY <2>1, <2>2
    <3>2. \A m \in Selected : m = k
      BY <2>1
    <3>3. given[k] \in {"S", "T"}
      BY <3>1 DEF Selected
    <3>4. (get_sha1 <=> given[k] = "S") /\ (get_tth <=> given[k] = "T")
      BY <2>1, <2>2, <3>1, <3>2
    <3> QED
      BY <2>1, <3>3, <3>4
  <2> QED
    BY <2>1, <2>2
<1>6. ResultLines = IF get_bitprint /\ get_tth /\ get_sha1 THEN <<line("bitprint", <<sha1_buf, tth_buf>>)>>
                    ELSE (IF get_tth THEN <<line("tth", <<tth_buf>>)>> ELSE <<>>)
                         \o (IF get_sha1 THEN <<line("sha1", <<sha1_buf>>)>> ELSE <<>>)
  BY DEF ResultLines
<1> HIDE DEF name, p
<1>7. /\ line("bitprint", <<p, p>>) \in HashLine
      /\ line("tth", <<p>>) \in HashLine
      /\ line("sha1", <<p>>) \in HashLine
  BY <1>2, <1>3 DEF HashLine, HashKinds
<1>8. CASE get_bitprint
  <2>1. ResultLines = <<line("bitprint", <<p, p>>)>>
    BY <1>4, <1>5, <1>6, <1>8
  <2>2. \A d \in DOMAIN <<p, p>> : <<p, p>>[d] = p
    OBVIOUS
  <2> DEFINE l == line("bitprint", <<p, p>>)
  <2>3. l.name = name /\ l.digests = <<p, p>> /\ l \in HashLine
    BY <1>7
  <2>4. Len(<<p, p>>) = 2 /\ <<p, p>>[1] = <<p, p>>[2]
    OBVIOUS
  <2> QED
    BY <1>2, <2>1, <2>2, <2>3, <2>4 DEF p
<1>9. CASE ~get_bitprint /\ get_tth
  <2> DEFINE l == line("tth", <<p>>)
  <2>1. ResultLines = <<l>>
    <3>1. get_tth /\ ~get_sha1 /\ tth_buf = p
      BY <1>4, <1>5, <1>9
    <3>2. ResultLines = <<l>> \o <<>>
      BY <1>6, <1>9, <3>1
    <3>3. <<l>> \in Seq(HashLine)
      BY <1>7
    <3> QED
      BY <3>2, <3>3, ConcatEmptySeq
  <2>2. \A d \in DOMAIN <<p>> : <<p>>[d] = p
    OBVIOUS
  <2>3. l.name = name /\ l.digests = <<p>> /\ l \in HashLine /\ l.kind # "bitprint"
    BY <1>7
  <2> QED
    BY <1>2, <2>1, <2>2, <2>3 DEF p
<1>10. CASE ~get_bitprint /\ ~get_tth
  <2> DEFINE l == line("sha1", <<p>>)
  <2>1. ResultLines = <<l>>
    <3>1. ~get_tth /\ get_sha1 /\ sha1_buf = p
      BY <1>4, <1>5, <1>10
    <3>2. ResultLines = <<>> \o <<l>>
      BY <1>6, <1>10, <3>1
    <3>3. <<l>> \in Seq(HashLine)
      BY <1>7
    <3> QED
      BY <3>2, <3>3, ConcatEmptySeq
  <2>2. \A d \in DOMAIN <<p>> : <<p>>[d] = p
    OBVIOUS
  <2>3. l.name = name /\ l.digests = <<p>> /\ l \in HashLine /\ l.kind # "bitprint"
    BY <1>7
  <2> QED
    BY <1>2, <2>1, <2>2, <2>3 DEF p
<1> QED
  BY <1>8, <1>9, <1>10

(* A line is put behind the others.                                        *)
LEMMA OneMore ==
  ASSUME out \in Seq(OutLines), NEW l \in OutLines, out' = out \o <<l>>
  PROVE  /\ out' \in Seq(OutLines) /\ Len(out) \in Nat
         /\ DOMAIN out = 1..Len(out) /\ DOMAIN out' = 1..(Len(out) + 1)
         /\ out'[Len(out) + 1] = l
         /\ \A j \in DOMAIN out : out'[j] = out[j]
<1>1. <<l>> \in Seq(OutLines) /\ Len(<<l>>) = 1 /\ <<l>>[1] = l
  OBVIOUS
<1>2. /\ out' \in Seq(OutLines) /\ Len(out') = Len(out) + 1 /\ Len(out) \in Nat
      /\ \A j \in 1..(Len(out) + 1) : out'[j] = IF j <= Len(out) THEN out[j] ELSE <<l>>[j - Len(out)]
  BY <1>1, ConcatProperties
<1>3. out'[Len(out) + 1] = l
  BY <1>1, <1>2
<1> QED
  BY <1>2, <1>3

(* A report of the stream that is read takes its place.                    *)
LEMMA Reported ==
  ASSUME Ranges, Covered, pc \in Reading, UNCHANGED <<args, i, size, atOpen>>,
         NEW result \in {"line", "lost", "failed"}, Report(result)
  PROVE  /\ reported' \in Seq(Reports) /\ Len(reported') = i + 1
         /\ reported'[i + 1] = [result |-> result, stream |-> Stream, least |-> atOpen, line |-> Len(out) + 1]
         /\ \A k \in 1..i : reported'[k] = reported[k]
         /\ args = <<>> => i = 0 /\ reported'[1].stream = Stdin
         /\ args # <<>> => \A k \in 1..Len(reported') : k <= Len(args) /\ reported'[k].stream = args[k]
<1> DEFINE r == [result |-> result, stream |-> Stream, least |-> atOpen, line |-> Len(out) + 1]
<1>1. Stream \in Streams
  BY DEF Stream, Streams, Ranges, Covered
<1>2. r \in Reports
  BY <1>1 DEF Reports, Ranges
<1>3. r.stream = Stream /\ reported' = Append(reported, r)
  BY DEF Report
<1>4. Len(reported) = i
  BY DEF Covered
<1> HIDE DEF r
<1>5. /\ reported' \in Seq(Reports) /\ Len(reported') = i + 1 /\ reported'[i + 1] = r
      /\ \A k \in 1..i : reported'[k] = reported[k]
  BY <1>2, <1>3, <1>4 DEF Ranges
<1>6. args = <<>> => i = 0
  BY DEF Ranges
<1>7. args = <<>> => reported'[1].stream = Stdin
  BY <1>3, <1>5, <1>6 DEF Stream
<1>8. args # <<>> => \A k \in 1..Len(reported') : k <= Len(args) /\ reported'[k].stream = args[k]
  BY <1>3, <1>4, <1>5 DEF Stream, Covered, Ranges
<1> QED
  BY <1>5, <1>6, <1>7, <1>8 DEF r

LEMMA NextCounts ==
  ASSUME IndInv, [Next]_vars
  PROVE  Ranges' /\ Covered' /\ Finished'
<1>1. Descriptors /\ Ranges /\ Covered /\ Finished /\ Mode /\ Contexts
  BY DEF IndInv, Inner
<1> USE DEF Reading, os, main, flags, sums, history
<1>2. CASE OptionExit
  <2>1. out' = out \/ \E k \in {"version", "converted"} : out' = out \o <<[kind |-> k]>>
    BY <1>2 DEF OptionExit, Printed, Lost
  <2>2. \A k \in {"version", "converted"} : [kind |-> k] \in OutLines
    BY DEF OutLines
  <2>3. out' \in Seq(OutLines)
    BY <1>1, <2>1, <2>2, OneMore DEF Ranges
  <2> QED
    BY <1>1, <1>2, <2>3 DEF OptionExit, Exit, Ranges, Covered, Finished
<1>3. CASE OptionMode \/ OptionQuiet
  BY <1>1, <1>3 DEF OptionMode, OptionQuiet, Ranges, Covered, Finished
<1>4. CASE OptionsEnd
  <2>1. size[Stdin] \in Nat
    BY <1>1 DEF Ranges, Streams
  <2> QED
    BY <1>1, <1>4, <2>1 DEF OptionsEnd, Ranges, Covered, Finished
<1>5. CASE Open
  <2>1. args[i + 1] \in Files
    BY <1>1, <1>5 DEF Open, Ranges
  <2>2. size[args[i + 1]] \in Nat
    BY <1>1, <2>1 DEF Ranges, Streams
  <2> QED
    BY <1>1, <1>5, <2>2 DEF Open, Ranges, Covered, Finished
<1>6. CASE OpenFails
  BY <1>1, <1>6 DEF OpenFails, Exit, Ranges, Covered, Finished
<1>7. CASE Return
  BY <1>1, <1>7 DEF Return, Exit, Ranges, Covered, Finished, Descriptors
<1>8. CASE PrintResult
  <2>1. PICK result \in {"line", "lost"} : Report(result)
    BY <1>8 DEF PrintResult
  <2>2. pc = "print" /\ UNCHANGED <<args, i, size, atOpen>> /\ UNCHANGED opts
    BY <1>8 DEF PrintResult
  <2>3. /\ reported' \in Seq(Reports) /\ Len(reported') = i + 1
        /\ reported'[i + 1].result = result
        /\ args = <<>> => i = 0 /\ reported'[1].stream = Stdin
        /\ args # <<>> => \A k \in 1..Len(reported') : k <= Len(args) /\ reported'[k].stream = args[k]
    BY <1>1, <2>1, <2>2, Reported
  <2>4. Ranges'
    <3>1. PICK l \in HashLine : ResultLines = <<l>>
      BY <1>1, <2>2, OneLine
    <3>2. out' = out \/ out' = out \o <<l>>
      BY <1>8, <3>1 DEF PrintResult, Printed, Lost
    <3>3. out' \in Seq(OutLines)
      BY <1>1, <3>2, OneMore DEF Ranges, OutLines
    <3> QED
      BY <1>1, <2>2, <2>3, <3>3 DEF Ranges
  <2>5. CASE args = <<>> /\ pc' = "exited"
    BY <1>1, <2>1, <2>2, <2>3, <2>4, <2>5 DEF Covered, Finished
  <2>6. CASE args # <<>> /\ pc' = "close" /\ UNCHANGED status
    BY <1>1, <2>2, <2>3, <2>4, <2>6 DEF Covered, Finished
  <2> QED
    BY <1>8, <2>5, <2>6 DEF PrintResult, Exit
<1>9. CASE FstatFails \/ ReadFails
  <2>1. SumsFail /\ UNCHANGED <<size, args, i, atOpen, opts, out>> /\ pc \in Reading
    BY <1>9 DEF FstatFails, ReadFails
  <2> QED
    BY <1>1, <2>1, Reported, UnsetAssumption DEF SumsFail, Exit, Ranges, Covered, Finished
<1>10. CASE Close
  BY <1>1, <1>10 DEF Close, Ranges, Covered, Finished
<1>11. CASE Fstat \/ ReadData \/ ReadEnd \/ ReadAgain \/ UpdateSums \/ FinalSums
  BY <1>1, <1>11 DEF Fstat, ReadData, ReadEnd, ReadAgain, UpdateSums, FinalSums, Ranges, Covered,
                     Finished
<1>12. CASE Grow
  <2>1. size' \in [Streams -> Nat]
    <3>1. size' = [size EXCEPT ![Stream] = size[Stream] + 1]
      BY <1>12 DEF Grow
    <3>2. size \in [Streams -> Nat]
      BY <1>1 DEF Ranges
    <3>3. Stream \in Streams => size[Stream] + 1 \in Nat
      BY <3>2
    <3>4. \A f \in Streams : (IF f = Stream THEN size[Stream] + 1 ELSE size[f]) \in Nat
      BY <3>2, <3>3
    <3>5. size' = [f \in Streams |-> IF f = Stream THEN size[Stream] + 1 ELSE size[f]]
      BY <3>1, <3>2
    <3> HIDE DEF Stream
    <3> QED
      BY <3>4, <3>5
  <2> QED
    BY <1>1, <1>12, <2>1 DEF Grow, Ranges, Covered, Finished
<1>13. CASE UNCHANGED vars
  BY <1>1, <1>13 DEF vars, Ranges, Covered, Finished
<1> QED
  BY <1>2, <1>3, <1>4, <1>5, <1>6, <1>7, <1>8, <1>9, <1>10, <1>11, <1>12, <1>13
     DEF Next, Step, ReadAnswers

(* A report that was right stays so when files grow and lines are added.   *)
LEMMA StaysRight ==
  ASSUME NEW r \in Reports, NEW lines, NEW plain, NEW sizes \in [Streams -> Nat], Right(r, lines, plain, sizes),
         NEW more, NEW larger \in [Streams -> Nat],
         DOMAIN lines \subseteq DOMAIN more, \A j \in DOMAIN lines : more[j] = lines[j],
         \A f \in Streams : sizes[f] <= larger[f]
  PROVE  Right(r, more, plain, larger)
<1>1. r.stream \in Streams /\ r.least \in Nat
  BY DEF Reports
<1>2. r.least..sizes[r.stream] \subseteq r.least..larger[r.stream]
  BY <1>1
<1>3. r.line \in DOMAIN more /\ more[r.line] = lines[r.line]
  BY DEF Right
<1> QED
  BY <1>2, <1>3 DEF Right

(* All reports so far are right after a step that adds to out and size.    *)
LEMMA EarlierRight ==
  ASSUME Ranges, Ranges', Lines, quiet' = quiet \/ reported = <<>>,
         DOMAIN out \subseteq DOMAIN out', \A j \in DOMAIN out : out'[j] = out[j],
         \A f \in Streams : size[f] <= size'[f]
  PROVE  \A k \in Done : Right(reported[k], out', quiet', size')
<1> SUFFICES ASSUME NEW k \in Done
             PROVE  Right(reported[k], out', quiet', size')
  OBVIOUS
<1>1. k \in DOMAIN reported /\ reported[k] \in Reports /\ quiet' = quiet
  BY DEF Ranges, Done
<1>2. Right(reported[k], out, quiet, size)
  BY DEF Lines
<1>3. size \in [Streams -> Nat] /\ size' \in [Streams -> Nat]
  BY DEF Ranges
<1> QED
  BY <1>1, <1>2, <1>3, StaysRight

LEMMA NextLines ==
  ASSUME Ranges, Ranges', Covered, Mode, Contexts, Lines, [Next]_vars
  PROVE  Lines'
<1> USE DEF os, main, flags, sums, history
<1>1. /\ Done \subseteq DOMAIN reported /\ DOMAIN reported = 1..Len(reported) /\ Len(reported) \in Nat
      /\ \A k \in Done : reported[k].line \in DOMAIN out
      /\ DOMAIN out = 1..Len(out) /\ Len(out) \in Nat
  BY DEF Ranges, Done, Lines, Right
<1>2. ASSUME UNCHANGED <<out, reported>>, UNCHANGED quiet \/ reported = <<>>,
             \A f \in Streams : size[f] <= size'[f]
      PROVE  Lines'
  <2>1. Done' = Done
    BY <1>2 DEF Done
  <2>2. \A k \in Done : Right(reported[k], out', quiet', size')
    BY <1>2, EarlierRight
  <2> QED
    BY <1>2, <2>1, <2>2 DEF Lines
<1>3. UNCHANGED size => \A f \in Streams : size[f] <= size'[f]
  BY DEF Ranges
(* An option that prints a line of its own.                                *)
<1>4. ASSUME NEW l \in OutLines, l.kind \notin HashKinds, out' = out \o <<l>>, reported = <<>>,
             UNCHANGED <<size, reported>>
      PROVE  Lines'
  <2>1. /\ DOMAIN out = 1..Len(out) /\ DOMAIN out' = 1..(Len(out) + 1) /\ Len(out) \in Nat
        /\ out'[Len(out) + 1] = l /\ \A j \in DOMAIN out : out'[j] = out[j]
    BY <1>4, OneMore DEF Ranges
  <2>2. Done = {} /\ Done' = {}
    BY <1>4 DEF Done
  <2>3. \A j \in DOMAIN out' : j \in DOMAIN out \/ out'[j] = l
    BY <2>1
  <2>4. l.kind # "bitprint"
    BY <1>4 DEF HashKinds
  <2> QED
    BY <1>4, <2>1, <2>2, <2>3, <2>4 DEF Lines
(* A stream of which nothing was printed.                                  *)
<1>5. ASSUME NEW result \in {"lost", "failed"}, Report(result), pc \in Reading,
             UNCHANGED <<size, out, quiet, args, i, atOpen>>
      PROVE  Lines'
  <2>1. /\ Len(reported') = i + 1 /\ DOMAIN reported' = 1..(i + 1) /\ reported'[i + 1].result = result
        /\ \A k \in 1..i : reported'[k] = reported[k]
    BY <1>5, Reported
  <2>2. DOMAIN reported = 1..i /\ i \in Nat
    BY <1>1, <1>5 DEF Covered, Ranges
  <2>3. Done' = Done
    BY <1>5, <2>1, <2>2 DEF Done
  <2>4. \A k \in Done : Right(reported[k], out', quiet', size') /\ reported'[k] = reported[k]
    BY <1>1, <1>3, <1>5, <2>1, <2>2, EarlierRight
  <2> QED
    BY <1>1, <1>5, <2>3, <2>4 DEF Lines
(* A stream with a line.                                                   *)
<1>6. ASSUME Report("line"), Printed(ResultLines), pc = "print",
             UNCHANGED <<size, quiet, args, i, atOpen>>
      PROVE  Lines'
  <2>1. PICK l \in HashLine :
           /\ ResultLines = <<l>>
           /\ l.name = IF Stream = Stdin \/ quiet THEN NoName ELSE Stream
           /\ \A d \in DOMAIN l.digests : l.digests[d] = Prefix(Stream, offset)
           /\ l.kind = "bitprint" => Len(l.digests) = 2 /\ l.digests[1] = l.digests[2]
    BY <1>6, OneLine
  <2>2. /\ DOMAIN out' = 1..(Len(out) + 1)
        /\ out'[Len(out) + 1] = l /\ \A j \in DOMAIN out : out'[j] = out[j]
    BY <1>6, <2>1, OneMore DEF Ranges, OutLines, Printed
  <2> DEFINE r == [result |-> "line", stream |-> Stream, least |-> atOpen, line |-> Len(out) + 1]
  <2>3. /\ Len(reported') = i + 1 /\ DOMAIN reported' = 1..(i + 1) /\ reported'[i + 1] = r
        /\ \A k \in 1..i : reported'[k] = reported[k]
    BY <1>6, Reported DEF Reading
  <2>4. DOMAIN reported = 1..i /\ i \in Nat
    BY <1>1, <1>6 DEF Covered, Ranges, Reading
  <2>5. /\ r.result = "line" /\ r.stream = Stream /\ r.least = atOpen /\ r.line = Len(out) + 1
    OBVIOUS
  <2> HIDE DEF r
  <2>6. Done' = Done \cup {i + 1} /\ i + 1 \notin Done
    BY <2>3, <2>4, <2>5 DEF Done
  <2>7. \A k \in Done : Right(reported[k], out', quiet', size') /\ reported'[k] = reported[k]
    BY <1>1, <1>3, <1>6, <2>2, <2>3, <2>4, EarlierRight
  <2>8. Right(r, out', quiet', size')
    <3>1. out'[r.line] = l /\ l.kind \in HashKinds /\ r.line \in DOMAIN out'
      BY <1>1, <2>2, <2>5 DEF HashLine
    <3>2. offset \in r.least..size'[r.stream]
      BY <1>6, <2>5 DEF Contexts, Ranges, Reading
    <3> QED
      BY <1>6, <2>1, <2>5, <3>1, <3>2 DEF Right
  <2>9. \A k \in Done : k < i + 1 /\ reported[k].line < r.line
    BY <1>1, <2>4, <2>5
  <2>10. \A k, m \in Done' : k < m => reported'[k].line < reported'[m].line
    <3> SUFFICES ASSUME NEW k \in Done', NEW m \in Done', k < m
                 PROVE  reported'[k].line < reported'[m].line
      OBVIOUS
    <3>1. k \in Done
      BY <1>1, <2>4, <2>6, <2>9
    <3>2. CASE m \in Done
      BY <2>7, <3>1, <3>2 DEF Lines
    <3>3. CASE m = i + 1
      BY <2>3, <2>7, <2>9, <3>1, <3>3
    <3> QED
      BY <2>6, <3>2, <3>3
  <2>11. \A j \in DOMAIN out' : j \in DOMAIN out \/ j = r.line
    BY <1>1, <2>2, <2>5
  <2>12. \A j \in DOMAIN out' : out'[j].kind \in HashKinds => \E k \in Done' : reported'[k].line = j
    <3> SUFFICES ASSUME NEW j \in DOMAIN out', out'[j].kind \in HashKinds
                 PROVE  \E k \in Done' : reported'[k].line = j
      OBVIOUS
    <3>1. CASE j \in DOMAIN out
      BY <2>2, <2>6, <2>7, <3>1 DEF Lines
    <3>2. CASE j = r.line
      BY <2>3, <2>6, <3>2
    <3> QED
      BY <2>11, <3>1, <3>2
  <2>13. \A k \in Done' : Right(reported'[k], out', quiet', size')
    BY <2>3, <2>6, <2>7, <2>8
  <2>14. \A j \in DOMAIN out' :
           out'[j].kind = "bitprint" => Len(out'[j].digests) = 2 /\ out'[j].digests[1] = out'[j].digests[2]
    BY <2>1, <2>2, <2>5, <2>11 DEF Lines
  <2> QED
    BY <2>10, <2>12, <2>13, <2>14 DEF Lines
<1>7. CASE OptionExit
  <2>1. UNCHANGED <<size, reported, quiet>> /\ reported = <<>>
    BY <1>7 DEF OptionExit, Covered
  <2>2. CASE UNCHANGED out
    BY <1>2, <1>3, <2>1, <2>2
  <2>3. CASE \E k \in {"version", "converted"} : out' = out \o <<[kind |-> k]>>
    <3>1. PICK k \in {"version", "converted"} : out' = out \o <<[kind |-> k]>>
      BY <2>3
    <3> DEFINE l == [kind |-> k]
    <3>2. l \in OutLines /\ l.kind \notin HashKinds /\ out' = out \o <<l>>
      BY <3>1 DEF OutLines, HashKinds
    <3> HIDE DEF l
    <3> QED
      BY <1>4, <2>1, <3>2
  <2> QED
    BY <1>7, <2>2, <2>3 DEF OptionExit, Printed, Lost
<1>8. CASE OptionMode \/ OptionQuiet \/ OptionsEnd
  <2>1. UNCHANGED <<out, reported, size>> /\ reported = <<>>
    BY <1>8 DEF OptionMode, OptionQuiet, OptionsEnd, Covered
  <2> QED
    BY <1>2, <1>3, <2>1
<1>9. CASE Open \/ OpenFails \/ Close \/ Return \/ Fstat \/ ReadData \/ ReadEnd \/ ReadAgain \/ UpdateSums
           \/ FinalSums
  <2>1. UNCHANGED <<out, reported, size, quiet>>
    BY <1>9 DEF Open, OpenFails, Close, Return, Exit, Fstat, ReadData, ReadEnd, ReadAgain, UpdateSums, FinalSums
  <2> QED
    BY <1>2, <1>3, <2>1
<1>10. CASE PrintResult
  <2>1. UNCHANGED <<size, quiet, args, i, atOpen>> /\ pc = "print" /\ pc \in Reading
    BY <1>10 DEF PrintResult, Reading
  <2>2. (Printed(ResultLines) /\ Report("line")) \/ (UNCHANGED out /\ Report("lost"))
    BY <1>10 DEF PrintResult, Lost
  <2> QED
    BY <1>5, <1>6, <2>1, <2>2
<1>11. CASE FstatFails \/ ReadFails
  <2>1. UNCHANGED <<size, out, quiet, args, i, atOpen>> /\ pc \in Reading /\ Report("failed")
    BY <1>11 DEF FstatFails, ReadFails, SumsFail, Exit, Reading
  <2> QED
    BY <1>5, <2>1
<1>12. CASE Grow
  <2>1. UNCHANGED <<out, reported, quiet>> /\ size' = [size EXCEPT ![Stream] = size[Stream] + 1]
    BY <1>12 DEF Grow
  <2>2. size \in [Streams -> Nat]
    BY DEF Ranges
  <2> DEFINE g == Stream
  <2>3. \A f \in Streams : size'[f] = IF f = g THEN size[g] + 1 ELSE size[f]
    BY <2>1, <2>2
  <2> HIDE DEF g
  <2>4. \A f \in Streams : size[f] <= size'[f]
    BY <2>2, <2>3
  <2> QED
    BY <1>2, <2>1, <2>4
<1>13. CASE UNCHANGED vars
  <2>1. UNCHANGED <<out, reported, quiet, size>>
    BY <1>13 DEF vars
  <2> QED
    BY <1>2, <1>3, <2>1
<1> QED
  BY <1>7, <1>8, <1>9, <1>10, <1>11, <1>12, <1>13 DEF Next, Step, ReadAnswers

LEMMA NextInv == IndInv /\ [Next]_vars => IndInv'
<1> SUFFICES ASSUME IndInv, [Next]_vars
             PROVE  IndInv'
  OBVIOUS
<1>1. Descriptors' /\ Mode'
  BY NextDescriptors, NextMode DEF IndInv, Inner
<1>2. Ranges' /\ Covered' /\ Finished'
  BY NextCounts
<1>3. Contexts'
  BY NextContexts DEF IndInv, Inner
<1>4. Lines'
  BY <1>2, NextLines DEF IndInv, Inner
<1> QED
  BY <1>1, <1>2, <1>3, <1>4 DEF IndInv, Inner

-----------------------------------------------------------------------------
(* The inductive invariant of the program.                                 *)
THEOREM ProgramInvariance == Spec => []IndInv
BY InitInv, NextInv, PTL DEF Spec

(* Exit status 0 means that no name of the command line was skipped.       *)
THEOREM SuccessMeansAll == Spec => []SuccessCoversAll
<1>1. ASSUME IndInv
      PROVE  SuccessCoversAll
  <2> SUFFICES ASSUME status = "success", opts = <<>>
               PROVE  /\ [k \in 1..Len(reported) |-> reported[k].stream]
                           = IF args = <<>> THEN <<Stdin>> ELSE args
                      /\ args = <<>> => reported[1].result # "failed"
    BY DEF SuccessCoversAll
  <2>1. pc = "exited"
    BY <1>1, UnsetAssumption DEF IndInv, Inner, Finished
  <2>2. CASE args = <<>>
    <3>1. Len(reported) = 1 /\ reported[1].stream = Stdin /\ reported[1].result # "failed"
      BY <1>1, <2>1, <2>2 DEF IndInv, Inner, Finished
    <3>2. [k \in 1..1 |-> reported[k].stream] = <<Stdin>>
      BY <3>1
    <3> QED
      BY <2>2, <3>1, <3>2
  <2>3. CASE args # <<>>
    <3>1. args \in Seq(Files)
      BY <1>1 DEF IndInv, Inner, Ranges
    <3>2. Len(reported) = Len(args) /\ \A k \in 1..Len(reported) : reported[k].stream = args[k]
      BY <1>1, <2>1, <2>3 DEF IndInv, Inner, Finished, Covered
    <3> QED
      BY <2>3, <3>1, <3>2
  <2> QED
    BY <2>2, <2>3
<1> QED
  BY <1>1, ProgramInvariance, PTL

(* A line that is printed has the digests of one whole file and its name,  *)
(* and of a file there is one line at most.                                *)
THEOREM WholeFilesPrinted == Spec => []PrintedDigests
<1>1. IndInv => PrintedDigests
  BY DEF IndInv, Inner, Lines, Right, PrintedDigests
<1> QED
  BY <1>1, ProgramInvariance, PTL

(* Both halves of a bitprint are of the same bytes.                        *)
THEOREM HalvesOfSameBytes == Spec => []HalvesAgree
<1>1. IndInv => HalvesAgree
  BY DEF IndInv, Inner, Lines, HalvesAgree
<1> QED
  BY <1>1, ProgramInvariance, PTL
=============================================================================

----------------------------- MODULE PathsProofs ------------------------------
(***************************************************************************)
(* Proofs about the functions of Paths and the jobs of MCFormats that use  *)
(* them: the lines of tokenline, for files of any length, url_decode and   *)
(* url_split, for URLs of any length, uri_canonize_path and                *)
(* create_pathname, for paths of any length.                               *)
(*                                                                         *)
(* The loops are recursive functions.  What their locals say of the words  *)
(* (Tokens), the characters (UrlProgress) and the digits (PortProgress) so *)
(* far is kept by each turn.                                               *)
(*                                                                         *)
(* The same holds of uri_canonize_path.  What is stored in front of q is,  *)
(* between two turns, the text of the components that have been read so    *)
(* far, `..' resolved (TextUpTo), and of the one that p is in; q never     *)
(* passes p, so that in one memory nothing is overwritten that will be     *)
(* read (Unread).  Both together are the inductive invariant of the turns  *)
(* (Canonized).                                                            *)
(***************************************************************************)
EXTENDS FormatsProofs, SequenceTheorems

-----------------------------------------------------------------------------
(* Lines and their words.                                                  *)

(* A table of the turns of tokenline, and one of the words.                *)
TokensUpTo(g, size, line, l) ==
  g = [k \in 0..l |-> IF k = 0 THEN [buf |-> <<>>, token |-> FALSE, count |-> 0]
                      ELSE TokenTurn(g[k - 1], size, line[k])]

WordsTable(g, line, l) ==
  g = [k \in 0..l |-> IF k = 0 THEN <<>>
                      ELSE IF ~IsSpace(line[k]) THEN Append(g[k - 1], line[k])
                      ELSE IF k > 1 /\ ~IsSpace(line[k - 1]) THEN Append(g[k - 1], NUL)
                      ELSE g[k - 1]]

(* There are such tables for any number of characters.                     *)
LEMMA TokensExist ==
  ASSUME NEW size, NEW line
  PROVE  \A l \in Nat : \E g : TokensUpTo(g, size, line, l)
<1> DEFINE First == [buf |-> <<>>, token |-> FALSE, count |-> 0]
           S == {l \in Nat : \E g : TokensUpTo(g, size, line, l)}
<1> HIDE DEF First
<1>1. 0 \in S
  <2>1. TokensUpTo([k \in 0..0 |-> First], size, line, 0)
    BY DEF TokensUpTo, First
  <2> QED
    BY <2>1
<1>2. ASSUME NEW l \in Nat, l \in S PROVE l + 1 \in S
  <2>1. PICK g : TokensUpTo(g, size, line, l)
    BY <1>2
  <2>2. g = [k \in 0..l |-> IF k = 0 THEN First ELSE TokenTurn(g[k - 1], size, line[k])]
    BY <2>1 DEF TokensUpTo, First
  <2> DEFINE h == [k \in 0..(l + 1) |-> IF k = 0 THEN First ELSE TokenTurn(g[k - 1], size, line[k])]
  <2>3. \A k \in 0..l : h[k] = g[k]
    BY <2>2
  <2>4. h = [k \in 0..(l + 1) |-> IF k = 0 THEN First ELSE TokenTurn(h[k - 1], size, line[k])]
    <3>1. \A k \in 0..(l + 1) : k # 0 => k - 1 \in 0..l
      OBVIOUS
    <3> QED
      BY <2>3, <3>1
  <2> HIDE DEF h
  <2>5. TokensUpTo(h, size, line, l + 1)
    BY <2>4 DEF TokensUpTo, First
  <2> QED
    BY <2>5
<1> HIDE DEF S
<1>3. Nat \subseteq S
  BY <1>1, <1>2, SetInduction
<1> QED
  BY <1>3 DEF S

(* The same for the words.                                                 *)
LEMMA WordsExist ==
  ASSUME NEW line
  PROVE  \A l \in Nat : \E g : WordsTable(g, line, l)
<1> DEFINE W(k, w) == IF ~IsSpace(line[k]) THEN Append(w, line[k])
                      ELSE IF k > 1 /\ ~IsSpace(line[k - 1]) THEN Append(w, NUL)
                      ELSE w
           S == {l \in Nat : \E g : WordsTable(g, line, l)}
<1>0. \A g, l : WordsTable(g, line, l) <=> g = [k \in 0..l |-> IF k = 0 THEN <<>> ELSE W(k, g[k - 1])]
  BY Zenon DEF WordsTable
<1> HIDE DEF W
<1>1. 0 \in S
  <2>1. WordsTable([k \in 0..0 |-> <<>>], line, 0)
    BY DEF WordsTable
  <2> QED
    BY <2>1
<1>2. ASSUME NEW l \in Nat, l \in S PROVE l + 1 \in S
  <2>1. PICK g : WordsTable(g, line, l)
    BY <1>2
  <2>2. g = [k \in 0..l |-> IF k = 0 THEN <<>> ELSE W(k, g[k - 1])]
    BY <1>0, <2>1
  <2> DEFINE h == [k \in 0..(l + 1) |-> IF k = 0 THEN <<>> ELSE W(k, g[k - 1])]
  <2>3. \A k \in 0..l : h[k] = g[k]
    BY <2>2
  <2>4. h = [k \in 0..(l + 1) |-> IF k = 0 THEN <<>> ELSE W(k, h[k - 1])]
    <3>1. \A k \in 0..(l + 1) : k # 0 => k - 1 \in 0..l
      OBVIOUS
    <3> QED
      BY <2>3, <3>1
  <2> HIDE DEF h
  <2>5. WordsTable(h, line, l + 1)
    BY <1>0, <2>4
  <2> QED
    BY <2>5
<1> HIDE DEF S
<1>3. Nat \subseteq S
  BY <1>1, <1>2, SetInduction
<1> QED
  BY <1>3 DEF S

(* So the two recursive functions are what their equations say.            *)
LEMMA TokenTurnsAre ==
  ASSUME NEW size, NEW line, Len(line) \in Nat
  PROVE  /\ TokenTurns(size, line)[0] = [buf |-> <<>>, token |-> FALSE, count |-> 0]
         /\ \A k \in 1..Len(line) :
              TokenTurns(size, line)[k] = TokenTurn(TokenTurns(size, line)[k - 1], size, line[k])
<1> DEFINE t == TokenTurns(size, line)
<1>1. \E g : TokensUpTo(g, size, line, Len(line))
  BY TokensExist
<1>2. TokensUpTo(t, size, line, Len(line))
  BY <1>1 DEF TokensUpTo, TokenTurns
<1> HIDE DEF t
<1>3. 0 \in 0..Len(line) /\ \A k \in 1..Len(line) : k \in 0..Len(line) /\ k # 0
  OBVIOUS
<1>4. /\ t[0] = [buf |-> <<>>, token |-> FALSE, count |-> 0]
      /\ \A k \in 1..Len(line) : t[k] = TokenTurn(t[k - 1], size, line[k])
  BY <1>2, <1>3 DEF TokensUpTo
<1> QED
  BY <1>4 DEF t

(* The same for the words.                                                 *)
LEMMA WordsUpToAre ==
  ASSUME NEW line, Len(line) \in Nat
  PROVE  /\ WordsUpTo(line)[0] = <<>>
         /\ \A k \in 1..Len(line) :
              WordsUpTo(line)[k] =
                IF ~IsSpace(line[k]) THEN Append(WordsUpTo(line)[k - 1], line[k])
                ELSE IF k > 1 /\ ~IsSpace(line[k - 1]) THEN Append(WordsUpTo(line)[k - 1], NUL)
                ELSE WordsUpTo(line)[k - 1]
<1> DEFINE t == WordsUpTo(line)
<1>1. \E g : WordsTable(g, line, Len(line))
  BY WordsExist
<1>2. WordsTable(t, line, Len(line))
  BY <1>1 DEF WordsTable, WordsUpTo
<1> HIDE DEF t
<1>3. 0 \in 0..Len(line) /\ \A k \in 1..Len(line) : k \in 0..Len(line) /\ k # 0
  OBVIOUS
<1>4. /\ t[0] = <<>>
      /\ \A k \in 1..Len(line) :
           t[k] = IF ~IsSpace(line[k]) THEN Append(t[k - 1], line[k])
                  ELSE IF k > 1 /\ ~IsSpace(line[k - 1]) THEN Append(t[k - 1], NUL)
                  ELSE t[k - 1]
  BY <1>2, <1>3 DEF WordsTable
<1> QED
  BY <1>4 DEF t

(* Does a buffer end inside of a word?                                     *)
InWord(buf) == Len(buf) > 0 /\ buf[Len(buf)] # NUL

(* The locals of tokenline as a record.                                    *)
TokenLocals(buf, token, count) == [buf |-> buf, token |-> token, count |-> count]

(* As much of the words as there is room for.                              *)
KeptOf(size, w) == SubSeq(w, 1, Min({size, Len(w)}))

(* What the locals say of the words w of the first k characters.           *)
TokensAre(st, size, line, k, w, token, count) ==
  /\ token \in BOOLEAN
  /\ st = TokenLocals(KeptOf(size, w), token, count)
  /\ token <=> InWord(KeptOf(size, w))
  /\ Len(w) < size => (token <=> k > 0 /\ ~IsSpace(line[k]))
  /\ count = Cardinality(Begun(KeptOf(size, w)))

Tokens(st, size, line, k, w) == \E token, count : TokensAre(st, size, line, k, w, token, count)

(* A word begins at an element that is no NUL and behind none, or a NUL.   *)
LEMMA AppendBegun ==
  ASSUME NEW C, NEW buf \in Seq(C), NEW c
  PROVE  /\ IsFiniteSet(Begun(buf)) /\ Cardinality(Begun(buf)) \in Nat
         /\ (c = NUL \/ InWord(buf)) => Begun(Append(buf, c)) = Begun(buf)
         /\ ~(c = NUL \/ InWord(buf)) => Cardinality(Begun(Append(buf, c))) = Cardinality(Begun(buf)) + 1
<1>1. PICK n \in Nat : n = Len(buf) /\ DOMAIN buf = 1..n
  OBVIOUS
<1>2. IsFiniteSet(Begun(buf)) /\ Cardinality(Begun(buf)) \in Nat
  <2>1. IsFiniteSet(1..n)
    BY FS_Interval
  <2>2. Begun(buf) \subseteq 1..n
    BY <1>1 DEF Begun
  <2> QED
    BY <2>1, <2>2, FS_Subset, FS_CardinalityType
<1>3. PICK more : more = Append(buf, c)
  OBVIOUS
<1>4. DOMAIN more = 1..(n + 1) /\ more[n + 1] = c /\ \A k \in 1..n : more[k] = buf[k]
  BY <1>1, <1>3
<1>5. Begun(more) = Begun(buf) \cup (IF c # NUL /\ (n = 0 \/ buf[n] = NUL) THEN {n + 1} ELSE {})
  <2>1. ASSUME NEW k \in 1..n PROVE k \in Begun(more) <=> k \in Begun(buf)
    <3>1. k # 1 => k - 1 \in 1..n
      OBVIOUS
    <3> QED
      BY <1>1, <1>4, <3>1 DEF Begun
  <2>2. n + 1 \in Begun(more) <=> c # NUL /\ (n = 0 \/ buf[n] = NUL)
    <3>1. n # 0 => (n + 1) - 1 \in 1..n /\ (n + 1) - 1 = n
      OBVIOUS
    <3> QED
      BY <1>4, <3>1 DEF Begun
  <2>3. Begun(more) \subseteq 1..(n + 1) /\ Begun(buf) \subseteq 1..n
    BY <1>1, <1>4 DEF Begun
  <2>4. \A k : k \in 1..(n + 1) <=> k \in 1..n \/ k = n + 1
    OBVIOUS
  <2> QED
    BY <2>1, <2>2, <2>3, <2>4
<1>6. InWord(buf) <=> ~(n = 0 \/ buf[n] = NUL)
  BY <1>1 DEF InWord
<1>7. ASSUME c = NUL \/ InWord(buf) PROVE Begun(more) = Begun(buf)
  BY <1>5, <1>6, <1>7
<1>8. ASSUME ~(c = NUL \/ InWord(buf)) PROVE Cardinality(Begun(more)) = Cardinality(Begun(buf)) + 1
  <2>1. Begun(more) = Begun(buf) \cup {n + 1}
    BY <1>5, <1>6, <1>8
  <2>2. n + 1 \notin Begun(buf)
    BY <1>1 DEF Begun
  <2> QED
    BY <1>2, <2>1, <2>2, FS_AddElement
<1> QED
  BY <1>2, <1>3, <1>7, <1>8

(* Words that fit are kept as a whole; of others, what fits.               *)
LEMMA KeptWhole ==
  ASSUME NEW C, NEW w \in Seq(C), NEW size \in Nat
  PROVE  /\ Len(w) <= size => KeptOf(size, w) = w
         /\ Len(w) >= size => KeptOf(size, w) = SubSeq(w, 1, size) /\ Len(KeptOf(size, w)) = size
<1>1. PICK n \in Nat : n = Len(w)
  OBVIOUS
<1>2. PICK m : m = Min({size, Len(w)})
  OBVIOUS
<1>3. m = IF size <= n THEN size ELSE n
  BY <1>1, <1>2, MinOfTwo
<1>4. KeptOf(size, w) = SubSeq(w, 1, m)
  BY <1>2 DEF KeptOf
<1>5. SubSeq(w, 1, n) = w
  BY <1>1
<1>6. n >= size => Len(SubSeq(w, 1, size)) = size
  BY <1>1
<1>7. n <= size => m = n
  BY <1>3
<1>8. n >= size => m = size
  BY <1>3
<1> QED
  BY <1>1, <1>4, <1>5, <1>6, <1>7, <1>8

(* What is appended then changes nothing.                                  *)
LEMMA KeptStays ==
  ASSUME NEW C, NEW w \in Seq(C), NEW size \in Nat, Len(w) >= size, NEW c \in C
  PROVE  KeptOf(size, Append(w, c)) = KeptOf(size, w)
<1>0. Append(w, c) \in Seq(C)
  OBVIOUS
<1>1. PICK more \in Seq(C) : more = Append(w, c)
  BY <1>0
<1>2. Len(more) = Len(w) + 1 /\ Len(w) \in Nat
  BY <1>1
<1>3. Len(more) >= size
  BY <1>2
<1>4. KeptOf(size, more) = SubSeq(more, 1, size) /\ KeptOf(size, w) = SubSeq(w, 1, size)
  BY <1>3, KeptWhole
<1>5. SubSeq(w, 1, size) = [i \in 1..size |-> w[i]]
  OBVIOUS
<1>6. SubSeq(more, 1, size) = [i \in 1..size |-> more[i]]
  BY <1>2, <1>3
<1>7. \A i \in 1..size : more[i] = w[i]
  BY <1>1
<1> QED
  BY <1>1, <1>4, <1>5, <1>6, <1>7

(* The words of the first k characters, from those before.                 *)
NextWords(line, k, w) ==
  IF ~IsSpace(line[k]) THEN Append(w, line[k])
  ELSE IF k > 1 /\ ~IsSpace(line[k - 1]) THEN Append(w, NUL)
  ELSE w

(* A turn keeps that.                                                      *)
LEMMA TurnTokens ==
  ASSUME NEW C, NUL \notin C, NEW line \in Seq(C), NEW size \in Nat, NEW k \in 1..Len(line),
         NEW w \in Seq(C \cup {NUL}), NEW st, Tokens(st, size, line, k - 1, w)
  PROVE  Tokens(TokenTurn(st, size, line[k]), size, line, k, NextWords(line, k, w))
<1>0. PICK token, count : TokensAre(st, size, line, k - 1, w, token, count)
  BY DEF Tokens
<1>1. /\ token \in BOOLEAN
      /\ st = TokenLocals(KeptOf(size, w), token, count)
      /\ token <=> InWord(KeptOf(size, w))
      /\ Len(w) < size => (token <=> k - 1 > 0 /\ ~IsSpace(line[k - 1]))
      /\ count = Cardinality(Begun(KeptOf(size, w)))
  BY <1>0 DEF TokensAre
<1>2. PICK c \in C : c = line[k]
  OBVIOUS
<1>3. PICK more : more = NextWords(line, k, w)
  OBVIOUS
<1>4. st.buf = KeptOf(size, w) /\ st.token = token /\ st.count = count
  BY <1>1 DEF TokenLocals
<1>5. CASE Len(w) >= size
  <2>1. Len(st.buf) = size
    BY <1>4, <1>5, KeptWhole
  <2>2. TokenTurn(st, size, c) = st
    BY <2>1 DEF TokenTurn
  <2>3. more = w \/ \E d \in C \cup {NUL} : more = Append(w, d)
    BY <1>3 DEF NextWords
  <2>4. KeptOf(size, more) = KeptOf(size, w) /\ ~(Len(more) < size)
    <3>1. CASE more = w
      BY <1>5, <3>1
    <3>2. ASSUME NEW d \in C \cup {NUL}, more = Append(w, d) PROVE KeptOf(size, more) = KeptOf(size, w) /\ ~(Len(more) < size)
      BY <1>5, <3>2, KeptStays
    <3> QED
      BY <2>3, <3>1, <3>2
  <2> QED
    <3>1. TokensAre(st, size, line, k, more, token, count)
      BY <1>1, <2>4 DEF TokensAre
    <3> QED
      BY <1>2, <1>3, <2>2, <3>1 DEF Tokens
<1>6. CASE Len(w) < size
  <2>1. KeptOf(size, w) = w /\ ~(Len(w) >= size)
    BY <1>6, KeptWhole
  <2>2. TokenTurn(st, size, c) = TokenChar(st, c)
    BY <1>4, <2>1 DEF TokenTurn
  <2>3. more \in Seq(C \cup {NUL}) /\ Len(more) <= size
    BY <1>3, <1>6 DEF NextWords
  <2>4. KeptOf(size, more) = more
    BY <2>3, KeptWhole
  <2>5. token <=> k > 1 /\ ~IsSpace(line[k - 1])
    BY <1>1, <1>6
  <2>6. CASE ~IsSpace(c)
    <3>1. more = Append(w, c)
      BY <1>2, <1>3, <2>6 DEF NextWords
    <3>2. c # NUL
      OBVIOUS
    <3>3. TokenChar(st, c) = TokenLocals(more, TRUE, IF token THEN count ELSE count + 1)
      BY <1>4, <2>1, <2>6, <3>1 DEF TokenChar, TokenLocals
    <3>4. InWord(more)
      BY <3>1, <3>2 DEF InWord
    <3>5. (IF token THEN count ELSE count + 1) = Cardinality(Begun(more))
      BY <1>1, <2>1, <3>1, <3>2, AppendBegun
    <3>6. k > 0 /\ ~IsSpace(line[k])
      BY <1>2, <2>6
    <3>7. TokensAre(TokenChar(st, c), size, line, k, more, TRUE, IF token THEN count ELSE count + 1)
      BY <2>4, <3>3, <3>4, <3>5, <3>6 DEF TokensAre
    <3> QED
      BY <1>2, <1>3, <2>2, <3>7 DEF Tokens
  <2>7. CASE IsSpace(c) /\ token
    <3>1. more = Append(w, NUL)
      BY <1>2, <1>3, <2>5, <2>7 DEF NextWords
    <3>2. TokenChar(st, c) = TokenLocals(more, FALSE, count)
      BY <1>1, <1>4, <2>1, <2>7, <3>1 DEF TokenChar, TokenLocals
    <3>3. ~InWord(more)
      BY <3>1 DEF InWord
    <3>4. count = Cardinality(Begun(more))
      BY <1>1, <2>1, <3>1, AppendBegun
    <3>5. ~(k > 0 /\ ~IsSpace(line[k]))
      BY <1>2, <2>7
    <3>6. TokensAre(TokenChar(st, c), size, line, k, more, FALSE, count)
      BY <2>4, <3>2, <3>3, <3>4, <3>5 DEF TokensAre
    <3> QED
      BY <1>2, <1>3, <2>2, <3>6 DEF Tokens
  <2>8. CASE IsSpace(c) /\ ~token
    <3>1. more = w
      BY <1>2, <1>3, <2>5, <2>8 DEF NextWords
    <3>2. TokenChar(st, c) = st
      BY <1>4, <2>8 DEF TokenChar
    <3>3. ~(k > 0 /\ ~IsSpace(line[k]))
      BY <1>2, <2>8
    <3>4. TokensAre(st, size, line, k, more, FALSE, count)
      BY <1>1, <2>8, <3>1, <3>3 DEF TokensAre
    <3> QED
      BY <1>2, <1>3, <2>2, <3>2, <3>4 DEF Tokens
  <2> QED
    BY <2>6, <2>7, <2>8
<1> QED
  BY <1>5, <1>6

(* So it holds of any number of characters.                                *)
LEMMA TokensOfLine ==
  ASSUME NEW C, NUL \notin C, NEW line \in Seq(C), NEW size \in Nat
  PROVE  \A k \in Nat : k <= Len(line) =>
           /\ WordsUpTo(line)[k] \in Seq(C \cup {NUL})
           /\ Tokens(TokenTurns(size, line)[k], size, line, k, WordsUpTo(line)[k])
<1> DEFINE t == TokenTurns(size, line)
           w == WordsUpTo(line)
           S == {k \in Nat : k <= Len(line) =>
                   w[k] \in Seq(C \cup {NUL}) /\ Tokens(t[k], size, line, k, w[k])}
<1>1. Len(line) \in Nat
  OBVIOUS
<1>2. /\ t[0] = [buf |-> <<>>, token |-> FALSE, count |-> 0]
      /\ \A k \in 1..Len(line) : t[k] = TokenTurn(t[k - 1], size, line[k])
  BY <1>1, TokenTurnsAre
<1>3. w[0] = <<>> /\ \A k \in 1..Len(line) : w[k] = NextWords(line, k, w[k - 1])
  BY <1>1, WordsUpToAre DEF NextWords
<1> HIDE DEF t, w
<1>4. 0 \in S
  <2>0. <<>> \in Seq(C \cup {NUL}) /\ Len(<<>>) = 0
    OBVIOUS
  <2>1. PICK e \in Seq(C \cup {NUL}) : e = <<>> /\ Len(e) = 0
    BY <2>0
  <2>2. KeptOf(size, e) = e
    <3>1. Len(e) <= size
      BY <2>1
    <3> QED
      BY <3>1, KeptWhole
  <2>3. Begun(e) = {}
    BY <2>1 DEF Begun
  <2>4. Cardinality(Begun(e)) = 0
    BY <2>3, FS_EmptySet
  <2>5. ~InWord(e)
    BY <2>1 DEF InWord
  <2>6. t[0] = TokenLocals(e, FALSE, 0)
    BY <1>2, <2>1 DEF TokenLocals
  <2>7. Tokens(t[0], size, line, 0, e)
    <3>1. 0 = Cardinality(Begun(KeptOf(size, e))) /\ ~InWord(KeptOf(size, e))
      BY <2>2, <2>4, <2>5
    <3>2. t[0] = TokenLocals(KeptOf(size, e), FALSE, 0)
      BY <2>2, <2>6
    <3>3. ~(0 > 0 /\ ~IsSpace(line[0])) /\ FALSE \in BOOLEAN
      OBVIOUS
    <3>4. TokensAre(t[0], size, line, 0, e, FALSE, 0)
      BY <3>1, <3>2, <3>3 DEF TokensAre
    <3> QED
      BY <3>4 DEF Tokens
  <2> QED
    BY <1>3, <2>1, <2>7
<1>5. ASSUME NEW n \in Nat, n \in S PROVE n + 1 \in S
  <2> SUFFICES ASSUME n + 1 <= Len(line)
               PROVE  w[n + 1] \in Seq(C \cup {NUL}) /\ Tokens(t[n + 1], size, line, n + 1, w[n + 1])
    BY DEF S
  <2>1. w[n] \in Seq(C \cup {NUL}) /\ Tokens(t[n], size, line, n, w[n])
    BY <1>1, <1>5
  <2>2. PICK k \in 1..Len(line) : k = n + 1 /\ k - 1 = n
    BY <1>1
  <2>3. Tokens(TokenTurn(t[n], size, line[k]), size, line, k, NextWords(line, k, w[n]))
    BY <2>1, <2>2, TurnTokens
  <2>4. NextWords(line, k, w[n]) \in Seq(C \cup {NUL})
    BY <2>1, <2>2 DEF NextWords
  <2>5. t[k] = TokenTurn(t[n], size, line[k]) /\ w[k] = NextWords(line, k, w[n])
    BY <1>2, <1>3, <2>2
  <2> QED
    BY <2>2, <2>3, <2>4, <2>5
<1> HIDE DEF S
<1>6. Nat \subseteq S
  BY <1>4, <1>5, SetInduction
<1>7. \A k \in Nat : k <= Len(line) => w[k] \in Seq(C \cup {NUL}) /\ Tokens(t[k], size, line, k, w[k])
  BY <1>6 DEF S
<1> QED
  BY <1>7 DEF t, w

(* The line at the beginning of a file.                                    *)
LEMMA LineOf ==
  ASSUME NEW C, NEW file \in Seq(C)
  PROVE  /\ LineLength(file) \in 0..Len(file)
         /\ FirstLine(file) \in Seq(C) /\ Len(FirstLine(file)) = LineLength(file)
         /\ FirstLine(file) = SubSeq(file, 1, LineLength(file))
<1> DEFINE L == {k \in DOMAIN file : \A i \in 1..k : file[i] # Newline}
<1>1. PICK n \in Nat : n = Len(file) /\ DOMAIN file = 1..n
  OBVIOUS
<1>2. IsFiniteSet(1..n) /\ Cardinality(1..n) = n
  BY FS_Interval
<1>3. L \subseteq 1..n
  BY <1>1
<1> HIDE DEF L
<1>4. Cardinality(L) \in Nat /\ Cardinality(L) <= n
  BY <1>2, <1>3, FS_Subset, FS_CardinalityType
<1>5. PICK l \in 0..Len(file) : l = Cardinality(L)
  BY <1>1, <1>4
<1>6. LineLength(file) = l
  BY <1>5 DEF LineLength, L
<1>7. FirstLine(file) = SubSeq(file, 1, l)
  BY <1>5 DEF FirstLine, L
<1>8. SubSeq(file, 1, l) \in Seq(C) /\ Len(SubSeq(file, 1, l)) = l
  BY <1>1
<1> QED
  BY <1>5, <1>6, <1>7, <1>8

(* One call: the end of the file is reported, and only that; otherwise the *)
(* words of the line are returned, and what is left of the file is what is *)
(* behind the line.                                                        *)
LEMMA OneCall ==
  ASSUME NEW C, NUL \notin C, NEW file \in Seq(C), NEW size \in Nat
  PROVE  /\ TokenLine(size, file).count = -1 <=> file = <<>>
         /\ file # <<>> => Tokenized(size, FirstLine(file), TokenLine(size, file))
         /\ TokenLine(size, file).rest = SubSeq(file, Len(FirstLine(file)) + 2, Len(file))
         /\ TokenLine(size, file).rest \in Seq(C)
<1>1. PICK line \in Seq(C) : line = FirstLine(file)
  BY LineOf
<1>2. PICK rest \in Seq(C) : rest = SubSeq(file, Len(line) + 2, Len(file))
  <2>1. Len(line) \in Nat
    OBVIOUS
  <2>2. SubSeq(file, Len(line) + 2, Len(file)) \in Seq(C)
    BY <2>1
  <2> QED
    BY <2>2
<1>3. PICK r : r = TokenLine(size, file)
  OBVIOUS
<1>4. CASE file = <<>>
  <2>1. r.count = -1 /\ r.rest = <<>>
    BY <1>3, <1>4 DEF TokenLine
  <2>2. rest = <<>>
    <3>1. Len(file) = 0 /\ Len(line) \in Nat
      BY <1>4
    <3>2. Len(rest) = 0
      BY <1>2, <3>1
    <3> QED
      BY <3>2
  <2> QED
    BY <1>1, <1>2, <1>3, <1>4, <2>1, <2>2
<1>5. CASE file # <<>>
  <2>1. r = TokenizedLine(size, line, rest)
    BY <1>1, <1>2, <1>3, <1>5, LineOf DEF TokenLine
  <2>2. PICK n \in Nat : n = Len(line)
    OBVIOUS
  <2>3. PICK w \in Seq(C \cup {NUL}) : w = Words(line)
    BY <2>2, TokensOfLine DEF Words
  <2>4. PICK end : end = TokenTurns(size, line)[n]
    OBVIOUS
  <2>5. Tokens(end, size, line, n, w)
    <3>1. n <= Len(line) /\ w = WordsUpTo(line)[n]
      BY <2>2, <2>3 DEF Words
    <3> QED
      BY <2>4, <3>1, TokensOfLine
  <2>6. end.buf = KeptOf(size, w) /\ end.count = Cardinality(Begun(KeptOf(size, w)))
    BY <2>5 DEF Tokens, TokensAre, TokenLocals
  <2>7. r.buf = Append(end.buf, NUL) /\ r.count = end.count /\ r.rest = rest
    BY <2>1, <2>2, <2>4 DEF TokenizedLine
  <2>8. Tokenized(size, line, r)
    BY <2>3, <2>6, <2>7 DEF Tokenized, KeptOf
  <2>9. r.count # -1
    <3>1. KeptOf(size, w) \in Seq(C \cup {NUL})
      <4>1. KeptOf(size, w) = w \/ (Len(w) >= size /\ KeptOf(size, w) = SubSeq(w, 1, size))
        BY KeptWhole
      <4> QED
        BY <4>1
    <3>2. Cardinality(Begun(KeptOf(size, w))) \in Nat
      BY <3>1, AppendBegun
    <3> QED
      BY <2>6, <2>7, <3>2
  <2> QED
    BY <1>1, <1>2, <1>3, <1>5, <2>7, <2>8, <2>9
<1> QED
  BY <1>1, <1>2, <1>3, <1>4, <1>5

(* Each call of tokenline takes one line of the file and leaves its words, *)
(* as far as they fit, and their count (LinesTokenized).                   *)
THEOREM WordsOfLines == Spec => []LinesTokenized
<1>1. FormatsInv => LinesTokenized
  <2> SUFFICES ASSUME FormatsInv, job.kind = "line", pc = "done"
               PROVE  LinesTokenized
    BY DEF LinesTokenized
  <2> DEFINE C == {Letter, Space, Newline}
  <2>1. text \in Seq(C) /\ job.size \in Nat
    <3>1. job \in LineJobs
      BY JobsKnown DEF FormatsInv
    <3>2. job.chars \in BoundedSeq(C, MaxLine) /\ job.size \in 1..4
      BY <3>1 DEF LineJobs
    <3>3. PICK n \in 0..MaxLine : job.chars \in [1..n -> C]
      BY <3>2 DEF BoundedSeq, SeqOf
    <3>4. n \in Nat
      BY <3>3
    <3>5. text = job.chars
      BY DEF FormatsInv, TextOf
    <3> HIDE DEF C
    <3> QED
      BY <3>2, <3>3, <3>4, <3>5
  <2>2. NUL \notin C
    BY DEF NUL, Letter, Space, Newline
  <2> HIDE DEF C
  <2>3. PICK one : one = TokenLine(job.size, text)
    OBVIOUS
  <2>4. PICK two : two = TokenLine(job.size, one.rest)
    OBVIOUS
  <2>5. back = <<one, two>>
    BY <2>3, <2>4 DEF FormatsInv, Parsed, SecondLine
  <2>6. one.rest \in Seq(C)
    BY <2>1, <2>2, <2>3, OneCall
  <2>7. /\ one.count = -1 <=> text = <<>>
        /\ text # <<>> => Tokenized(job.size, FirstLine(text), one)
        /\ one.rest = SubSeq(text, Len(FirstLine(text)) + 2, Len(text))
    BY <2>1, <2>2, <2>3, OneCall
  <2>8. /\ two.count = -1 <=> one.rest = <<>>
        /\ one.rest # <<>> => Tokenized(job.size, FirstLine(one.rest), two)
    BY <2>1, <2>2, <2>4, <2>6, OneCall
  <2> QED
    BY <2>5, <2>7, <2>8 DEF LinesTokenized
<1> QED
  BY <1>1, FormatsKnown, PTL

-----------------------------------------------------------------------------
(* URLs and their parts.                                                   *)

(* A table of the turns of url_decode.                                     *)
UrlTable(g, size, src, l) ==
  g = [k \in 0..l |-> IF k = 0 THEN [ok |-> size >= 1, p |-> 1, dst |-> <<>>] ELSE UrlTurn(size, src, g[k - 1])]

(* There is one for any number of turns.                                   *)
LEMMA UrlTableExists ==
  ASSUME NEW size, NEW src
  PROVE  \A l \in Nat : \E g : UrlTable(g, size, src, l)
<1> DEFINE First == [ok |-> size >= 1, p |-> 1, dst |-> <<>>]
           Step(k, st) == UrlTurn(size, src, st)
           S == {l \in Nat : \E g : UrlTable(g, size, src, l)}
<1>0. \A g, l : UrlTable(g, size, src, l) <=> g = [k \in 0..l |-> IF k = 0 THEN First ELSE Step(k, g[k - 1])]
  BY Zenon DEF UrlTable
<1> HIDE DEF First, Step
<1>1. 0 \in S
  <2>1. [k \in 0..0 |-> First] = [k \in 0..0 |-> IF k = 0 THEN First ELSE Step(k, [i \in 0..0 |-> First][k - 1])]
    OBVIOUS
  <2> QED
    BY <1>0, <2>1
<1>2. ASSUME NEW l \in Nat, l \in S PROVE l + 1 \in S
  <2>1. PICK g : UrlTable(g, size, src, l)
    BY <1>2
  <2>2. g = [k \in 0..l |-> IF k = 0 THEN First ELSE Step(k, g[k - 1])]
    BY <1>0, <2>1
  <2> DEFINE h == [k \in 0..(l + 1) |-> IF k = 0 THEN First ELSE Step(k, g[k - 1])]
  <2>3. \A k \in 0..l : h[k] = g[k]
    BY <2>2
  <2>4. h = [k \in 0..(l + 1) |-> IF k = 0 THEN First ELSE Step(k, h[k - 1])]
    <3>1. \A k \in 0..(l + 1) : k # 0 => k - 1 \in 0..l
      OBVIOUS
    <3> QED
      BY <2>3, <3>1
  <2> HIDE DEF h
  <2>5. UrlTable(h, size, src, l + 1)
    BY <1>0, <2>4
  <2> QED
    BY <2>5
<1> HIDE DEF S
<1>3. Nat \subseteq S
  BY <1>1, <1>2, SetInduction
<1> QED
  BY <1>3 DEF S

(* So the recursive function is what its equation says.                    *)
LEMMA UrlTurnsAre ==
  ASSUME NEW size, NEW src, Len(src) \in Nat
  PROVE  /\ UrlTurns(size, src)[0] = [ok |-> size >= 1, p |-> 1, dst |-> <<>>]
         /\ \A k \in 1..Len(src) : UrlTurns(size, src)[k] = UrlTurn(size, src, UrlTurns(size, src)[k - 1])
<1> DEFINE t == UrlTurns(size, src)
<1>0. Len(src) \in Nat
  OBVIOUS
<1>1. \E g : UrlTable(g, size, src, Len(src))
  BY <1>0, UrlTableExists
<1>2. UrlTable(t, size, src, Len(src))
  BY <1>1, Zenon DEF UrlTable, UrlTurns
<1> HIDE DEF t
<1>3. 0 \in 0..Len(src) /\ \A k \in 1..Len(src) : k \in 0..Len(src) /\ k # 0
  BY <1>0
<1>4. /\ t[0] = [ok |-> size >= 1, p |-> 1, dst |-> <<>>]
      /\ \A k \in 1..Len(src) : t[k] = UrlTurn(size, src, t[k - 1])
  BY <1>2, <1>3 DEF UrlTable
<1> QED
  BY <1>4 DEF t

(* The same for the text of the units.                                     *)
UnitsTable(g, units, l) ==
  g = [k \in 0..l |-> IF k = 0 THEN <<>> ELSE g[k - 1] \o units[k]]

(* There is such a table, too.                                             *)
LEMMA UnitsTableExists ==
  ASSUME NEW units
  PROVE  \A l \in Nat : \E g : UnitsTable(g, units, l)
<1> DEFINE First == <<>>
           Step(k, st) == st \o units[k]
           S == {l \in Nat : \E g : UnitsTable(g, units, l)}
<1>0. \A g, l : UnitsTable(g, units, l) <=> g = [k \in 0..l |-> IF k = 0 THEN First ELSE Step(k, g[k - 1])]
  BY Zenon DEF UnitsTable
<1> HIDE DEF First, Step
<1>1. 0 \in S
  <2>1. [k \in 0..0 |-> First] = [k \in 0..0 |-> IF k = 0 THEN First ELSE Step(k, [i \in 0..0 |-> First][k - 1])]
    OBVIOUS
  <2> QED
    BY <1>0, <2>1
<1>2. ASSUME NEW l \in Nat, l \in S PROVE l + 1 \in S
  <2>1. PICK g : UnitsTable(g, units, l)
    BY <1>2
  <2>2. g = [k \in 0..l |-> IF k = 0 THEN First ELSE Step(k, g[k - 1])]
    BY <1>0, <2>1
  <2> DEFINE h == [k \in 0..(l + 1) |-> IF k = 0 THEN First ELSE Step(k, g[k - 1])]
  <2>3. \A k \in 0..l : h[k] = g[k]
    BY <2>2
  <2>4. h = [k \in 0..(l + 1) |-> IF k = 0 THEN First ELSE Step(k, h[k - 1])]
    <3>1. \A k \in 0..(l + 1) : k # 0 => k - 1 \in 0..l
      OBVIOUS
    <3> QED
      BY <2>3, <3>1
  <2> HIDE DEF h
  <2>5. UnitsTable(h, units, l + 1)
    BY <1>0, <2>4
  <2> QED
    BY <2>5
<1> HIDE DEF S
<1>3. Nat \subseteq S
  BY <1>1, <1>2, SetInduction
<1> QED
  BY <1>3 DEF S

(* So this function is what its equation says.                             *)
LEMMA UnitsUpToAre ==
  ASSUME NEW units, Len(units) \in Nat
  PROVE  /\ UnitsUpTo(units)[0] = <<>>
         /\ \A k \in 1..Len(units) : UnitsUpTo(units)[k] = UnitsUpTo(units)[k - 1] \o units[k]
<1> DEFINE t == UnitsUpTo(units)
<1>0. Len(units) \in Nat
  OBVIOUS
<1>1. \E g : UnitsTable(g, units, Len(units))
  BY <1>0, UnitsTableExists
<1>2. UnitsTable(t, units, Len(units))
  BY <1>1, Zenon DEF UnitsTable, UnitsUpTo
<1> HIDE DEF t
<1>3. 0 \in 0..Len(units) /\ \A k \in 1..Len(units) : k \in 0..Len(units) /\ k # 0
  BY <1>0
<1>4. /\ t[0] = <<>>
      /\ \A k \in 1..Len(units) : t[k] = t[k - 1] \o units[k]
  BY <1>2, <1>3 DEF UnitsTable
<1> QED
  BY <1>4 DEF t

(* The same for the turns of parse_port_number.                            *)
PortTable(g, memory, start, l) ==
  g = [k \in 0..l |-> IF k = 0 THEN [port |-> 0, end |-> start, ok |-> FALSE, stop |-> At(memory, start) = 0] ELSE PortTurn(start, At(memory, g[k - 1].end), g[k - 1])]

(* There is such a table, too.                                             *)
LEMMA PortTableExists ==
  ASSUME NEW memory, NEW start
  PROVE  \A l \in Nat : \E g : PortTable(g, memory, start, l)
<1> DEFINE First == [port |-> 0, end |-> start, ok |-> FALSE, stop |-> At(memory, start) = 0]
           Step(k, st) == PortTurn(start, At(memory, st.end), st)
           S == {l \in Nat : \E g : PortTable(g, memory, start, l)}
<1>0. \A g, l : PortTable(g, memory, start, l) <=> g = [k \in 0..l |-> IF k = 0 THEN First ELSE Step(k, g[k - 1])]
  BY Zenon DEF PortTable
<1> HIDE DEF First, Step
<1>1. 0 \in S
  <2>1. [k \in 0..0 |-> First] = [k \in 0..0 |-> IF k = 0 THEN First ELSE Step(k, [i \in 0..0 |-> First][k - 1])]
    OBVIOUS
  <2> QED
    BY <1>0, <2>1
<1>2. ASSUME NEW l \in Nat, l \in S PROVE l + 1 \in S
  <2>1. PICK g : PortTable(g, memory, start, l)
    BY <1>2
  <2>2. g = [k \in 0..l |-> IF k = 0 THEN First ELSE Step(k, g[k - 1])]
    BY <1>0, <2>1
  <2> DEFINE h == [k \in 0..(l + 1) |-> IF k = 0 THEN First ELSE Step(k, g[k - 1])]
  <2>3. \A k \in 0..l : h[k] = g[k]
    BY <2>2
  <2>4. h = [k \in 0..(l + 1) |-> IF k = 0 THEN First ELSE Step(k, h[k - 1])]
    <3>1. \A k \in 0..(l + 1) : k # 0 => k - 1 \in 0..l
      OBVIOUS
    <3> QED
      BY <2>3, <3>1
  <2> HIDE DEF h
  <2>5. PortTable(h, memory, start, l + 1)
    BY <1>0, <2>4
  <2> QED
    BY <2>5
<1> HIDE DEF S
<1>3. Nat \subseteq S
  BY <1>1, <1>2, SetInduction
<1> QED
  BY <1>3 DEF S

(* So this function is what its equation says.                             *)
LEMMA PortTurnsAre ==
  ASSUME NEW memory, NEW start
  PROVE  /\ PortTurns(memory, start)[0] = [port |-> 0, end |-> start, ok |-> FALSE, stop |-> At(memory, start) = 0]
         /\ \A k \in 1..6 : PortTurns(memory, start)[k] = PortTurn(start, At(memory, PortTurns(memory, start)[k - 1].end), PortTurns(memory, start)[k - 1])
<1> DEFINE t == PortTurns(memory, start)
<1>0. 6 \in Nat
  OBVIOUS
<1>1. \E g : PortTable(g, memory, start, 6)
  BY <1>0, PortTableExists
<1>2. PortTable(t, memory, start, 6)
  BY <1>1, Zenon DEF PortTable, PortTurns
<1> HIDE DEF t
<1>3. 0 \in 0..6 /\ \A k \in 1..6 : k \in 0..6 /\ k # 0
  BY <1>0
<1>4. /\ t[0] = [port |-> 0, end |-> start, ok |-> FALSE, stop |-> At(memory, start) = 0]
      /\ \A k \in 1..6 : t[k] = PortTurn(start, At(memory, t[k - 1].end), t[k - 1])
  BY <1>2, <1>3 DEF PortTable
<1> QED
  BY <1>4 DEF t

(* The same for the number that the digits of a port are.                  *)
ValuesTable(g, port, l) ==
  g = [k \in 0..l |-> IF k = 0 THEN 0 ELSE g[k - 1] * 10 + port[k]]

(* There is such a table, too.                                             *)
LEMMA ValuesTableExists ==
  ASSUME NEW port
  PROVE  \A l \in Nat : \E g : ValuesTable(g, port, l)
<1> DEFINE First == 0
           Step(k, st) == st * 10 + port[k]
           S == {l \in Nat : \E g : ValuesTable(g, port, l)}
<1>0. \A g, l : ValuesTable(g, port, l) <=> g = [k \in 0..l |-> IF k = 0 THEN First ELSE Step(k, g[k - 1])]
  BY Zenon DEF ValuesTable
<1> HIDE DEF First, Step
<1>1. 0 \in S
  <2>1. [k \in 0..0 |-> First] = [k \in 0..0 |-> IF k = 0 THEN First ELSE Step(k, [i \in 0..0 |-> First][k - 1])]
    OBVIOUS
  <2> QED
    BY <1>0, <2>1
<1>2. ASSUME NEW l \in Nat, l \in S PROVE l + 1 \in S
  <2>1. PICK g : ValuesTable(g, port, l)
    BY <1>2
  <2>2. g = [k \in 0..l |-> IF k = 0 THEN First ELSE Step(k, g[k - 1])]
    BY <1>0, <2>1
  <2> DEFINE h == [k \in 0..(l + 1) |-> IF k = 0 THEN First ELSE Step(k, g[k - 1])]
  <2>3. \A k \in 0..l : h[k] = g[k]
    BY <2>2
  <2>4. h = [k \in 0..(l + 1) |-> IF k = 0 THEN First ELSE Step(k, h[k - 1])]
    <3>1. \A k \in 0..(l + 1) : k # 0 => k - 1 \in 0..l
      OBVIOUS
    <3> QED
      BY <2>3, <3>1
  <2> HIDE DEF h
  <2>5. ValuesTable(h, port, l + 1)
    BY <1>0, <2>4
  <2> QED
    BY <2>5
<1> HIDE DEF S
<1>3. Nat \subseteq S
  BY <1>1, <1>2, SetInduction
<1> QED
  BY <1>3 DEF S

(* So this function is what its equation says.                             *)
LEMMA ValuesUpToAre ==
  ASSUME NEW port, Len(port) \in Nat
  PROVE  /\ ValuesUpTo(port)[0] = 0
         /\ \A k \in 1..Len(port) : ValuesUpTo(port)[k] = ValuesUpTo(port)[k - 1] * 10 + port[k]
<1> DEFINE t == ValuesUpTo(port)
<1>0. Len(port) \in Nat
  OBVIOUS
<1>1. \E g : ValuesTable(g, port, Len(port))
  BY <1>0, ValuesTableExists
<1>2. ValuesTable(t, port, Len(port))
  BY <1>1, Zenon DEF ValuesTable, ValuesUpTo
<1> HIDE DEF t
<1>3. 0 \in 0..Len(port) /\ \A k \in 1..Len(port) : k \in 0..Len(port) /\ k # 0
  BY <1>0
<1>4. /\ t[0] = 0
      /\ \A k \in 1..Len(port) : t[k] = t[k - 1] * 10 + port[k]
  BY <1>2, <1>3 DEF ValuesTable
<1> QED
  BY <1>4 DEF t

(* The characters of the units.                                            *)
UrlUnit == GoodUnits \cup BadUnits
UrlChar == {Letter, Plus, Percent, Illegal, 0, 2, 4, 10, 15}

(* What the units are.                                                     *)
LEMMA UnitKnown ==
  ASSUME NEW u \in UrlUnit
  PROVE  /\ u \in Seq(UrlChar) /\ Len(u) \in 1..3
         /\ u[1] \in {Letter, Plus, Percent, Illegal}
         /\ u \in GoodUnits =>
              \/ Len(u) = 1 /\ u[1] \in {Letter, Plus}
              \/ Len(u) = 3 /\ u[1] = Percent /\ ValidOctet(u[2], u[3])
         /\ u \notin GoodUnits =>
              \/ Len(u) = 1 /\ u[1] \in {Illegal, Percent}
              \/ Len(u) = 3 /\ u[1] = Percent /\ ~ValidOctet(u[2], u[3])
         /\ u = <<Plus>> <=> u[1] = Plus
<1> USE DEF Letter, Plus, Percent, Illegal, ValidOctet, IsHex
<1>1. CASE u = <<Letter>>
  <2>1. u \in Seq(UrlChar) /\ Len(u) = 1 /\ u[1] = Letter /\ u \in GoodUnits
    BY <1>1 DEF UrlChar, GoodUnits
  <2>2. u # <<Plus>>
    BY <2>1
  <2> QED
    BY <2>1, <2>2
<1>2. CASE u = <<Plus>>
  <2>1. u \in Seq(UrlChar) /\ Len(u) = 1 /\ u[1] = Plus /\ u \in GoodUnits
    BY <1>2 DEF UrlChar, GoodUnits
  <2> HIDE DEF Plus
  <2> QED
    BY <2>1, <1>2
<1>3. CASE u = <<Percent, 2, 15>>
  <2>1. u \in Seq(UrlChar) /\ Len(u) = 3 /\ u[1] = Percent /\ u[2] = 2 /\ u[3] = 15 /\ u \in GoodUnits
    BY <1>3 DEF UrlChar, GoodUnits
  <2> QED
    BY <2>1, <1>3
<1>4. CASE u = <<Percent, 0, 10>>
  <2>1. u \in Seq(UrlChar) /\ Len(u) = 3 /\ u[1] = Percent /\ u[2] = 0 /\ u[3] = 10 /\ u \in GoodUnits
    BY <1>4 DEF UrlChar, GoodUnits
  <2> QED
    BY <2>1, <1>4
<1>5. CASE u = <<Illegal>>
  <2>1. u \in Seq(UrlChar) /\ Len(u) = 1 /\ u[1] = Illegal
    BY <1>5 DEF UrlChar
  <2>2. u \notin GoodUnits
    BY <2>1 DEF GoodUnits
  <2> QED
    BY <2>1, <2>2
<1>6. CASE u = <<Percent>>
  <2>1. u \in Seq(UrlChar) /\ Len(u) = 1 /\ u[1] = Percent
    BY <1>6 DEF UrlChar
  <2>2. u \notin GoodUnits
    BY <2>1, SMTT(30) DEF GoodUnits
  <2> QED
    BY <2>1, <2>2
<1>7. CASE u = <<Percent, 0, 0>>
  <2>1. u \in Seq(UrlChar) /\ Len(u) = 3 /\ u[1] = Percent /\ u[2] = 0 /\ u[3] = 0
    BY <1>7 DEF UrlChar
  <2>2. u \notin GoodUnits
    BY <2>1 DEF GoodUnits
  <2> QED
    BY <2>1, <2>2
<1>8. CASE u = <<Percent, 4, Letter>>
  <2>1. u \in Seq(UrlChar) /\ Len(u) = 3 /\ u[1] = Percent /\ u[2] = 4 /\ u[3] = Letter
    BY <1>8 DEF UrlChar
  <2>2. u \notin GoodUnits
    BY <2>1 DEF GoodUnits
  <2> QED
    BY <2>1, <2>2
<1> QED
  BY <1>1, <1>2, <1>3, <1>4, <1>5, <1>6, <1>7, <1>8 DEF UrlUnit, GoodUnits, BadUnits

(* A unit stands in a text.                                                *)
StandsAt(src, p, u) ==
  /\ p \in Nat \ {0} /\ p + Len(u) - 1 <= Len(src)
  /\ \A i \in 1..Len(u) : src[p + i - 1] = u[i]
  /\ At(src, p + Len(u)) \notin 0..15

(* What a turn makes of a unit that begins at p.                           *)
DecodesTo(p, u, dst, next) ==
  /\ u \in GoodUnits => next = [ok |-> TRUE, p |-> p + Len(u), dst |-> Append(dst, CharOf(u))]
  /\ u \notin GoodUnits => next.ok = FALSE

(* A turn at the beginning of a unit decodes it.                           *)
LEMMA UnitDecoded ==
  ASSUME NEW src \in Seq(UrlChar), NEW u \in UrlUnit, NEW p, StandsAt(src, p, u), NEW dst
  PROVE  DecodesTo(p, u, dst, DecodeChar([ok |-> TRUE, p |-> p, dst |-> dst], src[p], At(src, p + 1), At(src, p + 2)))
<1> SUFFICES LET st == [ok |-> TRUE, p |-> p, dst |-> dst]
                 next == DecodeChar(st, src[p], At(src, p + 1), At(src, p + 2))
             IN  /\ u \in GoodUnits => next = [ok |-> TRUE, p |-> p + Len(u), dst |-> Append(dst, CharOf(u))]
                 /\ u \notin GoodUnits => next.ok = FALSE
  BY DEF DecodesTo
<1> USE DEF Letter, Plus, Percent, Illegal
<1> DEFINE st == [ok |-> TRUE, p |-> p, dst |-> dst]
<1> DEFINE next(c, high, low) == DecodeChar(st, c, high, low)
<1>1. PICK n \in 1..3 : n = Len(u)
  BY UnitKnown
<1>0. /\ u \in GoodUnits =>
           \/ n = 1 /\ u[1] \in {Letter, Plus}
           \/ n = 3 /\ u[1] = Percent /\ ValidOctet(u[2], u[3])
      /\ u \notin GoodUnits =>
           \/ n = 1 /\ u[1] \in {Illegal, Percent}
           \/ n = 3 /\ u[1] = Percent /\ ~ValidOctet(u[2], u[3])
      /\ u = <<Plus>> <=> u[1] = Plus
  BY <1>1, UnitKnown
<1>2. p \in Nat \ {0} /\ Len(src) \in Nat /\ p + n - 1 <= Len(src)
  BY <1>1 DEF StandsAt
<1>3. src[p] = u[1]
  <2>1. 1 \in 1..n /\ p + 1 - 1 = p
    BY <1>2
  <2> QED
    BY <1>1, <2>1 DEF StandsAt
<1>4. CASE n = 3
  <2>1. At(src, p + 1) = u[2] /\ At(src, p + 2) = u[3]
    <3>1. p + 1 \in 1..Len(src) /\ p + 2 \in 1..Len(src)
      BY <1>2, <1>4
    <3>2. 2 \in 1..n /\ 3 \in 1..n /\ p + 2 - 1 = p + 1 /\ p + 3 - 1 = p + 2
      BY <1>2, <1>4
    <3>3. src[p + 1] = u[2] /\ src[p + 2] = u[3]
      BY <1>1, <3>2 DEF StandsAt
    <3> QED
      BY <3>1, <3>3 DEF At
  <2>2. u[1] = Percent
    BY <1>4, <1>0 DEF Illegal
  <2>3. u \in GoodUnits <=> ValidOctet(u[2], u[3])
    BY <1>1, <1>4, <2>2, <1>0 DEF Illegal, Percent
  <2>4. CharOf(u) = <<u[2], u[3]>>
    BY <2>2 DEF CharOf
  <2>5. next(Percent, u[2], u[3]) = IF ValidOctet(u[2], u[3]) THEN [ok |-> TRUE, p |-> p + 3, dst |-> Append(dst, <<u[2], u[3]>>)]
                                    ELSE [ok |-> FALSE, p |-> p, dst |-> dst]
    <3>1. next(Percent, u[2], u[3]) = IF ValidOctet(u[2], u[3]) THEN [st EXCEPT !.dst = Append(@, <<u[2], u[3]>>), !.p = @ + 3]
                                      ELSE [st EXCEPT !.ok = FALSE]
      BY DEF DecodeChar
    <3> QED
      BY <3>1
  <2> QED
    BY <1>1, <1>3, <1>4, <2>1, <2>2, <2>3, <2>4, <2>5
<1>5. CASE u[1] = Percent /\ n = 1
  <2>1. u \notin GoodUnits
    BY <1>1, <1>5, <1>0 DEF Letter, Plus, Percent
  <2>2. ~ValidOctet(At(src, p + 1), At(src, p + 2))
    BY <1>1, <1>5 DEF StandsAt, ValidOctet, IsHex
  <2>3. \A high, low : ~ValidOctet(high, low) => next(Percent, high, low).ok = FALSE
    BY DEF DecodeChar, Percent, Illegal
  <2> QED
    BY <1>3, <1>5, <2>1, <2>2, <2>3
<1>6. CASE u[1] = Illegal
  <2>1. u \notin GoodUnits
    BY <1>6, <1>0 DEF Letter, Plus, Percent, Illegal
  <2>3. \A high, low : next(Illegal, high, low).ok = FALSE
    BY DEF DecodeChar, Percent, Illegal
  <2> QED
    BY <1>3, <1>6, <2>1, <2>3
<1>7. CASE u[1] \in {Letter, Plus} /\ n = 1
  <2>1. u \in GoodUnits
    BY <1>7, <1>0 DEF Letter, Plus, Percent, Illegal
  <2>2. u[1] # Percent /\ CharOf(u) = Decoded(u[1])
    BY <1>7, <1>0 DEF CharOf, Decoded, Letter, Plus, Percent
  <2>3. \A high, low : next(u[1], high, low) = [ok |-> TRUE, p |-> p + 1, dst |-> Append(dst, Decoded(u[1]))]
    <3>1. \A high, low : next(u[1], high, low) = [st EXCEPT !.dst = Append(@, Decoded(u[1])), !.p = @ + 1]
      BY <1>7 DEF DecodeChar
    <3> QED
      BY <3>1
  <2> QED
    BY <1>1, <1>3, <1>7, <2>1, <2>2, <2>3
<1>8. n = 3 \/ (u[1] = Percent /\ n = 1) \/ u[1] = Illegal \/ (u[1] \in {Letter, Plus} /\ n = 1)
  BY <1>0
<1> QED
  BY <1>4, <1>5, <1>6, <1>7, <1>8

(* A sequence behind another.                                              *)
LEMMA JoinedBehind ==
  ASSUME NEW C, NEW a \in Seq(C), NEW b \in Seq(C)
  PROVE  /\ a \o b \in Seq(C) /\ Len(a \o b) = Len(a) + Len(b)
         /\ Len(a) \in Nat /\ Len(b) \in Nat
         /\ \A i \in 1..Len(a) : (a \o b)[i] = a[i]
         /\ \A i \in 1..Len(b) : (a \o b)[Len(a) + i] = b[i]
<1>1. PICK m \in Nat, n \in Nat : m = Len(a) /\ n = Len(b)
  OBVIOUS
<1>2. a \o b \in Seq(C) /\ Len(a \o b) = m + n
  BY <1>1
<1>3. \A i \in 1..(m + n) : (a \o b)[i] = IF i <= m THEN a[i] ELSE b[i - m]
  BY <1>1
<1>4. \A i \in 1..n : m + i \in 1..(m + n) /\ ~(m + i <= m) /\ (m + i) - m = i
  OBVIOUS
<1>5. \A i \in 1..n : (a \o b)[m + i] = b[i]
  BY <1>3, <1>4
<1>6. \A i \in 1..m : (a \o b)[i] = a[i]
  <2>1. \A i \in 1..m : i \in 1..(m + n) /\ i <= m
    OBVIOUS
  <2> QED
    BY <1>3, <2>1
<1> QED
  BY <1>1, <1>2, <1>5, <1>6

(* What stands where in the text of some units.                            *)
LEMMA UnitsStand ==
  ASSUME NEW units \in Seq(UrlUnit), NEW n \in Nat, n = Len(units)
  PROVE  /\ \A k \in 0..n : UnitsUpTo(units)[k] \in Seq(UrlChar) /\ Len(UnitsUpTo(units)[k]) >= k
         /\ \A k \in 1..n : /\ Len(UnitsUpTo(units)[k]) = Len(UnitsUpTo(units)[k - 1]) + Len(units[k])
                            /\ StandsAt(UnitsUpTo(units)[n], Len(UnitsUpTo(units)[k - 1]) + 1, units[k])
<1> DEFINE t == UnitsUpTo(units)
<1>0. t[0] = <<>>
  BY UnitsUpToAre
<1>1. \A k \in 1..n : t[k] = t[k - 1] \o units[k]
  BY UnitsUpToAre
<1> HIDE DEF t
<1>2. \A k \in 1..n : /\ units[k] \in UrlUnit /\ units[k] \in Seq(UrlChar) /\ Len(units[k]) \in 1..3
                      /\ units[k][1] \in {Letter, Plus, Percent, Illegal}
  BY UnitKnown
<1>3. \A k \in Nat : k <= n => t[k] \in Seq(UrlChar) /\ Len(t[k]) >= k
  <2> DEFINE P(k) == k <= n => t[k] \in Seq(UrlChar) /\ Len(t[k]) >= k
             S == {k \in Nat : P(k)}
  <2>1. P(0)
    <3>1. PICK e \in Seq(UrlChar) : e = <<>> /\ Len(e) = 0
      <4>1. <<>> \in Seq(UrlChar) /\ Len(<<>>) = 0
        OBVIOUS
      <4> QED
        BY <4>1
    <3>2. t[0] = e
      BY <1>0, <3>1
    <3> QED
      BY <3>1, <3>2
  <2>2. ASSUME NEW k \in Nat, P(k) PROVE P(k + 1)
    <3> SUFFICES ASSUME k + 1 <= n PROVE t[k + 1] \in Seq(UrlChar) /\ Len(t[k + 1]) >= k + 1
      OBVIOUS
    <3>1. PICK a \in Seq(UrlChar) : a = t[k] /\ Len(a) >= k
      BY <2>2
    <3>2. k + 1 \in 1..n /\ (k + 1) - 1 = k
      OBVIOUS
    <3>3. PICK b \in Seq(UrlChar) : b = units[k + 1] /\ Len(b) \in 1..3
      BY <1>2, <3>2
    <3>30. Len(a) >= k
      BY <3>1
    <3>31. Len(b) \in 1..3
      BY <3>3
    <3>4. t[k + 1] = a \o b
      BY <1>1, <3>1, <3>2, <3>3
    <3>5. a \o b \in Seq(UrlChar) /\ Len(a \o b) = Len(a) + Len(b) /\ Len(a) \in Nat
      BY JoinedBehind
    <3>6. Len(a \o b) >= k + 1
      <4>0. \A x, z \in Nat, y \in 1..3 : x >= z => x + y >= z + 1
        OBVIOUS
      <4>1. PICK la \in Nat, lb \in 1..3 : la = Len(a) /\ lb = Len(b) /\ la >= k
        BY <3>30, <3>31, <3>5
      <4>2. la + lb >= k + 1
        BY <4>0, <4>1, Zenon
      <4> QED
        BY <3>5, <4>1, <4>2
    <3> QED
      BY <3>4, <3>5, <3>6
  <2> HIDE DEF P
  <2>3. 0 \in S /\ \A k \in Nat : k \in S => k + 1 \in S
    BY <2>1, <2>2
  <2> HIDE DEF S
  <2>4. Nat \subseteq S
    BY <2>3, SetInduction
  <2>5. \A k \in Nat : P(k)
    BY <2>4 DEF S
  <2> QED
    BY <2>5 DEF P
<1>4. \A k \in 0..n : t[k] \in Seq(UrlChar) /\ Len(t[k]) \in Nat /\ Len(t[k]) >= k
  BY <1>3
<1>5. \A k \in 1..n : Len(t[k]) = Len(t[k - 1]) + Len(units[k])
  <2> SUFFICES ASSUME NEW k \in 1..n PROVE Len(t[k]) = Len(t[k - 1]) + Len(units[k])
    OBVIOUS
  <2>1. k - 1 \in 0..n
    OBVIOUS
  <2>2. t[k] = t[k - 1] \o units[k] /\ t[k - 1] \in Seq(UrlChar) /\ units[k] \in Seq(UrlChar)
    BY <1>1, <1>2, <1>4, <2>1
  <2> QED
    BY <2>2, JoinedBehind
(* Later units change nothing in front of them.                            *)
<1>6. ASSUME NEW j \in 0..n
      PROVE  \A m \in Nat : j <= m /\ m <= n => Len(t[j]) <= Len(t[m]) /\ \A i \in 1..Len(t[j]) : t[m][i] = t[j][i]
  <2> DEFINE P(m) == j <= m /\ m <= n => Len(t[j]) <= Len(t[m]) /\ \A i \in 1..Len(t[j]) : t[m][i] = t[j][i]
             S == {m \in Nat : P(m)}
  <2>1. 0 \in S
    BY <1>4
  <2>2. ASSUME NEW m \in Nat, m \in S PROVE m + 1 \in S
    <3> SUFFICES ASSUME j <= m + 1, m + 1 <= n
                 PROVE  Len(t[j]) <= Len(t[m + 1]) /\ \A i \in 1..Len(t[j]) : t[m + 1][i] = t[j][i]
      BY DEF S
    <3>1. CASE j = m + 1
      BY <1>4, <3>1
    <3>2. CASE j <= m
      <4>1. Len(t[j]) <= Len(t[m]) /\ \A i \in 1..Len(t[j]) : t[m][i] = t[j][i]
        BY <2>2, <3>2
      <4>2. PICK k \in 1..n : k = m + 1 /\ k - 1 = m /\ m \in 0..n
        OBVIOUS
      <4>3. t[k] = t[m] \o units[k] /\ units[k] \in Seq(UrlChar) /\ t[m] \in Seq(UrlChar) /\ t[j] \in Seq(UrlChar)
        BY <1>1, <1>2, <1>4, <4>2
      <4>4. Len(t[m]) <= Len(t[k]) /\ \A i \in 1..Len(t[m]) : t[k][i] = t[m][i]
        <5>1. PICK a \in Seq(UrlChar), b \in Seq(UrlChar) : a = t[m] /\ b = units[k]
          BY <4>3
        <5>2. Len(a) <= Len(a \o b) /\ \A i \in 1..Len(a) : (a \o b)[i] = a[i]
          <6>1. Len(a \o b) = Len(a) + Len(b) /\ Len(a) \in Nat /\ Len(b) \in Nat
            BY JoinedBehind
          <6> QED
            BY <6>1, JoinedBehind
        <5> QED
          BY <4>3, <5>1, <5>2
      <4>5. Len(t[j]) \in Nat /\ Len(t[m]) \in Nat /\ Len(t[k]) \in Nat
        BY <1>4, <4>2
      <4> QED
        BY <4>1, <4>2, <4>4, <4>5
    <3> QED
      BY <3>1, <3>2
  <2> HIDE DEF S
  <2>3. Nat \subseteq S
    BY <2>1, <2>2, SetInduction
  <2> QED
    BY <2>3 DEF S
<1>7. ASSUME NEW k \in 1..n PROVE StandsAt(t[n], Len(t[k - 1]) + 1, units[k])
  <2>0. k - 1 \in 0..n
    OBVIOUS
  <2>1. PICK a \in Seq(UrlChar), b \in Seq(UrlChar) : a = t[k - 1] /\ b = units[k] /\ Len(b) \in 1..3 /\ t[k] = a \o b
    BY <1>1, <1>2, <1>4, <2>0
  <2>2. PICK p \in Nat \ {0} : p = Len(a) + 1
    OBVIOUS
  <2>20. PICK l \in 1..3 : l = Len(b)
    BY <2>1
  <2>3. Len(t[k]) = p + l - 1
    <3>1. Len(a \o b) = Len(a) + Len(b) /\ Len(a) \in Nat
      BY JoinedBehind
    <3> QED
      <4>1. Len(a \o b) = p + l - 1
        BY <2>2, <2>20, <3>1
      <4> QED
        BY <2>1, <4>1
  <2>5. \A i \in 1..l : t[k][p + i - 1] = b[i]
    <3>1. \A i \in 1..l : Len(a) + i = p + i - 1
      BY <2>2
    <3>2. \A i \in 1..l : (a \o b)[Len(a) + i] = b[i]
      BY <2>20, JoinedBehind
    <3> QED
      BY <2>1, <3>1, <3>2
  <2>6. Len(t[k]) <= Len(t[n]) /\ \A i \in 1..Len(t[k]) : t[n][i] = t[k][i]
    <3>1. k \in 0..n /\ n \in Nat
      OBVIOUS
    <3> QED
      BY <1>6, <3>1
  <2>7. Len(t[n]) \in Nat
    BY <1>4
  <2>8. \A i \in 1..l : t[n][p + i - 1] = b[i]
    <3>1. \A i \in 1..l : p + i - 1 \in 1..Len(t[k])
      BY <2>3
    <3> QED
      BY <2>5, <2>6, <3>1
  <2>9. At(t[n], p + l) \notin 0..15
    <3>1. CASE k = n
      <4>1. p + l \notin 1..Len(t[n])
        BY <2>3, <3>1
      <4> QED
        BY <4>1 DEF At, Other
    <3>2. CASE k < n
      <4>1. PICK m \in 1..n : m = k + 1 /\ m - 1 = k
        BY <3>2
      <4>2. t[m] = t[k] \o units[m] /\ t[k] \in Seq(UrlChar) /\ units[m] \in Seq(UrlChar) /\ Len(units[m]) \in 1..3
        <5>1. t[m] = t[k] \o units[m]
          BY <1>1, <4>1
        <5>2. t[k] \in Seq(UrlChar)
          <6>1. k \in 0..n
            OBVIOUS
          <6> QED
            BY <1>4, <6>1
        <5>3. units[m] \in Seq(UrlChar) /\ Len(units[m]) \in 1..3
          BY <1>2
        <5> QED
          BY <5>1, <5>2, <5>3
      <4>3. t[m][Len(t[k]) + 1] = units[m][1] /\ Len(t[m]) >= Len(t[k]) + 1
        <5>1. PICK x \in Seq(UrlChar), y \in Seq(UrlChar) : x = t[k] /\ y = units[m] /\ t[m] = x \o y /\ Len(y) \in 1..3
          BY <4>2
        <5>0. PICK ly \in 1..3 : ly = Len(y)
          BY <5>1
        <5>2. Len(x \o y) = Len(x) + ly /\ Len(x) \in Nat
          BY <5>0, JoinedBehind
        <5>3. (x \o y)[Len(x) + 1] = y[1]
          <6>0. 1 \in 1..ly
            OBVIOUS
          <6>1. 1 \in 1..Len(y)
            BY <5>0, <6>0
          <6> QED
            BY <6>1, JoinedBehind
        <5>4. Len(x \o y) >= Len(x) + 1
          BY <5>2
        <5> QED
          BY <5>1, <5>3, <5>4
      <4>4. Len(t[m]) <= Len(t[n]) /\ \A i \in 1..Len(t[m]) : t[n][i] = t[m][i]
        <5>1. m \in 0..n /\ n \in Nat
          OBVIOUS
        <5> QED
          BY <1>6, <5>1
      <4>5. Len(t[m]) \in Nat
        BY <1>4
      <4>6. p + l \in 1..Len(t[n]) /\ p + l \in 1..Len(t[m]) /\ p + l = Len(t[k]) + 1
        BY <2>3, <2>7, <4>3, <4>4, <4>5
      <4>7. t[n][p + l] = units[m][1]
        BY <4>3, <4>4, <4>6
      <4>8. units[m][1] \in {Letter, Plus, Percent, Illegal}
        BY <1>2
      <4> QED
        <5>1. At(t[n], p + l) = units[m][1]
          BY <4>6, <4>7 DEF At
        <5> QED
          <6>1. PICK c : c = units[m][1]
            OBVIOUS
          <6>2. c \in {29, 25, 26, 28}
            BY <4>8, <6>1 DEF Letter, Plus, Percent, Illegal
          <6>3. c \notin 0..15
            BY <6>2
          <6> QED
            BY <5>1, <6>1, <6>3
    <3> QED
      BY <3>1, <3>2
  <2>10. p + l - 1 <= Len(t[n])
    BY <2>3, <2>6, <2>7
  <2> QED
    BY <2>1, <2>2, <2>20, <2>8, <2>9, <2>10 DEF StandsAt
<1> QED
  BY <1>4, <1>5, <1>7 DEF t

(* The first m units decoded, or a bad unit met among the first room.      *)
GoodUpTo(units, m, st) ==
  /\ \A i \in 1..m : units[i] \in GoodUnits
  /\ st = [ok |-> TRUE, p |-> Len(UnitsUpTo(units)[m]) + 1, dst |-> [i \in 1..m |-> CharOf(units[i])]]
BadMet(units, room, st) ==
  st.ok = FALSE /\ \E i \in 1..Len(units) : i <= room /\ units[i] \notin GoodUnits

(* The locals of url_decode after k turns, if size is room + 1.            *)
UrlProgress(units, room, k, st) ==
  \/ BadMet(units, room, st)
  \/ \E m \in 0..Len(units) :
       /\ m <= room /\ m <= k
       /\ m = k \/ m = room \/ m = Len(units)
       /\ GoodUpTo(units, m, st)

(* A turn keeps that.                                                      *)
LEMMA UrlTurnGoesOn ==
  ASSUME NEW units \in Seq(UrlUnit), NEW n \in Nat, n = Len(units), NEW src, src = UnitsUpTo(units)[n],
         NEW room \in Nat, NEW k \in Nat, NEW st, UrlProgress(units, room, k, st)
  PROVE  UrlProgress(units, room, k + 1, UrlTurn(room + 1, src, st))
<1> DEFINE t == UnitsUpTo(units)
<1>0. \A i \in 0..n : t[i] \in Seq(UrlChar) /\ Len(t[i]) \in Nat
  <2>1. \A i \in 0..n : t[i] \in Seq(UrlChar)
    BY UnitsStand
  <2> HIDE DEF t
  <2> QED
    BY <2>1
<1>1. \A i \in 1..n : Len(t[i]) = Len(t[i - 1]) + Len(units[i]) /\ StandsAt(src, Len(t[i - 1]) + 1, units[i])
  BY UnitsStand
<1>2. src \in Seq(UrlChar)
  BY <1>0
<1> HIDE DEF t
<1>3. CASE BadMet(units, room, st)
  <2>1. UrlTurn(room + 1, src, st) = st
    BY <1>3 DEF BadMet, UrlTurn
  <2> QED
    BY <1>3, <2>1 DEF UrlProgress
<1>4. ASSUME NEW m \in 0..n, m <= room, m <= k, m = k \/ m = room \/ m = n, GoodUpTo(units, m, st)
      PROVE  UrlProgress(units, room, k + 1, UrlTurn(room + 1, src, st))
  <2>1. PICK dst : dst = [i \in 1..m |-> CharOf(units[i])]
    OBVIOUS
  <2>2. PICK p \in Nat \ {0} : p = Len(t[m]) + 1
    BY <1>0
  <2>3. st = [ok |-> TRUE, p |-> p, dst |-> dst]
    BY <1>4, <2>1, <2>2 DEF GoodUpTo, t
  <2>4. Len(dst) = m
    BY <2>1
  <2>5. CASE m = n \/ m = room
    <3>1. UrlTurn(room + 1, src, st) = st
      <4>1. CASE m = n
        <5>1. ~(p <= Len(src))
          BY <1>0, <2>2, <4>1 DEF t
        <5> QED
          BY <2>3, <5>1 DEF UrlTurn
      <4>2. CASE m = room
        <5>1. ~(Len(dst) < (room + 1) - 1)
          BY <2>4, <4>2
        <5> QED
          BY <2>3, <5>1 DEF UrlTurn
      <4> QED
        BY <2>5, <4>1, <4>2
    <3>2. m <= k + 1
      BY <1>4
    <3> QED
      BY <1>4, <2>5, <3>1, <3>2 DEF UrlProgress
  <2>6. CASE m < n /\ m < room
    <3>1. m = k
      BY <1>4, <2>6
    <3>2. PICK j \in 1..n : j = m + 1 /\ j - 1 = m /\ j <= room /\ j = k + 1
      BY <2>6, <3>1
    <3>3. PICK u \in UrlUnit : u = units[j]
      OBVIOUS
    <3>4. StandsAt(src, p, u) /\ Len(t[j]) = Len(t[m]) + Len(u)
      BY <1>1, <2>2, <3>2, <3>3
    <3>5. p <= Len(src) /\ Len(dst) < (room + 1) - 1
      <4>1. PICK l \in 1..3 : l = Len(u)
        BY UnitKnown
      <4>2. p + l - 1 <= Len(src)
        BY <3>4, <4>1 DEF StandsAt
      <4>3. Len(src) \in Nat
        BY <1>2
      <4> QED
        BY <2>4, <2>6, <4>2, <4>3
    <3>6. UrlTurn(room + 1, src, st) = DecodeChar(st, src[p], At(src, p + 1), At(src, p + 2))
      BY <2>3, <3>5 DEF UrlTurn
    <3>7. PICK next : next = UrlTurn(room + 1, src, st)
      OBVIOUS
    <3>8. /\ u \in GoodUnits => next = [ok |-> TRUE, p |-> p + Len(u), dst |-> Append(dst, CharOf(u))]
          /\ u \notin GoodUnits => next.ok = FALSE
      <4>1. DecodesTo(p, u, dst, DecodeChar([ok |-> TRUE, p |-> p, dst |-> dst], src[p], At(src, p + 1), At(src, p + 2)))
        BY <1>2, <3>4, UnitDecoded
      <4>2. DecodesTo(p, u, dst, next)
        BY <2>3, <3>6, <3>7, <4>1
      <4> QED
        BY <4>2 DEF DecodesTo
    <3>9. CASE u \notin GoodUnits
      <4>1. BadMet(units, room, next)
        BY <3>2, <3>3, <3>8, <3>9 DEF BadMet
      <4> QED
        BY <3>7, <4>1 DEF UrlProgress
    <3>10. CASE u \in GoodUnits
      <4>1. Append(dst, CharOf(u)) = [i \in 1..j |-> CharOf(units[i])]
        <5>1. PICK c : c = CharOf(u)
          OBVIOUS
        <5>2. DOMAIN dst = 1..m
          BY <2>1
        <5>3. Append(dst, c) = [i \in 1..(m + 1) |-> IF i <= m THEN dst[i] ELSE c]
          BY <2>1
        <5>4. \A i \in 1..m : dst[i] = CharOf(units[i])
          BY <2>1
        <5>5. \A i \in 1..j : (IF i <= m THEN dst[i] ELSE c) = CharOf(units[i])
          BY <3>2, <3>3, <5>1, <5>4
        <5> QED
          BY <3>2, <5>1, <5>3, <5>5
      <4>2. p + Len(u) = Len(t[j]) + 1
        <5>1. PICK l \in 1..3 : l = Len(u)
          BY UnitKnown
        <5> QED
          BY <2>2, <3>4, <5>1, <1>0
      <4>3. \A i \in 1..j : units[i] \in GoodUnits
        <5>1. \A i \in 1..m : units[i] \in GoodUnits
          BY <1>4 DEF GoodUpTo
        <5> QED
          BY <3>2, <3>3, <3>10, <5>1
      <4>4. GoodUpTo(units, j, next)
        BY <3>8, <3>10, <4>1, <4>2, <4>3 DEF GoodUpTo, t
      <4> QED
        BY <3>2, <3>7, <4>4 DEF UrlProgress
    <3> QED
      BY <3>9, <3>10
  <2> QED
    BY <1>4, <2>5, <2>6
<1> QED
  BY <1>3, <1>4 DEF UrlProgress

(* url_decode gives the characters that the units stand for, as far as     *)
(* they fit, or refuses the URL because of one that would.                 *)
LEMMA UnitsAreTaken ==
  ASSUME NEW units \in Seq(UrlUnit), NEW size \in Nat
  PROVE  UnitsTaken(units, size, UrlDecode(size, UnitsUpTo(units)[Len(units)]))
<1>1. PICK n \in Nat : n = Len(units)
  OBVIOUS
<1>2. PICK src \in Seq(UrlChar) : src = UnitsUpTo(units)[n] /\ Len(src) >= n
  <2>1. n \in 0..n
    OBVIOUS
  <2> QED
    BY <1>1, <2>1, UnitsStand
<1>3. PICK l \in Nat : l = Len(src)
  OBVIOUS
<1> DEFINE t == UrlTurns(size, src)
<1>40. t[0] = [ok |-> size >= 1, p |-> 1, dst |-> <<>>]
  BY <1>3, UrlTurnsAre
<1>4. \A k \in 1..l : t[k] = UrlTurn(size, src, t[k - 1])
  BY <1>3, UrlTurnsAre
<1>5. PICK r : r = UrlDecode(size, src) /\ r = t[l]
  BY <1>3 DEF UrlDecode
<1> HIDE DEF t
<1>6. CASE size = 0
  <2> DEFINE P(k) == k <= l => t[k].ok = FALSE
             S == {k \in Nat : P(k)}
  <2>1. P(0)
    <3>1. t[0].ok = (size >= 1)
      BY <1>40
    <3>2. (size >= 1) = FALSE
      BY <1>6
    <3> QED
      BY <3>1, <3>2
  <2>2. ASSUME NEW k \in Nat, P(k) PROVE P(k + 1)
    <3> SUFFICES ASSUME k + 1 <= l PROVE t[k + 1].ok = FALSE
      OBVIOUS
    <3>1. t[k].ok = FALSE
      BY <2>2
    <3>2. k + 1 \in 1..l /\ (k + 1) - 1 = k
      OBVIOUS
    <3>3. t[k + 1] = UrlTurn(size, src, t[k])
      BY <1>4, <3>2
    <3> QED
      BY <3>1, <3>3 DEF UrlTurn
  <2> HIDE DEF P
  <2>3. 0 \in S /\ \A k \in Nat : k \in S => k + 1 \in S
    BY <2>1, <2>2
  <2> HIDE DEF S
  <2>4. Nat \subseteq S
    BY <2>3, SetInduction
  <2>5. P(l)
    BY <2>4 DEF S
  <2>6. r.ok = FALSE
    BY <1>5, <2>5 DEF P
  <2>7. ~(size > 0)
    BY <1>6
  <2> QED
    BY <1>1, <1>2, <1>5, <2>6, <2>7 DEF UnitsTaken
<1>7. CASE size > 0
  <2>1. PICK room \in Nat : room = size - 1 /\ size = room + 1
    BY <1>7
  <2> DEFINE P(k) == k <= l => UrlProgress(units, room, k, t[k])
             S == {k \in Nat : P(k)}
  <2>2. P(0)
    <3>1. [i \in 1..0 |-> CharOf(units[i])] = <<>>
      OBVIOUS
    <3>2. Len(UnitsUpTo(units)[0]) + 1 = 1
      <4>1. UnitsUpTo(units)[0] = <<>>
        BY <1>1, UnitsUpToAre
      <4> QED
        BY <4>1
    <3>3. t[0] = [ok |-> TRUE, p |-> 1, dst |-> <<>>]
      <4>1. (size >= 1) = TRUE
        BY <1>7
      <4> QED
        BY <1>40, <4>1
    <3>4. GoodUpTo(units, 0, t[0])
      <4>1. PICK d : d = [i \in 1..0 |-> CharOf(units[i])] /\ d = <<>>
        BY <3>1
      <4>2. t[0] = [ok |-> TRUE, p |-> Len(UnitsUpTo(units)[0]) + 1, dst |-> d]
        BY <3>2, <3>3, <4>1
      <4> QED
        BY <4>1, <4>2 DEF GoodUpTo
    <3>5. 0 \in 0..Len(units) /\ 0 <= room
      BY <1>1
    <3> QED
      BY <3>4, <3>5 DEF UrlProgress
  <2>3. ASSUME NEW k \in Nat, P(k) PROVE P(k + 1)
    <3> SUFFICES ASSUME k + 1 <= l PROVE UrlProgress(units, room, k + 1, t[k + 1])
      OBVIOUS
    <3>1. UrlProgress(units, room, k, t[k])
      BY <2>3
    <3>2. k + 1 \in 1..l /\ (k + 1) - 1 = k
      OBVIOUS
    <3>3. t[k + 1] = UrlTurn(room + 1, src, t[k])
      BY <1>4, <2>1, <3>2
    <3> QED
      BY <1>1, <1>2, <3>1, <3>3, UrlTurnGoesOn
  <2> HIDE DEF P
  <2>4. 0 \in S /\ \A k \in Nat : k \in S => k + 1 \in S
    BY <2>2, <2>3
  <2> HIDE DEF S
  <2>5. Nat \subseteq S
    BY <2>4, SetInduction
  <2>6. P(l)
    BY <2>5 DEF S
  <2>7. UrlProgress(units, room, l, r)
    BY <1>5, <2>6 DEF P
  <2>8. PICK m : m = Min({size - 1, Len(units)})
    OBVIOUS
  <2>9. m = IF room <= n THEN room ELSE n
    BY <1>1, <2>1, <2>8, MinOfTwo
  <2>10. CASE BadMet(units, room, r)
    <3>1. r.ok = FALSE /\ \E i \in 1..n : i <= room /\ units[i] \notin GoodUnits
      BY <1>1, <2>10 DEF BadMet
    <3>2. \E i \in 1..m : units[i] \notin GoodUnits
      BY <2>9, <3>1
    <3> QED
      BY <1>1, <1>2, <1>5, <2>8, <3>1, <3>2 DEF UnitsTaken
  <2>11. ASSUME NEW j \in 0..n, j <= room, j = l \/ j = room \/ j = n, GoodUpTo(units, j, r)
         PROVE  UnitsTaken(units, size, r)
    <3>1. j = m
      BY <1>2, <1>3, <2>9, <2>11
    <3>2. r.ok = TRUE /\ r.dst = [i \in 1..m |-> CharOf(units[i])] /\ \A i \in 1..m : units[i] \in GoodUnits
      BY <2>11, <3>1 DEF GoodUpTo
    <3> QED
      BY <1>7, <2>8, <3>2 DEF UnitsTaken
  <2> QED
    BY <1>1, <1>2, <1>5, <2>7, <2>10, <2>11 DEF UrlProgress
<1> QED
  BY <1>6, <1>7

(* The numbers that the first digits are grow, and have as many digits.    *)
LEMMA ValuesGrow ==
  ASSUME NEW port \in Seq(Nat), NEW n \in Nat, n = Len(port)
  PROVE  /\ \A i \in 0..n : ValuesUpTo(port)[i] \in Nat
         /\ \A i \in 0..n : ValuesUpTo(port)[i] <= ValuesUpTo(port)[n]
<1> DEFINE v == ValuesUpTo(port)
<1>0. v[0] = 0
  BY ValuesUpToAre
<1>1. \A i \in 1..n : v[i] = v[i - 1] * 10 + port[i] /\ port[i] \in Nat
  BY ValuesUpToAre
<1> HIDE DEF v
<1>2. \A i \in Nat : i <= n => v[i] \in Nat
  <2> DEFINE P(i) == i <= n => v[i] \in Nat
             S == {i \in Nat : P(i)}
  <2>1. P(0)
    BY <1>0
  <2>2. ASSUME NEW i \in Nat, P(i) PROVE P(i + 1)
    <3> SUFFICES ASSUME i + 1 <= n PROVE v[i + 1] \in Nat
      OBVIOUS
    <3>1. PICK a \in Nat : a = v[i]
      BY <2>2
    <3>2. i + 1 \in 1..n /\ (i + 1) - 1 = i
      OBVIOUS
    <3>3. PICK d \in Nat : d = port[i + 1] /\ v[i + 1] = a * 10 + d
      BY <1>1, <3>1, <3>2
    <3> QED
      BY <3>3
  <2> HIDE DEF P
  <2>3. 0 \in S /\ \A i \in Nat : i \in S => i + 1 \in S
    BY <2>1, <2>2
  <2> HIDE DEF S
  <2>4. Nat \subseteq S
    BY <2>3, SetInduction
  <2>5. \A i \in Nat : P(i)
    BY <2>4 DEF S
  <2> QED
    BY <2>5 DEF P
<1>3. ASSUME NEW i \in 0..n PROVE \A j \in Nat : i <= j /\ j <= n => v[i] <= v[j]
  <2> DEFINE P(j) == i <= j /\ j <= n => v[i] <= v[j]
             S == {j \in Nat : P(j)}
  <2>1. P(0)
    <3>1. i <= 0 => i = 0
      OBVIOUS
    <3>2. v[0] <= v[0]
      BY <1>0
    <3> QED
      BY <3>1, <3>2
  <2>2. ASSUME NEW j \in Nat, P(j) PROVE P(j + 1)
    <3> SUFFICES ASSUME i <= j + 1, j + 1 <= n PROVE v[i] <= v[j + 1]
      OBVIOUS
    <3>1. CASE i = j + 1
      <4>1. v[i] \in Nat
        BY <1>2
      <4> QED
        BY <3>1, <4>1
    <3>2. CASE i <= j
      <4>1. PICK a \in Nat, b \in Nat : a = v[i] /\ b = v[j] /\ a <= b
        BY <1>2, <2>2, <3>2
      <4>2. j + 1 \in 1..n /\ (j + 1) - 1 = j
        OBVIOUS
      <4>3. PICK d \in Nat : d = port[j + 1] /\ v[j + 1] = b * 10 + d
        BY <1>1, <4>1, <4>2
      <4>4. a <= b * 10 + d
        BY <4>1
      <4> QED
        BY <4>1, <4>3, <4>4
    <3> QED
      BY <3>1, <3>2
  <2> HIDE DEF P
  <2>3. 0 \in S /\ \A j \in Nat : j \in S => j + 1 \in S
    BY <2>1, <2>2
  <2> HIDE DEF S
  <2>4. Nat \subseteq S
    BY <2>3, SetInduction
  <2>5. \A j \in Nat : P(j)
    BY <2>4 DEF S
  <2> QED
    BY <2>5 DEF P
<1>4. \A i \in 0..n : v[i] \in Nat /\ v[i] <= v[n]
  BY <1>2, <1>3
<1> QED
  BY <1>4 DEF v

(* The least number of so many digits.                                     *)
LeastWith == <<1, 10, 100, 1000, 10000, 100000>>

(* What the locals say of the digits that were passed.                     *)
PortGoing(port, k, t, st) ==
  /\ st = [port |-> ValuesUpTo(port)[t], end |-> k + t, ok |-> FALSE, stop |-> FALSE]
  /\ t <= Len(port) /\ \A i \in 1..t : port[i] \in 0..9
  /\ ValuesUpTo(port)[t] <= 65535
  /\ t > 0 => ValuesUpTo(port)[t] >= LeastWith[t]
PortEndedAt(port, k, j, st) ==
  /\ st = [port |-> ValuesUpTo(port)[j], end |-> k + j, ok |-> j > 0, stop |-> TRUE]
  /\ \A i \in 1..j : port[i] \in 0..9
  /\ ValuesUpTo(port)[j] <= 65535
  /\ j < Len(port) => port[j + 1] = Letter
PortEnded(port, k, st) == \E j \in 0..Len(port) : PortEndedAt(port, k, j, st)
PortTooLarge(port, st) ==
  st.stop /\ st.ok = FALSE /\ ValuesUpTo(port)[Len(port)] > 65535
PortProgress(port, k, t, st) ==
  PortGoing(port, k, t, st) \/ PortEnded(port, k, st) \/ PortTooLarge(port, st)

(* A port stands in memory, and what is behind it is no digit.             *)
PortStands(memory, k, port) ==
  /\ k \in Nat \ {0} /\ k + Len(port) <= Len(memory)
  /\ \A i \in 1..Len(port) : memory[k + i - 1] = port[i]
  /\ memory[k + Len(port)] \in {NUL, Slash}

(* A turn keeps that.                                                      *)
LEMMA PortTurnGoesOn ==
  ASSUME NEW memory \in Seq(Nat), NEW port \in Seq((0..9) \cup {Letter}), NEW k, PortStands(memory, k, port),
         port # <<>> => port[1] # 0,
         NEW t \in 0..5, NEW st, PortProgress(port, k, t, st)
  PROVE  PortProgress(port, k, t + 1, PortTurn(k, At(memory, st.end), st))
<1> DEFINE v == ValuesUpTo(port)
<1>1. PICK n \in Nat : n = Len(port)
  OBVIOUS
<1>2. port \in Seq(Nat)
  <2> DEFINE C == (0..9) \cup {Letter}
  <2>1. C \subseteq Nat /\ port \in Seq(C)
    BY DEF Letter
  <2> HIDE DEF C
  <2>2. port \in [1..n -> C]
    BY <1>1, <2>1
  <2>3. port \in [1..n -> Nat]
    BY <2>1, <2>2
  <2> QED
    BY <2>3
<1>3. \A i \in 0..n : v[i] \in Nat /\ v[i] <= v[n]
  BY <1>1, <1>2, ValuesGrow
<1>4. \A i \in 1..n : v[i] = v[i - 1] * 10 + port[i]
  BY <1>1, ValuesUpToAre
<1> HIDE DEF v
<1>5. k \in Nat \ {0} /\ k + n <= Len(memory) /\ Len(memory) \in Nat
  BY <1>1 DEF PortStands
<1>6. CASE st.stop
  <2>1. PortTurn(k, At(memory, st.end), st) = st
    BY <1>6 DEF PortTurn
  <2>2. ~PortGoing(port, k, t, st)
    BY <1>6 DEF PortGoing
  <2> QED
    BY <2>1, <2>2 DEF PortProgress
<1>7. CASE PortGoing(port, k, t, st)
  <2>1. st = [port |-> v[t], end |-> k + t, ok |-> FALSE, stop |-> FALSE]
    BY <1>7 DEF PortGoing, v
  <2>2. /\ t <= n /\ \A i \in 1..t : port[i] \in 0..9
        /\ v[t] <= 65535
        /\ t > 0 => v[t] >= LeastWith[t]
    BY <1>1, <1>7 DEF PortGoing, v
  <2>3. k + t \in 1..Len(memory)
    BY <1>5, <2>2
  <2>4. PICK d : d = memory[k + t] /\ d = At(memory, st.end)
    BY <2>1, <2>3 DEF At
  <2>5. PICK next : next = PortTurn(k, d, st)
    OBVIOUS
  <2>6. CASE t = n
    <3>1. d > 9
      <4>1. d \in {NUL, Slash}
        BY <1>1, <2>4, <2>6 DEF PortStands
      <4> QED
        BY <4>1 DEF NUL, Slash
    <3>2. next = [port |-> v[t], end |-> k + t, ok |-> k + t > k, stop |-> TRUE]
      <4>1. next = [st EXCEPT !.stop = TRUE, !.ok = st.end > k]
        BY <2>1, <2>5, <3>1 DEF PortTurn
      <4> QED
        BY <2>1, <4>1
    <3>3. (k + t > k) = (t > 0)
      BY <1>5
    <3>4. next = [port |-> v[t], end |-> k + t, ok |-> t > 0, stop |-> TRUE]
      BY <3>2, <3>3
    <3>5. PortEnded(port, k, next)
      <4>1. PortEndedAt(port, k, t, next)
        BY <1>1, <2>2, <2>6, <3>4 DEF PortEndedAt, v
      <4> QED
        BY <1>1, <2>2, <4>1 DEF PortEnded
    <3> QED
      BY <2>4, <2>5, <3>5 DEF PortProgress
  <2>7. CASE t < n
    <3>1. PICK j \in 1..n : j = t + 1 /\ j - 1 = t
      BY <2>7
    <3>2. d = port[j]
      <4>1. memory[k + j - 1] = port[j]
        BY <1>1 DEF PortStands
      <4>2. k + j - 1 = k + t
        BY <1>5, <3>1
      <4> QED
        BY <2>4, <4>1, <4>2
    <3>3. CASE d = Letter
      <4>1. d > 9
        BY <3>3 DEF Letter
      <4>2. next = [port |-> v[t], end |-> k + t, ok |-> k + t > k, stop |-> TRUE]
        <5>1. next = [st EXCEPT !.stop = TRUE, !.ok = st.end > k]
          BY <2>1, <2>5, <4>1 DEF PortTurn
        <5> QED
          BY <2>1, <5>1
      <4>3. (k + t > k) = (t > 0)
        BY <1>5
      <4>4. next = [port |-> v[t], end |-> k + t, ok |-> t > 0, stop |-> TRUE]
        BY <4>2, <4>3
      <4>5. port[t + 1] = Letter
        BY <3>1, <3>2, <3>3
      <4>6. PortEnded(port, k, next)
        <5>1. PortEndedAt(port, k, t, next)
          BY <1>1, <2>2, <4>4, <4>5 DEF PortEndedAt, v
        <5> QED
          BY <1>1, <2>2, <5>1 DEF PortEnded
      <4> QED
        BY <2>4, <2>5, <4>6 DEF PortProgress
    <3>4. CASE d \in 0..9
      <4>0. t \in 0..n /\ j \in 0..n
        BY <2>7
      <4>01. v[t] \in Nat /\ v[j] \in Nat /\ v[j] <= v[n]
        BY <1>3, <4>0
      <4>02. v[j] = v[t] * 10 + d
        BY <1>4, <3>1, <3>2
      <4>1. PICK a \in Nat, b \in Nat : a = v[t] /\ b = v[j] /\ b = a * 10 + d /\ b <= v[n]
        BY <4>01, <4>02
      <4>2. ~(d > 9) /\ ~st.stop
        BY <2>1, <3>4
      <4>3. CASE b > 65535
        <5>0. st.port * 10 + d > 65535
          BY <2>1, <4>1, <4>3
        <5>00. next = [st EXCEPT !.stop = TRUE]
          BY <2>5, <4>2, <5>0 DEF PortTurn
        <5>1. next = [port |-> v[t], end |-> k + t, ok |-> FALSE, stop |-> TRUE]
          BY <2>1, <5>00
        <5>2. v[n] > 65535
          <6>1. v[n] \in Nat
            BY <1>3
          <6> QED
            BY <4>1, <4>3, <6>1
        <5>3. PortTooLarge(port, next)
          BY <1>1, <5>1, <5>2 DEF PortTooLarge, v
        <5> QED
          BY <2>4, <2>5, <5>3 DEF PortProgress
      <4>4. CASE b <= 65535
        <5>0. st.port * 10 + d = b /\ ~(st.port * 10 + d > 65535)
          BY <2>1, <4>1, <4>4
        <5>00. next = [st EXCEPT !.port = st.port * 10 + d, !.end = st.end + 1]
          BY <2>5, <4>2, <5>0 DEF PortTurn
        <5>01. PICK e \in Nat : e = k + j /\ e = st.end + 1
          <6>1. st.end = k + t
            BY <2>1
          <6>2. (k + t) + 1 = k + j /\ k + j \in Nat
            BY <1>5, <3>1
          <6> QED
            BY <6>1, <6>2
        <5>02. next = [st EXCEPT !.port = b, !.end = e]
          <6>1. st.port * 10 + d = b /\ st.end + 1 = e
            BY <5>0, <5>01
          <6> QED
            BY <5>00, <6>1, Zenon
        <5>1. next = [port |-> b, end |-> e, ok |-> FALSE, stop |-> FALSE]
          BY <2>1, <5>02
        <5>2. e = k + j
          BY <5>01
        <5>3. \A i \in 1..j : port[i] \in 0..9
          BY <2>2, <3>1, <3>2, <3>4
        <5>4. b >= LeastWith[j]
          <6>1. CASE t = 0
            <7>1. a = 0 /\ d # 0 /\ LeastWith[j] = 1
              <8>1. v[0] = 0
                BY <1>1, ValuesUpToAre DEF v
              <8>2. port[1] # 0
                BY <1>1, <2>7, <6>1
              <8> QED
                BY <3>1, <3>2, <4>1, <6>1, <8>1, <8>2 DEF LeastWith
            <7> QED
              BY <3>4, <4>1, <7>1
          <6>2. CASE t > 0
            <7>1. a >= LeastWith[t]
              BY <2>2, <4>1, <6>2
            <7>2. t \in 1..5
              BY <6>2
            <7>3. LeastWith[t] \in Nat /\ LeastWith[j] = LeastWith[t] * 10
              BY <3>1, <7>2 DEF LeastWith
            <7> QED
              BY <3>4, <4>1, <7>1, <7>3, SMTT(30)
          <6> QED
            BY <6>1, <6>2
        <5>5. PortGoing(port, k, j, next)
          <6>1. v[j] <= 65535 /\ v[j] >= LeastWith[j] /\ j <= n
            BY <4>1, <4>4, <5>4
          <6>2. next = [port |-> v[j], end |-> k + j, ok |-> FALSE, stop |-> FALSE]
            BY <4>1, <5>1, <5>2
          <6> QED
            BY <1>1, <5>3, <6>1, <6>2 DEF PortGoing, v
        <5> QED
          BY <2>4, <2>5, <3>1, <5>5 DEF PortProgress
      <4> QED
        BY <4>1, <4>3, <4>4
    <3> QED
      BY <3>1, <3>2, <3>3, <3>4, <1>1
  <2> QED
    BY <2>2, <2>6, <2>7
<1> QED
  <2>1. PortEnded(port, k, st) => st.stop
    BY DEF PortEnded, PortEndedAt
  <2>2. PortTooLarge(port, st) => st.stop
    BY DEF PortTooLarge
  <2> QED
    BY <1>6, <1>7, <2>1, <2>2 DEF PortProgress

(* Is this the text of a port number?                                      *)
IsPortText(port) ==
  port # <<>> /\ port[1] # 0 /\ (\A i \in 1..Len(port) : port[i] \in 0..9)
    /\ ValuesUpTo(port)[Len(port)] <= 65535

(* parse_port_number takes a port as a whole, or not, or stops at a        *)
(* character that may not be behind one.                                   *)
LEMMA PortTaken ==
  ASSUME NEW memory \in Seq(Nat), NEW port \in Seq((0..9) \cup {Letter}), NEW k, PortStands(memory, k, port)
  PROVE  /\ IsPortText(port) =>
              ParsePort(memory, k) = [ok |-> TRUE, end |-> k + Len(port), port |-> ValuesUpTo(port)[Len(port)]]
         /\ ~IsPortText(port) =>
              (ParsePort(memory, k).ok => memory[ParsePort(memory, k).end] \notin {NUL, Slash})
<1> DEFINE t == PortTurns(memory, k)
<1>1. t[0] = [port |-> 0, end |-> k, ok |-> FALSE, stop |-> At(memory, k) = 0]
  BY PortTurnsAre
<1>2. \A i \in 1..6 : t[i] = PortTurn(k, At(memory, t[i - 1].end), t[i - 1])
  BY PortTurnsAre
<1>3. ParsePort(memory, k) = PortResult(t[6])
  BY DEF ParsePort
<1> HIDE DEF t
<1>4. PICK n \in Nat : n = Len(port)
  OBVIOUS
<1>5. k \in 1..Len(memory) /\ k + n \in 1..Len(memory)
  BY <1>4 DEF PortStands
<1>6. n > 0 => memory[k] = port[1]
  <2>1. k + 1 - 1 = k
    BY <1>5
  <2>2. n > 0 => 1 \in 1..n
    OBVIOUS
  <2> QED
    BY <1>4, <2>1, <2>2 DEF PortStands
<1>9. port \in Seq(Nat)
  <2> DEFINE C == (0..9) \cup {Letter}
  <2>1. C \subseteq Nat /\ port \in Seq(C)
    BY DEF Letter
  <2> HIDE DEF C
  <2>2. port \in [1..n -> C]
    BY <1>4, <2>1
  <2>3. port \in [1..n -> Nat]
    BY <2>1, <2>2
  <2> QED
    BY <2>3
<1>7. CASE n > 0 /\ port[1] = 0
  <2>1. t[0] = [port |-> 0, end |-> k, ok |-> FALSE, stop |-> TRUE]
    <3>1. At(memory, k) = 0
      BY <1>5, <1>6, <1>7 DEF At
    <3>2. (At(memory, k) = 0) = TRUE
      BY <3>1
    <3> QED
      BY <1>1, <3>2
  <2>2. \A i \in 1..6 : t[i - 1].stop => t[i] = t[i - 1]
    BY <1>2 DEF PortTurn
  <2>3. t[1] = t[0] /\ t[2] = t[1] /\ t[3] = t[2] /\ t[4] = t[3] /\ t[5] = t[4] /\ t[6] = t[5]
    BY <2>1, <2>2
  <2>4. ParsePort(memory, k).ok = FALSE
    BY <1>3, <2>1, <2>3 DEF PortResult
  <2>5. ~IsPortText(port)
    BY <1>7 DEF IsPortText
  <2> QED
    BY <2>4, <2>5
<1>8. CASE n > 0 => port[1] # 0
  <2>1. port # <<>> => port[1] # 0
    BY <1>4, <1>8
  <2>2. PortProgress(port, k, 0, t[0])
    <3>1. (At(memory, k) = 0) = FALSE
      <4>1. At(memory, k) = memory[k]
        BY <1>5 DEF At
      <4>2. n = 0 => memory[k] \in {NUL, Slash}
        <5>1. k + 0 = k
          BY <1>5
        <5> QED
          BY <1>4, <5>1 DEF PortStands
      <4> QED
        BY <1>6, <1>8, <4>1, <4>2 DEF NUL, Slash
    <3>2. ValuesUpTo(port)[0] = 0
      BY <1>4, ValuesUpToAre
    <3>3. t[0] = [port |-> ValuesUpTo(port)[0], end |-> k + 0, ok |-> FALSE, stop |-> FALSE]
      <4>1. k + 0 = k
        BY <1>5
      <4> QED
        BY <1>1, <3>1, <3>2, <4>1
    <3>4. 0 <= Len(port) /\ ValuesUpTo(port)[0] <= 65535 /\ ~(0 > 0)
      BY <1>4, <3>2
    <3>5. PortGoing(port, k, 0, t[0])
      BY <3>3, <3>4 DEF PortGoing
    <3> QED
      BY <3>5 DEF PortProgress
  <2>3. \A i \in 0..5 : PortProgress(port, k, i, t[i]) => PortProgress(port, k, i + 1, t[i + 1])
    <3> SUFFICES ASSUME NEW i \in 0..5, PortProgress(port, k, i, t[i]) PROVE PortProgress(port, k, i + 1, t[i + 1])
      OBVIOUS
    <3>1. t[i + 1] = PortTurn(k, At(memory, t[i].end), t[i])
      <4>1. i + 1 \in 1..6 /\ (i + 1) - 1 = i
        OBVIOUS
      <4> QED
        BY <1>2, <4>1
    <3> QED
      BY <2>1, <3>1, PortTurnGoesOn
  <2>4. PortProgress(port, k, 6, t[6])
    <3>1. PortProgress(port, k, 1, t[1])
      BY <2>2, <2>3
    <3>2. PortProgress(port, k, 2, t[2])
      BY <2>3, <3>1
    <3>3. PortProgress(port, k, 3, t[3])
      BY <2>3, <3>2
    <3>4. PortProgress(port, k, 4, t[4])
      BY <2>3, <3>3
    <3>5. PortProgress(port, k, 5, t[5])
      BY <2>3, <3>4
    <3> QED
      BY <2>3, <3>5
  <2>5. ~PortGoing(port, k, 6, t[6])
    <3>1. LeastWith[6] = 100000
      BY DEF LeastWith
    <3>2. ASSUME PortGoing(port, k, 6, t[6]) PROVE FALSE
      <4>1. ValuesUpTo(port)[6] <= 65535 /\ ValuesUpTo(port)[6] >= 100000 /\ 6 <= n
        BY <1>4, <3>1, <3>2 DEF PortGoing
      <4>2. ValuesUpTo(port)[6] \in Nat
        BY <1>4, <1>9, <4>1, ValuesGrow
      <4> QED
        BY <4>1, <4>2
    <3> QED
      BY <3>2
  <2>6. CASE PortTooLarge(port, t[6])
    <3>1. ParsePort(memory, k).ok = FALSE
      BY <1>3, <2>6 DEF PortTooLarge, PortResult
    <3>2. ~IsPortText(port)
      <4>1. ValuesUpTo(port)[n] > 65535 => ~(ValuesUpTo(port)[n] <= 65535)
        <5>2. ValuesUpTo(port)[n] \in Nat
          <6>1. n \in 0..n
            OBVIOUS
          <6> QED
            BY <1>4, <1>9, <6>1, ValuesGrow
        <5> QED
          BY <5>2
      <4> QED
        BY <1>4, <2>6, <4>1 DEF PortTooLarge, IsPortText
    <3> QED
      BY <3>1, <3>2
  <2>7. ASSUME NEW j \in 0..n, PortEndedAt(port, k, j, t[6])
        PROVE  /\ IsPortText(port) =>
                    ParsePort(memory, k) = [ok |-> TRUE, end |-> k + Len(port), port |-> ValuesUpTo(port)[Len(port)]]
               /\ ~IsPortText(port) =>
                    (ParsePort(memory, k).ok => memory[ParsePort(memory, k).end] \notin {NUL, Slash})
    <3>1. /\ t[6] = [port |-> ValuesUpTo(port)[j], end |-> k + j, ok |-> j > 0, stop |-> TRUE]
          /\ \A i \in 1..j : port[i] \in 0..9
          /\ ValuesUpTo(port)[j] <= 65535
          /\ j < n => port[j + 1] = Letter
      BY <1>4, <2>7 DEF PortEndedAt
    <3>20. t[6].ok = (j > 0) /\ t[6].end = k + j /\ t[6].port = ValuesUpTo(port)[j]
      BY <3>1
    <3>21. PortResult(t[6]) = [ok |-> t[6].ok, end |-> t[6].end, port |-> IF t[6].ok THEN t[6].port ELSE 0]
      BY Zenon DEF PortResult
    <3>2. ParsePort(memory, k) = [ok |-> j > 0, end |-> k + j, port |-> IF j > 0 THEN ValuesUpTo(port)[j] ELSE 0]
      BY <1>3, <3>20, <3>21
    <3>3. CASE j < n
      <4>1. j + 1 \in 1..n
        BY <3>3
      <4>2. port[j + 1] = Letter
        BY <3>1, <3>3
      <4>3. ~IsPortText(port)
        BY <1>4, <4>1, <4>2, SMTT(30) DEF IsPortText, Letter
      <4>4. memory[k + j] = Letter
        <5>1. k + (j + 1) - 1 = k + j
          BY <1>5
        <5>2. memory[k + (j + 1) - 1] = port[j + 1]
          BY <1>4, <4>1 DEF PortStands
        <5> QED
          BY <4>2, <5>1, <5>2
      <4> QED
        BY <3>2, <4>3, <4>4 DEF Letter, NUL, Slash
    <3>4. CASE j = n /\ n > 0
      <4>1. IsPortText(port)
        BY <1>4, <1>8, <3>1, <3>4 DEF IsPortText
      <4>2. (j > 0) = TRUE
        BY <3>4
      <4> QED
        BY <1>4, <3>2, <3>4, <4>1, <4>2
    <3>5. CASE j = n /\ n = 0
      <4>1. ~IsPortText(port)
        <5>0. Len(port) = 0
          BY <1>4, <3>5
        <5>1. port = <<>>
          BY <1>9, <5>0
        <5> QED
          BY <5>1 DEF IsPortText
      <4>2. (j > 0) = FALSE
        BY <3>5
      <4> QED
        <5>0. ParsePort(memory, k).ok = t[6].ok
          BY <1>3, <3>21
        <5>1. ~ParsePort(memory, k).ok
          BY <3>20, <4>2, <5>0
        <5> QED
          BY <4>1, <5>1
    <3> QED
      BY <3>3, <3>4, <3>5
  <2> QED
    BY <1>4, <2>4, <2>5, <2>6, <2>7 DEF PortProgress, PortEnded
<1> QED
  BY <1>7, <1>8

(* The last of the slashes that begin at a place is in the memory.         *)
LEMMA LastSlashInside ==
  ASSUME NEW memory \in Seq(Nat), NEW n \in Nat, n = Len(memory), NEW p \in 1..n
  PROVE  /\ LastSlash(memory, p) \in p..n
         /\ At(memory, LastSlash(memory, p) + 1) # Slash
         /\ \A i \in (p + 1)..LastSlash(memory, p) : memory[i] = Slash
<1> DEFINE S == {j \in p..n : At(memory, j + 1) # Slash}
           l == LastSlash(memory, p)
           Is(j) == At(memory, j + 1) # Slash /\ \A i \in (p + 1)..j : memory[i] = Slash
<1>1. S \subseteq Nat /\ S # {}
  <2>1. n \in p..n /\ n + 1 \notin 1..n
    OBVIOUS
  <2>2. At(memory, n + 1) # Slash
    BY <2>1 DEF At, Other, Slash
  <2> QED
    BY <2>1, <2>2
<1>2. PICK j : j \in S /\ \A x \in S : j <= x
  BY <1>1, LeastOf
<1>3. j \in p..n /\ At(memory, j + 1) # Slash
  BY <1>2
<1>4. ASSUME NEW i \in (p + 1)..j PROVE memory[i] = Slash
  <2>1. i - 1 \in p..n /\ ~(j <= i - 1) /\ (i - 1) + 1 = i /\ i \in 1..n
    BY <1>3
  <2>2. At(memory, i) = Slash
    BY <1>2, <2>1
  <2> QED
    BY <2>1, <2>2 DEF At
<1>5. j \in p..n /\ Is(j)
  BY <1>3, <1>4
<1>6. l = CHOOSE x \in p..n : Is(x)
  BY DEF LastSlash
<1> HIDE DEF Is, l
<1>7. l \in p..n /\ Is(l)
  BY <1>5, <1>6
<1> QED
  BY <1>7 DEF Is, l

(* It is the one behind which there is no slash.                           *)
LEMMA LastSlashIs ==
  ASSUME NEW memory \in Seq(Nat), NEW n \in Nat, n = Len(memory), NEW p \in 1..n, NEW e \in p..n,
         \A i \in p..e : memory[i] = Slash, At(memory, e + 1) # Slash
  PROVE  LastSlash(memory, p) = e
<1>1. PICK l \in p..n : /\ l = LastSlash(memory, p) /\ At(memory, l + 1) # Slash
                        /\ \A i \in (p + 1)..l : memory[i] = Slash
  BY LastSlashInside
<1>2. ~(l < e)
  <2> SUFFICES ASSUME l < e PROVE FALSE
    OBVIOUS
  <2>1. l + 1 \in p..e /\ l + 1 \in 1..n
    OBVIOUS
  <2> QED
    BY <1>1, <2>1 DEF At
<1>3. ~(e < l)
  <2> SUFFICES ASSUME e < l PROVE FALSE
    OBVIOUS
  <2>1. e + 1 \in (p + 1)..l /\ e + 1 \in 1..n
    OBVIOUS
  <2> QED
    BY <1>1, <2>1 DEF At
<1> QED
  BY <1>1, <1>2, <1>3

(* The loop stops at the first colon or slash behind "http://".            *)
LEMMA StopsAtFirst ==
  ASSUME NEW memory \in Seq(Nat), NEW n \in Nat, n = Len(memory), NEW q \in 2..n,
         memory[q] \in {Colon, Slash}
  PROVE  /\ Stop(memory) \in 2..q /\ memory[Stop(memory)] \in {Colon, Slash}
         /\ (\A k \in 2..(q - 1) : memory[k] \notin {Colon, Slash}) => Stop(memory) = q
<1> DEFINE S == {k \in 2..n : memory[k] \in {Colon, Slash}}
<1>1. S \subseteq Nat /\ q \in S
  OBVIOUS
<1>2. Stop(memory) = Min(S)
  BY DEF Stop
<1>3. Min(S) \in S /\ \A x \in S : Min(S) <= x
  <2> HIDE DEF S
  <2> QED
    BY <1>1, LeastOf
<1>4. PICK s \in 2..n : s = Stop(memory) /\ memory[s] \in {Colon, Slash} /\ s <= q
  BY <1>1, <1>2, <1>3
<1>5. (\A k \in 2..(q - 1) : memory[k] \notin {Colon, Slash}) => s = q
  <2>1. s < q => s \in 2..(q - 1)
    OBVIOUS
  <2> QED
    BY <1>4, <2>1
<1> QED
  BY <1>4, <1>5

(* What the locals of parse_port_number are, whatever the text.            *)
PortLocals == [port : Nat, end : Nat, ok : BOOLEAN, stop : BOOLEAN]
PortWithin(n, k, st) ==
  /\ st \in PortLocals
  /\ st.end = k \/ st.end \in k..n
  /\ st.ok => st.end \in k..n

(* What is taken for a port in a memory that does not end with a digit     *)
(* ends in the memory.                                                     *)
LEMMA PortInside ==
  ASSUME NEW memory \in Seq(Nat), NEW n \in Nat, n = Len(memory), n > 0, memory[n] > 9,
         NEW k \in 1..(n + 1), ParsePort(memory, k).ok
  PROVE  ParsePort(memory, k).end \in k..n
<1> DEFINE t == PortTurns(memory, k)
<1>1. t[0] = [port |-> 0, end |-> k, ok |-> FALSE, stop |-> At(memory, k) = 0]
  BY PortTurnsAre
<1>2. \A i \in 1..6 : t[i] = PortTurn(k, At(memory, t[i - 1].end), t[i - 1])
  BY PortTurnsAre
<1>3. ParsePort(memory, k) = PortResult(t[6])
  BY DEF ParsePort
<1> HIDE DEF t
<1>4. PortWithin(n, k, t[0])
  <2>1. PICK b \in BOOLEAN : b = (At(memory, k) = 0)
    OBVIOUS
  <2>2. t[0] = [port |-> 0, end |-> k, ok |-> FALSE, stop |-> b]
    BY <1>1, <2>1
  <2> QED
    BY <2>2 DEF PortWithin, PortLocals
<1>5. ASSUME NEW st, PortWithin(n, k, st) PROVE PortWithin(n, k, PortTurn(k, At(memory, st.end), st))
  <2>1. st \in PortLocals /\ st.end \in Nat /\ st.port \in Nat
    BY <1>5 DEF PortWithin, PortLocals
  <2>2. PICK d \in Nat : d = At(memory, st.end)
    BY DEF At, Other
  <2>3. CASE st.stop
    BY <1>5, <2>3 DEF PortTurn
  <2>4. CASE ~st.stop /\ d > 9
    <3>0. PICK e \in Nat : e = st.end
      BY <2>1
    <3>1. PICK b \in BOOLEAN : b = (st.end > k) /\ (b => e > k)
      <4>1. CASE e > k
        BY <3>0, <4>1
      <4>2. CASE ~(e > k)
        <5>1. (st.end > k) = FALSE
          BY <3>0, <4>2
        <5>2. FALSE \in BOOLEAN
          OBVIOUS
        <5> QED
          BY <5>1, <5>2, Zenon
      <4> QED
        BY <4>1, <4>2
    <3>2. PortTurn(k, d, st) = [st EXCEPT !.stop = TRUE, !.ok = b]
      BY <2>4, <3>1 DEF PortTurn
    <3>3. [st EXCEPT !.stop = TRUE, !.ok = b] \in PortLocals
      BY <2>1 DEF PortLocals
    <3>4. [st EXCEPT !.stop = TRUE, !.ok = b].end = st.end /\ [st EXCEPT !.stop = TRUE, !.ok = b].ok = b
      BY <2>1 DEF PortLocals
    <3>5. b => st.end \in k..n
      <4>1. e = k \/ e \in k..n
        BY <1>5, <3>0 DEF PortWithin
      <4> QED
        BY <3>0, <3>1, <4>1
    <3>6. st.end = k \/ st.end \in k..n
      BY <1>5 DEF PortWithin
    <3> QED
      BY <2>2, <3>2, <3>3, <3>4, <3>5, <3>6 DEF PortWithin
  <2>5. CASE ~st.stop /\ ~(d > 9) /\ st.port * 10 + d > 65535
    <3>1. PortTurn(k, d, st) = [st EXCEPT !.stop = TRUE]
      BY <2>5 DEF PortTurn
    <3>3. [st EXCEPT !.stop = TRUE] \in PortLocals
      BY <2>1 DEF PortLocals
    <3>4. [st EXCEPT !.stop = TRUE].end = st.end /\ [st EXCEPT !.stop = TRUE].ok = st.ok
      BY <2>1 DEF PortLocals
    <3> QED
      BY <1>5, <2>2, <3>1, <3>3, <3>4 DEF PortWithin
  <2>6. CASE ~st.stop /\ ~(d > 9) /\ ~(st.port * 10 + d > 65535)
    <3>1. PICK v \in Nat, e \in Nat : v = st.port * 10 + d /\ e = st.end + 1
      BY <2>1, SMTT(30)
    <3>2. PortTurn(k, d, st) = [st EXCEPT !.port = v, !.end = e]
      BY <2>6, <3>1 DEF PortTurn
    <3>3. [st EXCEPT !.port = v, !.end = e] \in PortLocals
      BY <2>1 DEF PortLocals
    <3>4. [st EXCEPT !.port = v, !.end = e].end = e
      BY <2>1 DEF PortLocals
    <3>5. st.end \in 1..n /\ st.end # n
      BY <2>2, <2>6 DEF At, Other
    <3>6. st.end >= k
      BY <1>5, <2>1 DEF PortWithin
    <3>7. e \in k..n
      BY <3>1, <3>5, <3>6, SMTT(30)
    <3> QED
      BY <2>2, <3>2, <3>3, <3>4, <3>7 DEF PortWithin
  <2> QED
    BY <2>2, <2>3, <2>4, <2>5, <2>6
<1>6. \A i \in 1..6 : PortWithin(n, k, t[i - 1]) => PortWithin(n, k, t[i])
  BY <1>2, <1>5
<1>7. PortWithin(n, k, t[6])
  <2>1. PortWithin(n, k, t[1])
    BY <1>4, <1>6
  <2>2. PortWithin(n, k, t[2])
    BY <1>6, <2>1
  <2>3. PortWithin(n, k, t[3])
    BY <1>6, <2>2
  <2>4. PortWithin(n, k, t[4])
    BY <1>6, <2>3
  <2>5. PortWithin(n, k, t[5])
    BY <1>6, <2>4
  <2> QED
    BY <1>6, <2>5
<1>8. PortResult(t[6]).ok = t[6].ok /\ PortResult(t[6]).end = t[6].end
  BY DEF PortResult
<1> QED
  BY <1>3, <1>7, <1>8 DEF PortWithin

(* The URLs that the theorem is about, by their parts.                     *)
UrlKnown(u) ==
  /\ u.http \in {<<Http>>, <<Letter>>}
  /\ u.host \in Seq(Nat) /\ \A i \in 1..Len(u.host) : u.host[i] \notin {Colon, Slash}
  /\ u.colon \in BOOLEAN /\ u.port \in Seq((0..9) \cup {Letter}) /\ (u.colon \/ u.port = <<>>)
  /\ u.slashes \in Nat /\ u.rest \in Seq(Nat) /\ (u.slashes > 0 \/ u.rest = <<>>)
  /\ u.rest # <<>> => u.rest[1] # Slash
  /\ u.size \in Nat
  /\ u.behind \in Seq(Nat) /\ u.behind # <<>> /\ u.behind[Len(u.behind)] > 9
  /\ \E i \in 1..Len(u.behind) : u.behind[i] \in {Colon, Slash}

(* A part stands in a text behind so many characters.                      *)
PartStands(chars, m, part) ==
  m + Len(part) <= Len(chars) /\ \A i \in 1..Len(part) : chars[m + i] = part[i]

(* A part still stands there when something is behind the text.            *)
LEMMA PartInFront ==
  ASSUME NEW a \in Seq(Nat), NEW b \in Seq(Nat), NEW part \in Seq(Nat), NEW m \in Nat, PartStands(a, m, part)
  PROVE  PartStands(a \o b, m, part)
<1>1. PICK x \in Nat, y \in Nat, z \in Nat : x = Len(a) /\ y = Len(b) /\ z = Len(part)
  OBVIOUS
<1>2. Len(a \o b) = x + y /\ \A i \in 1..x : (a \o b)[i] = a[i]
  BY <1>1, JoinedBehind
<1>3. m + z <= x /\ \A i \in 1..z : a[m + i] = part[i]
  BY <1>1 DEF PartStands
<1>4. \A i \in 1..z : m + i \in 1..x
  BY <1>3
<1>5. m + z <= x + y
  BY <1>3
<1> QED
  BY <1>1, <1>2, <1>3, <1>4, <1>5 DEF PartStands

(* What is put behind a text stands there.                                 *)
LEMMA PartBehind ==
  ASSUME NEW a \in Seq(Nat), NEW b \in Seq(Nat)
  PROVE  PartStands(a \o b, Len(a), b)
<1>1. PICK x \in Nat, y \in Nat : x = Len(a) /\ y = Len(b)
  OBVIOUS
<1>2. Len(a \o b) = x + y /\ \A i \in 1..y : (a \o b)[x + i] = b[i]
  BY <1>1, JoinedBehind
<1> QED
  BY <1>1, <1>2 DEF PartStands

(* What stands in a part stands in what that stands in.                    *)
LEMMA PartWithinPart ==
  ASSUME NEW chars \in Seq(Nat), NEW outer \in Seq(Nat), NEW part \in Seq(Nat), NEW m \in Nat, NEW n \in Nat,
         PartStands(chars, m, outer), PartStands(outer, n, part)
  PROVE  PartStands(chars, m + n, part)
<1>1. PICK x \in Nat, y \in Nat, z \in Nat : x = Len(chars) /\ y = Len(outer) /\ z = Len(part)
  OBVIOUS
<1>2. m + y <= x /\ \A i \in 1..y : chars[m + i] = outer[i]
  BY <1>1 DEF PartStands
<1>3. n + z <= y /\ \A i \in 1..z : outer[n + i] = part[i]
  BY <1>1 DEF PartStands
<1>4. \A i \in 1..z : n + i \in 1..y /\ m + (n + i) = (m + n) + i
  BY <1>3
<1>5. \A i \in 1..z : chars[(m + n) + i] = part[i]
  BY <1>2, <1>3, <1>4
<1>6. (m + n) + z <= x
  BY <1>2, <1>3
<1> QED
  BY <1>1, <1>5, <1>6 DEF PartStands

(* The characters of a port are numbers.                                   *)
LEMMA UrlPortKnown ==
  ASSUME NEW port \in Seq((0..9) \cup {Letter})
  PROVE  port \in Seq(Nat)
<1>1. PICK n \in Nat : n = Len(port)
  OBVIOUS
<1> DEFINE C == (0..9) \cup {Letter}
<1>2. C \subseteq Nat /\ port \in Seq(C)
  BY DEF Letter
<1> HIDE DEF C
<1>3. port \in [1..n -> C]
  BY <1>1, <1>2
<1>4. port \in [1..n -> Nat]
  BY <1>2, <1>3
<1> QED
  BY <1>4

(* What is in front of the slashes of a URL, and the slashes.              *)
FrontOf(u) == u.http \o u.host \o (IF u.colon THEN <<Colon>> \o u.port ELSE <<>>)
SlashesOf(u) == [k \in 1..u.slashes |-> Slash]

(* Where the parts in front of the slashes stand.                          *)
LEMMA FrontStands ==
  ASSUME NEW u, UrlKnown(u)
  PROVE  /\ FrontOf(u) \in Seq(Nat) /\ PartStands(FrontOf(u), 0, u.http) /\ PartStands(FrontOf(u), 1, u.host)
         /\ u.colon => /\ PartStands(FrontOf(u), 1 + Len(u.host), <<Colon>>)
                       /\ PartStands(FrontOf(u), 2 + Len(u.host), u.port)
                       /\ Len(FrontOf(u)) = 2 + Len(u.host) + Len(u.port)
         /\ ~u.colon => Len(FrontOf(u)) = 1 + Len(u.host)
<1>1. PICK a \in Seq(Nat) : a = u.http /\ Len(a) = 1
  <2>1. u.http \in Seq(Nat) /\ Len(u.http) = 1
    <3>1. <<Http>> \in Seq(Nat) /\ Len(<<Http>>) = 1 /\ <<Letter>> \in Seq(Nat) /\ Len(<<Letter>>) = 1
      BY DEF Http, Letter
    <3> QED
      BY <3>1 DEF UrlKnown
  <2> QED
    BY <2>1
<1>2. PICK b \in Seq(Nat) : b = u.host
  BY DEF UrlKnown
<1>3. PICK c \in Seq(Nat) : c = u.port
  BY UrlPortKnown DEF UrlKnown
<1>4. PICK ab \in Seq(Nat) : ab = a \o b /\ Len(ab) = 1 + Len(b)
  <2>1. a \o b \in Seq(Nat) /\ Len(a \o b) = Len(a) + Len(b)
    BY JoinedBehind
  <2> QED
    BY <1>1, <2>1, Zenon
<1>5. PartStands(ab, 0, a) /\ PartStands(ab, 1, b)
  <2>1. PartStands(a \o b, Len(a), b)
    BY PartBehind
  <2>2. PartStands(a, 0, a)
    BY DEF PartStands
  <2>3. PartStands(a \o b, 0, a)
    BY <2>2, PartInFront
  <2> QED
    BY <1>1, <1>4, <2>1, <2>3
<1>6. CASE ~u.colon
  <2>1. FrontOf(u) = ab \o <<>>
    BY <1>1, <1>2, <1>4, <1>6 DEF FrontOf
  <2>2. FrontOf(u) = ab
    BY <2>1
  <2> QED
    BY <1>1, <1>2, <1>4, <1>5, <1>6, <2>2
<1>7. CASE u.colon
  <2>1. PICK d \in Seq(Nat) : d = <<Colon>> /\ Len(d) = 1
    <3>1. <<Colon>> \in Seq(Nat) /\ Len(<<Colon>>) = 1
      BY DEF Colon
    <3> QED
      BY <3>1
  <2>2. PICK dc \in Seq(Nat) : dc = d \o c /\ Len(dc) = 1 + Len(c)
    <3>1. d \o c \in Seq(Nat) /\ Len(d \o c) = Len(d) + Len(c)
      BY JoinedBehind
    <3> QED
      BY <2>1, <3>1, Zenon
  <2>3. PICK f \in Seq(Nat) : f = ab \o dc /\ Len(f) = Len(ab) + Len(dc)
    BY JoinedBehind
  <2>4. f = FrontOf(u)
    BY <1>1, <1>2, <1>3, <1>4, <1>7, <2>1, <2>2, <2>3 DEF FrontOf
  <2>5. PartStands(f, 0, a) /\ PartStands(f, 1, b)
    BY <1>5, <2>3, PartInFront
  <2>6. PartStands(f, Len(ab), dc)
    BY <2>3, PartBehind
  <2>7. PartStands(dc, 0, d) /\ PartStands(dc, 1, c)
    <3>1. PartStands(d \o c, Len(d), c)
      BY PartBehind
    <3>2. PartStands(d, 0, d)
      BY DEF PartStands
    <3>3. PartStands(d \o c, 0, d)
      BY <3>2, PartInFront
    <3> QED
      BY <2>1, <2>2, <3>1, <3>3
  <2>8. PartStands(f, Len(ab) + 0, d) /\ PartStands(f, Len(ab) + 1, c)
    BY <2>6, <2>7, PartWithinPart
  <2>9. PICK h \in Nat, p \in Nat : h = Len(b) /\ p = Len(c)
    OBVIOUS
  <2>10. Len(ab) + 0 = 1 + h /\ Len(ab) + 1 = 2 + h /\ Len(f) = 2 + h + p
    BY <1>4, <2>2, <2>3, <2>9
  <2> QED
    BY <1>1, <1>2, <1>3, <1>7, <2>1, <2>4, <2>5, <2>8, <2>9, <2>10
<1> QED
  BY <1>6, <1>7

(* Where the parts of a URL stand in its text and in the memory; m is the  *)
(* number of characters in front of the slashes.                           *)
UrlStands(u, chars, url, m) ==
  /\ chars \in Seq(Nat) /\ url \in Seq(Nat) /\ m \in Nat
  /\ Len(chars) = m + u.slashes + Len(u.rest)
  /\ Len(url) = Len(chars) + 1 + Len(u.behind)
  /\ \A i \in 1..Len(chars) : url[i] = chars[i]
  /\ url[Len(chars) + 1] = NUL
  /\ PartStands(url, Len(chars) + 1, u.behind)
  /\ PartStands(chars, 0, u.http) /\ PartStands(chars, 1, u.host)
  /\ u.colon => /\ PartStands(chars, 1 + Len(u.host), <<Colon>>) /\ PartStands(chars, 2 + Len(u.host), u.port)
                /\ m = 2 + Len(u.host) + Len(u.port)
  /\ ~u.colon => m = 1 + Len(u.host)
  /\ \A i \in 1..u.slashes : chars[m + i] = Slash
  /\ PartStands(chars, m + u.slashes, u.rest)

(* The text of a URL, and the memory that it is in, are such ones.         *)
LEMMA TextStands ==
  ASSUME NEW u, UrlKnown(u)
  PROVE  UrlStands(u, UrlText(u), UrlText(u) \o <<NUL>> \o u.behind, Len(FrontOf(u)))
<1>1. PICK f \in Seq(Nat) : f = FrontOf(u)
  BY FrontStands
<1>2. PICK n \in Nat, s \in Seq(Nat) : n = u.slashes /\ s = SlashesOf(u) /\ Len(s) = n /\ \A i \in 1..n : s[i] = Slash
  <2>1. PICK n \in Nat : n = u.slashes
    BY DEF UrlKnown
  <2>2. [k \in 1..n |-> Slash] \in Seq(Nat) /\ Len([k \in 1..n |-> Slash]) = n
    BY DEF Slash
  <2> QED
    BY <2>1, <2>2 DEF SlashesOf
<1>3. PICK r \in Seq(Nat), b \in Seq(Nat) : r = u.rest /\ b = u.behind
  BY DEF UrlKnown
<1>4. PICK e \in Seq(Nat) : e = <<NUL>> /\ Len(e) = 1 /\ e[1] = NUL
  <2>1. <<NUL>> \in Seq(Nat) /\ Len(<<NUL>>) = 1 /\ <<NUL>>[1] = NUL
    BY DEF NUL
  <2> QED
    BY <2>1
<1>5. PICK fs \in Seq(Nat) : fs = f \o s /\ Len(fs) = Len(f) + n
  <2>1. f \o s \in Seq(Nat) /\ Len(f \o s) = Len(f) + Len(s)
    BY JoinedBehind
  <2> QED
    BY <1>2, <2>1, Zenon
<1>6. PICK t \in Seq(Nat) : t = fs \o r /\ Len(t) = Len(f) + n + Len(r)
  <2>1. fs \o r \in Seq(Nat) /\ Len(fs \o r) = Len(fs) + Len(r)
    BY JoinedBehind
  <2> QED
    BY <1>5, <2>1, Zenon
<1>7. PICK te \in Seq(Nat) : te = t \o e /\ Len(te) = Len(t) + 1
  <2>1. t \o e \in Seq(Nat) /\ Len(t \o e) = Len(t) + Len(e)
    BY JoinedBehind
  <2> QED
    BY <1>4, <2>1, Zenon
<1>8. PICK url \in Seq(Nat) : url = te \o b /\ Len(url) = Len(t) + 1 + Len(b)
  <2>1. te \o b \in Seq(Nat) /\ Len(te \o b) = Len(te) + Len(b)
    BY JoinedBehind
  <2> QED
    BY <1>7, <2>1, Zenon
<1>9. t = UrlText(u)
  BY <1>1, <1>2, <1>3, <1>5, <1>6, Zenon DEF UrlText, FrontOf, SlashesOf
<1>10. url = UrlText(u) \o <<NUL>> \o u.behind
  BY <1>3, <1>4, <1>7, <1>8, <1>9, Zenon
<1>11. ASSUME NEW part \in Seq(Nat), NEW m \in Nat, PartStands(f, m, part) PROVE PartStands(t, m, part)
  BY <1>5, <1>6, <1>11, PartInFront
<1>12. PartStands(t, 0, u.http) /\ PartStands(t, 1, u.host)
  <2>1. u.http \in Seq(Nat) /\ u.host \in Seq(Nat)
    <3>1. <<Http>> \in Seq(Nat) /\ <<Letter>> \in Seq(Nat)
      BY DEF Http, Letter
    <3> QED
      BY <3>1 DEF UrlKnown
  <2> QED
    BY <1>1, <1>11, <2>1, FrontStands
<1>13. u.colon => PartStands(t, 1 + Len(u.host), <<Colon>>) /\ PartStands(t, 2 + Len(u.host), u.port)
  <2>1. <<Colon>> \in Seq(Nat)
    BY DEF Colon
  <2>2. u.port \in Seq(Nat)
    BY UrlPortKnown DEF UrlKnown
  <2>3. 1 + Len(u.host) \in Nat /\ 2 + Len(u.host) \in Nat
    <3>1. u.host \in Seq(Nat)
      BY DEF UrlKnown
    <3>2. PICK h \in Nat : h = Len(u.host)
      BY <3>1
    <3> QED
      BY <3>2
  <2> QED
    BY <1>1, <1>11, <2>1, <2>2, <2>3, FrontStands
<1>14. /\ u.colon => Len(f) = 2 + Len(u.host) + Len(u.port)
       /\ ~u.colon => Len(f) = 1 + Len(u.host)
  BY <1>1, FrontStands
<1>15. PICK k \in Nat : k = Len(f)
  OBVIOUS
<1>16. \A i \in 1..n : t[k + i] = Slash
  <2>1. PartStands(f \o s, Len(f), s)
    BY PartBehind
  <2>2. PartStands(t, k, s)
    BY <1>5, <1>6, <1>15, <2>1, PartInFront
  <2> QED
    BY <1>2, <2>2 DEF PartStands
<1>17. PartStands(t, k + n, r)
  <2>1. PartStands(fs \o r, Len(fs), r)
    BY PartBehind
  <2> QED
    BY <1>5, <1>6, <1>15, <2>1
<1>18. \A i \in 1..Len(t) : url[i] = t[i]
  <2>1. PartStands(t, 0, t)
    BY DEF PartStands
  <2>2. PartStands(te, 0, t)
    BY <1>7, <2>1, PartInFront
  <2>3. PartStands(url, 0, t)
    BY <1>8, <2>2, PartInFront
  <2> QED
    BY <2>3 DEF PartStands
<1>19. url[Len(t) + 1] = NUL
  <2>1. PartStands(t \o e, Len(t), e)
    BY PartBehind
  <2>0. Len(t) \in Nat
    OBVIOUS
  <2>2. PartStands(te \o b, Len(t), e)
    BY <1>7, <2>0, <2>1, PartInFront, Zenon
  <2>3. PartStands(url, Len(t), e)
    BY <1>8, <2>2
  <2> QED
    BY <1>4, <2>3 DEF PartStands
<1>20. PartStands(url, Len(t) + 1, b)
  <2>1. PartStands(te \o b, Len(te), b)
    BY PartBehind
  <2> QED
    BY <1>7, <1>8, <2>1
<1>21. Len(t) = k + u.slashes + Len(u.rest) /\ Len(url) = Len(t) + 1 + Len(u.behind)
  BY <1>2, <1>3, <1>6, <1>8, <1>15
<1>22. UrlStands(u, t, url, k)
  BY <1>2, <1>3, <1>12, <1>13, <1>14, <1>15, <1>16, <1>17, <1>18, <1>19, <1>20, <1>21 DEF UrlStands
<1> QED
  BY <1>1, <1>9, <1>10, <1>15, <1>22

(* A result with this host, port and path, if the host is not empty and    *)
(* fits.                                                                   *)
HostTaken(result, url, h, port, path, size) ==
  /\ result.ok <=> h # 0 /\ (size = 0 \/ h < size)
  /\ result.ok => /\ result.port = port /\ result.path = path
                  /\ result.host = IF size = 0 THEN <<>> ELSE SubSeq(url, 2, h + 1)

(* What the end of the function makes of the ends of host and path.        *)
LEMMA HostCopied ==
  ASSUME NEW url, NEW h \in Nat, NEW port, NEW path, NEW size \in Nat
  PROVE  HostTaken(CopyHost(url, h + 2, port, path, size), url, h, port, path, size)
<1>1. (h + 2 = 2 \/ (size > 0 /\ (h + 2) - 2 >= size)) <=> ~(h # 0 /\ (size = 0 \/ h < size))
  OBVIOUS
<1>2. CASE h # 0 /\ (size = 0 \/ h < size)
  <2>1. CopyHost(url, h + 2, port, path, size) =
          [ok |-> TRUE, host |-> IF size > 0 THEN SubSeq(url, 2, (h + 2) - 1) ELSE <<>>, port |-> port, path |-> path]
    BY <1>1, <1>2, Zenon DEF CopyHost
  <2>2. (h + 2) - 1 = h + 1 /\ (size > 0 <=> size # 0)
    OBVIOUS
  <2>3. PICK host : /\ host = (IF size = 0 THEN <<>> ELSE SubSeq(url, 2, h + 1))
                    /\ host = IF size > 0 THEN SubSeq(url, 2, (h + 2) - 1) ELSE <<>>
    BY <2>2, Zenon
  <2>4. CopyHost(url, h + 2, port, path, size) = [ok |-> TRUE, host |-> host, port |-> port, path |-> path]
    BY <2>1, <2>3, Zenon
  <2>5. PICK c : c = CopyHost(url, h + 2, port, path, size)
    OBVIOUS
  <2>6. c.ok /\ c.host = host /\ c.port = port /\ c.path = path
    BY <2>4, <2>5
  <2> QED
    BY <1>2, <2>3, <2>5, <2>6, Zenon DEF HostTaken
<1>3. CASE ~(h # 0 /\ (size = 0 \/ h < size))
  <2>1. CopyHost(url, h + 2, port, path, size) = NoUrl(port, path)
    BY <1>1, <1>3, Zenon DEF CopyHost
  <2>2. ~NoUrl(port, path).ok
    BY DEF NoUrl
  <2> QED
    BY <1>3, <2>1, <2>2, Zenon DEF HostTaken
<1> QED
  BY <1>2, <1>3

(* The path is the one that was found.                                     *)
LEMMA PathCopied ==
  ASSUME NEW url, NEW end, NEW port, NEW path, NEW size, CopyHost(url, end, port, path, size).ok
  PROVE  CopyHost(url, end, port, path, size).path = path
  BY DEF CopyHost, NoUrl

(* A URL with neither a colon nor a slash behind the host is taken, if at  *)
(* all, with a path that is not in it.                                     *)
LEMMA PastTheEnd ==
  ASSUME NEW u, UrlKnown(u), NEW chars, NEW url, NEW m, UrlStands(u, chars, url, m),
         RunsPast(chars), UrlSplit(url, u.size).ok
  PROVE  UrlSplit(url, u.size).path > Len(chars) + 1
<1>1. PICK l \in Nat, n \in Nat, b \in Nat :
        l = Len(chars) /\ n = Len(url) /\ b = Len(u.behind) /\ n = l + 1 + b
  <2>1. PICK t \in Seq(Nat), w \in Seq(Nat), e \in Seq(Nat) : t = chars /\ w = url /\ e = u.behind
    BY DEF UrlStands, UrlKnown
  <2>2. PICK l \in Nat, n \in Nat, b \in Nat : l = Len(t) /\ n = Len(w) /\ b = Len(e)
    OBVIOUS
  <2>3. n = l + 1 + b
    BY <2>1, <2>2 DEF UrlStands
  <2> QED
    BY <2>1, <2>2, <2>3
<1>2. chars \in Seq(Nat) /\ url \in Seq(Nat) /\ (\A i \in 1..l : url[i] = chars[i]) /\ url[l + 1] = NUL
      /\ (\A i \in 1..b : url[(l + 1) + i] = u.behind[i])
  BY <1>1 DEF UrlStands, PartStands
<1>3. 1 \in 1..l /\ chars[1] = Http /\ \A k \in 2..l : chars[k] \notin {Colon, Slash}
  BY <1>1 DEF RunsPast, At, Other, Http
<1>4. UrlSplit(url, u.size) = SplitAt(url, Stop(url), u.size)
  <2>1. 1 \in 1..n /\ url[1] = Http
    <3>1. 1 \in 1..n
      <4>1. n \in Nat /\ l \in Nat /\ b \in Nat /\ n = l + 1 + b
        BY <1>1
      <4> QED
        BY <4>1
    <3> QED
      BY <1>2, <1>3, <3>1
  <2>2. At(url, 1) = Http
    BY <1>1, <2>1 DEF At
  <2> QED
    BY <2>2 DEF UrlSplit
<1>5. PICK j \in 1..b : u.behind[j] \in {Colon, Slash}
  BY <1>1 DEF UrlKnown
<1>6. PICK stop \in 2..n : stop = Stop(url) /\ url[stop] \in {Colon, Slash}
  <2>1. (l + 1) + j \in 2..n /\ url[(l + 1) + j] \in {Colon, Slash}
    BY <1>1, <1>2, <1>5
  <2>2. Stop(url) \in 2..((l + 1) + j) /\ url[Stop(url)] \in {Colon, Slash}
    BY <1>1, <1>2, <2>1, StopsAtFirst
  <2> QED
    BY <2>1, <2>2
<1>7. stop > l + 1
  <2>1. ~(stop \in 2..l)
    <3> SUFFICES ASSUME stop \in 2..l PROVE FALSE
      OBVIOUS
    <3>1. stop \in 1..l
      OBVIOUS
    <3> QED
      BY <1>2, <1>3, <1>6, <3>1
  <2>2. stop # l + 1
    BY <1>2, <1>6 DEF NUL, Colon, Slash
  <2> QED
    BY <2>1, <2>2
<1>8. n > 0 /\ url[n] > 9
  <2>1. b > 0
    BY <1>5
  <2>2. b \in 1..b /\ (l + 1) + b = n
    BY <1>1, <2>1
  <2>3. u.behind[b] > 9
    BY <1>1 DEF UrlKnown
  <2>4. url[(l + 1) + b] = u.behind[b]
    BY <1>2, <2>2
  <2>5. url[n] = u.behind[b]
    BY <2>2, <2>4, Zenon
  <2>6. n > 0
    <3>1. n \in Nat /\ l \in Nat /\ b \in Nat /\ n = l + 1 + b
      BY <1>1
    <3> QED
      BY <3>1
  <2>7. url[n] > 9
    BY <2>3, <2>5, Zenon
  <2> QED
    BY <2>6, <2>7
<1>9. ASSUME NEW p \in 1..n, p >= stop PROVE LastSlash(url, p) \in Nat /\ LastSlash(url, p) > l + 1
  <2>1. LastSlash(url, p) \in p..n
    BY <1>1, <1>2, LastSlashInside
  <2> QED
    BY <1>7, <1>9, <2>1
<1>10. CASE url[stop] # Colon
  <2>1. UrlSplit(url, u.size) = CopyHost(url, stop, 80, LastSlash(url, stop), u.size)
    BY <1>4, <1>6, <1>10 DEF SplitAt
  <2>2. UrlSplit(url, u.size).path = LastSlash(url, stop)
    BY <2>1, PathCopied
  <2>3. stop \in 1..n /\ stop >= stop
    OBVIOUS
  <2>4. LastSlash(url, stop) > l + 1
    BY <1>9, <2>3
  <2> QED
    BY <1>1, <2>2, <2>4, Zenon
<1>11. CASE url[stop] = Colon
  <2>1. PICK num : num = ParsePort(url, stop + 1)
    OBVIOUS
  <2>2. UrlSplit(url, u.size) = SplitPort(url, stop, num, u.size)
    BY <1>4, <1>6, <1>11, <2>1 DEF SplitAt
  <2>3. num.ok
    BY <2>2 DEF SplitPort, NoUrl
  <2>4. num.end \in (stop + 1)..n
    <3>1. stop + 1 \in 1..(n + 1)
      OBVIOUS
    <3> QED
      BY <1>1, <1>2, <1>8, <2>1, <2>3, <3>1, PortInside
  <2>5. PICK p \in 1..n : p = num.end /\ p >= stop
    BY <2>4
  <2>6. CASE url[num.end] = NUL
    <3>1. UrlSplit(url, u.size) = CopyHost(url, stop, num.port, num.end, u.size)
      BY <2>2, <2>3, <2>6 DEF SplitPort
    <3>2. UrlSplit(url, u.size).path = p
      BY <2>5, <3>1, PathCopied
    <3> QED
      BY <1>1, <1>7, <2>5, <3>2
  <2>7. CASE url[num.end] # NUL
    <3>1. UrlSplit(url, u.size) = CopyHost(url, stop, num.port, LastSlash(url, num.end), u.size)
      BY <2>2, <2>3, <2>7 DEF SplitPort, NoUrl
    <3>2. UrlSplit(url, u.size).path = LastSlash(url, p)
      BY <2>5, <3>1, PathCopied
    <3> QED
      BY <1>1, <1>9, <2>5, <3>2
  <2> QED
    BY <2>6, <2>7
<1> QED
  BY <1>10, <1>11

(* What is left of a URL from the path on.                                 *)
PathIs(u, chars, path) ==
  SubSeq(chars, path, Len(chars)) = (IF u.slashes > 0 THEN <<Slash>> ELSE <<>>) \o u.rest

(* What is left from the last of the slashes on, or from the end.          *)
LEMMA TailIs ==
  ASSUME NEW u, UrlKnown(u), NEW chars, NEW url, NEW m, UrlStands(u, chars, url, m)
  PROVE  /\ u.slashes > 0 => PathIs(u, chars, m + u.slashes)
         /\ u.slashes = 0 => PathIs(u, chars, Len(chars) + 1)
<1>1. PICK l \in Nat, s \in Nat, r \in Nat, k \in Nat :
        l = Len(chars) /\ s = u.slashes /\ r = Len(u.rest) /\ k = m /\ l = k + s + r
  <2>1. PICK s \in Nat, k \in Nat, t \in Seq(Nat), q \in Seq(Nat) : s = u.slashes /\ k = m /\ t = chars /\ q = u.rest
    BY DEF UrlStands, UrlKnown
  <2>2. PICK l \in Nat, r \in Nat : l = Len(t) /\ r = Len(q)
    OBVIOUS
  <2>3. l = k + s + r
    BY <2>1, <2>2 DEF UrlStands
  <2> QED
    BY <2>1, <2>2, <2>3
<1>2. chars \in Seq(Nat) /\ u.rest \in Seq(Nat)
  BY DEF UrlStands, UrlKnown
<1>3. CASE s = 0
  <2>1. SubSeq(chars, l + 1, l) = <<>>
    BY <1>1, <1>2
  <2>2. u.rest = <<>>
    BY <1>1, <1>3 DEF UrlKnown
  <2>3. <<>> \o u.rest = <<>>
    BY <2>2
  <2>4. ~(u.slashes > 0) /\ u.slashes = 0
    BY <1>1, <1>3
  <2>5. PathIs(u, chars, Len(chars) + 1)
    BY <1>1, <2>1, <2>3, <2>4, Zenon DEF PathIs
  <2> QED
    BY <2>4, <2>5
<1>4. CASE s > 0
  <2>1. PICK e \in Seq(Nat) : e = <<Slash>> /\ Len(e) = 1 /\ e[1] = Slash
    <3>1. <<Slash>> \in Seq(Nat) /\ Len(<<Slash>>) = 1 /\ <<Slash>>[1] = Slash
      BY DEF Slash
    <3> QED
      BY <3>1
  <2>2. PICK c \in Seq(Nat) : /\ c = e \o u.rest /\ Len(c) = 1 + r /\ c[1] = Slash
                              /\ \A i \in 1..r : c[1 + i] = u.rest[i]
    <3>1. PICK q \in Seq(Nat) : q = u.rest /\ Len(q) = r
      BY <1>1, <1>2
    <3>2. /\ e \o q \in Seq(Nat) /\ Len(e \o q) = Len(e) + Len(q)
          /\ \A i \in 1..Len(e) : (e \o q)[i] = e[i]
          /\ \A i \in 1..Len(q) : (e \o q)[Len(e) + i] = q[i]
      BY JoinedBehind
    <3>3. 1 \in 1..1
      OBVIOUS
    <3>4. (e \o q)[1] = Slash
      BY <2>1, <3>2, <3>3
    <3> QED
      BY <2>1, <3>1, <3>2, <3>4, Zenon
  <2>3. PICK p \in Nat : p = k + s /\ p \in 1..l
    BY <1>1, <1>4
  <2>4. SubSeq(chars, p, l) = [i \in 1..(1 + r) |-> chars[p + i - 1]]
    <3>0. l \in Nat /\ k \in Nat /\ s \in Nat /\ r \in Nat /\ l = k + s + r /\ p = k + s
      BY <1>1, <2>3
    <3>1. l - p + 1 = 1 + r
      BY <3>0
    <3>2. PICK t \in Seq(Nat) : t = chars /\ Len(t) = l
      BY <1>1, <1>2
    <3>3. SubSeq(t, p, l) = [i \in 1..(l - p + 1) |-> t[p + i - 1]]
      BY <2>3, <3>2
    <3> QED
      BY <3>1, <3>2, <3>3
  <2>5. \A i \in 1..(1 + r) : chars[p + i - 1] = c[i]
    <3> SUFFICES ASSUME NEW i \in 1..(1 + r) PROVE chars[p + i - 1] = c[i]
      OBVIOUS
    <3>1. CASE i = 1
      <4>1. s \in 1..s /\ p + 1 - 1 = k + s
        BY <1>4, <2>3
      <4>2. chars[k + s] = Slash
        BY <1>1, <4>1 DEF UrlStands
      <4> QED
        BY <2>2, <3>1, <4>1, <4>2
    <3>2. CASE i # 1
      <4>1. PICK j \in 1..r : i = 1 + j
        BY <3>2
      <4>2. chars[(k + s) + j] = u.rest[j]
        BY <1>1, <4>1 DEF UrlStands, PartStands
      <4>3. p + i - 1 = (k + s) + j
        BY <2>3, <4>1
      <4> QED
        BY <2>2, <4>1, <4>2, <4>3
    <3> QED
      BY <3>1, <3>2
  <2>6. c = [i \in 1..(1 + r) |-> c[i]]
    <3>1. PICK n \in Nat : n = 1 + r /\ n = Len(c)
      BY <2>2
    <3>2. c \in [1..n -> Nat]
      BY <3>1
    <3> QED
      BY <3>1, <3>2
  <2>7. SubSeq(chars, p, l) = c
    BY <2>4, <2>5, <2>6
  <2>8. u.slashes > 0 /\ u.slashes # 0
    BY <1>1, <1>4
  <2>9. PathIs(u, chars, m + u.slashes)
    BY <1>1, <2>1, <2>2, <2>3, <2>7, <2>8, Zenon DEF PathIs
  <2> QED
    BY <2>8, <2>9
<1> QED
  BY <1>1, <1>3, <1>4

(* A port of a URL is one if its text is.                                  *)
LEMMA PortIs ==
  ASSUME NEW u, UrlKnown(u)
  PROVE  /\ u.colon => (IsPort(u) <=> IsPortText(u.port)) /\ PortOf(u) = ValuesUpTo(u.port)[Len(u.port)]
         /\ ~u.colon => IsPort(u) /\ PortOf(u) = 80
<1>1. PICK port \in Seq(Nat) : port = u.port
  BY UrlPortKnown DEF UrlKnown
<1>2. PICK n \in Nat : n = Len(port) /\ DOMAIN port = 1..n
  OBVIOUS
<1>3. Range(port) \subseteq 0..9 <=> \A i \in 1..n : port[i] \in 0..9
  BY <1>2 DEF Range
<1> QED
  BY <1>1, <1>2, <1>3 DEF IsPort, PortOf, IsPortText

(* What stands behind the host is where the loop stops.                    *)
LEMMA StopIs ==
  ASSUME NEW u, UrlKnown(u), NEW chars, NEW url, NEW m, UrlStands(u, chars, url, m), u.http = <<Http>>,
         NEW h \in Nat, h = Len(u.host), h + 2 <= Len(chars), chars[h + 2] \in {Colon, Slash}
  PROVE  /\ h + 2 \in 2..Len(url) /\ url[h + 2] = chars[h + 2]
         /\ UrlSplit(url, u.size) = SplitAt(url, h + 2, u.size)
         /\ SubSeq(url, 2, h + 1) = u.host
<1>1. PICK l \in Nat, n \in Nat : l = Len(chars) /\ n = Len(url) /\ l < n
  <2>1. PICK t \in Seq(Nat), w \in Seq(Nat), q \in Seq(Nat) : t = chars /\ w = url /\ q = u.behind
    BY DEF UrlStands, UrlKnown
  <2>2. PICK l \in Nat, n \in Nat, b \in Nat : l = Len(t) /\ n = Len(w) /\ b = Len(q)
    OBVIOUS
  <2>3. n = l + 1 + b
    BY <2>1, <2>2 DEF UrlStands
  <2>4. l \in Nat /\ n \in Nat /\ b \in Nat
    BY <2>2
  <2>5. l < n
    BY <2>3, <2>4
  <2> QED
    BY <2>1, <2>2, <2>5
<1>2. chars \in Seq(Nat) /\ url \in Seq(Nat) /\ \A i \in 1..l : url[i] = chars[i]
  BY <1>1 DEF UrlStands
<1>3. \A i \in 1..h : chars[1 + i] = u.host[i]
  BY DEF UrlStands, PartStands
<1>4. \A i \in 1..h : u.host[i] \notin {Colon, Slash}
  BY DEF UrlKnown
<1>5. h + 2 <= l
  BY <1>1
<1>6. 1 \in 1..l /\ h + 2 \in 1..l /\ h + 2 \in 2..n
  BY <1>1, <1>5
<1>7. url[h + 2] = chars[h + 2]
  BY <1>2, <1>6
<1>8. \A k \in 2..((h + 2) - 1) : url[k] = u.host[k - 1] /\ url[k] \notin {Colon, Slash}
  <2> SUFFICES ASSUME NEW k \in 2..((h + 2) - 1)
               PROVE  url[k] = u.host[k - 1] /\ url[k] \notin {Colon, Slash}
    OBVIOUS
  <2>1. PICK i \in 1..h : i = k - 1 /\ k = 1 + i /\ k \in 1..l
    BY <1>5
  <2>2. url[k] = chars[1 + i]
    BY <1>2, <2>1
  <2> QED
    BY <1>3, <1>4, <2>1, <2>2
<1>9. Stop(url) = h + 2
  BY <1>1, <1>2, <1>6, <1>7, <1>8, StopsAtFirst
<1>10. At(url, 1) = Http
  <2>1. <<Http>>[1] = Http /\ Len(<<Http>>) = 1 /\ 1 \in 1..1
    OBVIOUS
  <2>2. chars[0 + 1] = Http
    BY <2>1 DEF UrlStands, PartStands
  <2>3. 1 \in 1..n /\ url[1] = Http
    BY <1>1, <1>2, <1>6, <2>2
  <2> QED
    BY <1>1, <2>3 DEF At
<1>11. UrlSplit(url, u.size) = SplitAt(url, h + 2, u.size)
  BY <1>9, <1>10 DEF UrlSplit
<1>12. SubSeq(url, 2, h + 1) = u.host
  <2>1. PICK host \in Seq(Nat) : host = u.host /\ Len(host) = h
    BY DEF UrlKnown
  <2>2. PICK w \in Seq(Nat) : w = url /\ Len(w) = n
    BY <1>1, <1>2
  <2>3. SubSeq(w, 2, h + 1) = [i \in 1..((h + 1) - 2 + 1) |-> w[2 + i - 1]]
    BY <1>6, <2>2
  <2>4. (h + 1) - 2 + 1 = h
    OBVIOUS
  <2>5. \A i \in 1..h : w[2 + i - 1] = host[i]
    <3> SUFFICES ASSUME NEW i \in 1..h PROVE w[2 + i - 1] = host[i]
      OBVIOUS
    <3>1. 2 + i - 1 \in 2..((h + 2) - 1) /\ (2 + i - 1) - 1 = i
      OBVIOUS
    <3> QED
      BY <1>8, <2>1, <2>2, <3>1
  <2>6. SubSeq(w, 2, h + 1) = [i \in 1..h |-> host[i]]
    BY <2>3, <2>4, <2>5
  <2>7. host = [i \in 1..h |-> host[i]]
    <3>1. host \in [1..h -> Nat]
      BY <2>1
    <3> QED
      BY <3>1
  <2> QED
    BY <2>1, <2>2, <2>6, <2>7
<1> QED
  BY <1>1, <1>6, <1>7, <1>11, <1>12

(* Where everything is, as numbers.                                        *)
LEMMA UrlLengths ==
  ASSUME NEW u, UrlKnown(u), NEW chars, NEW url, NEW m, UrlStands(u, chars, url, m)
  PROVE  /\ Len(chars) \in Nat /\ Len(url) \in Nat /\ m \in Nat /\ u.slashes \in Nat /\ Len(u.rest) \in Nat
         /\ Len(chars) = m + u.slashes + Len(u.rest) /\ Len(chars) + 1 <= Len(url)
<1>1. PICK t \in Seq(Nat), w \in Seq(Nat), q \in Seq(Nat), e \in Seq(Nat) :
        t = chars /\ w = url /\ q = u.behind /\ e = u.rest
  BY DEF UrlStands, UrlKnown
<1>2. PICK l \in Nat, n \in Nat, b \in Nat, r \in Nat : l = Len(t) /\ n = Len(w) /\ b = Len(q) /\ r = Len(e)
  OBVIOUS
<1>3. PICK s \in Nat, k \in Nat : s = u.slashes /\ k = m
  BY DEF UrlStands, UrlKnown
<1>4. n = l + 1 + b /\ l = k + s + r
  BY <1>1, <1>2, <1>3 DEF UrlStands
<1>5. l \in Nat /\ n \in Nat /\ b \in Nat
  BY <1>2
<1>6. l + 1 <= n
  BY <1>4, <1>5
<1> QED
  BY <1>1, <1>2, <1>3, <1>4, <1>6

(* What is behind the slashes of a URL is none, and what is where they     *)
(* would be is the end, if there are none.                                 *)
LEMMA SlashesStand ==
  ASSUME NEW u, UrlKnown(u), NEW chars, NEW url, NEW m, UrlStands(u, chars, url, m)
  PROVE  /\ u.slashes > 0 => /\ m + 1 <= Len(chars) /\ chars[m + 1] = Slash /\ url[m + 1] = Slash
                             /\ LastSlash(url, m + 1) = m + u.slashes
         /\ u.slashes = 0 => m = Len(chars) /\ url[m + 1] = NUL
<1>1. PICK l \in Nat, n \in Nat, s \in Nat, r \in Nat, k \in Nat :
        /\ l = Len(chars) /\ n = Len(url) /\ s = u.slashes /\ r = Len(u.rest) /\ k = m
        /\ l = k + s + r /\ l + 1 <= n
  <2>1. /\ Len(chars) \in Nat /\ Len(url) \in Nat /\ m \in Nat /\ u.slashes \in Nat /\ Len(u.rest) \in Nat
        /\ Len(chars) = m + u.slashes + Len(u.rest) /\ Len(chars) + 1 <= Len(url)
    BY UrlLengths
  <2> QED
    BY <2>1, Zenon
<1>2. chars \in Seq(Nat) /\ url \in Seq(Nat) /\ (\A i \in 1..l : url[i] = chars[i]) /\ url[l + 1] = NUL
      /\ (\A i \in 1..s : chars[k + i] = Slash) /\ (\A i \in 1..r : chars[(k + s) + i] = u.rest[i])
  BY <1>1 DEF UrlStands, PartStands
<1>3. l \in Nat /\ k \in Nat /\ s \in Nat /\ r \in Nat /\ n \in Nat /\ l = k + s + r /\ l + 1 <= n
  BY <1>1
<1>4. CASE s = 0
  <2>1. u.rest = <<>>
    BY <1>1, <1>4 DEF UrlKnown
  <2>2. r = 0
    BY <1>1, <2>1
  <2>3. k = l
    BY <1>3, <1>4, <2>2
  <2>4. ~(u.slashes > 0)
    BY <1>1, <1>4
  <2> QED
    BY <1>1, <1>2, <2>3, <2>4
<1>5. CASE s > 0
  <2>1. \A i \in (k + 1)..(k + s) : url[i] = Slash /\ chars[i] = Slash
    <3> SUFFICES ASSUME NEW i \in (k + 1)..(k + s) PROVE url[i] = Slash /\ chars[i] = Slash
      OBVIOUS
    <3>1. PICK j \in 1..s : i = k + j
      BY <1>3
    <3>2. i \in 1..l
      BY <1>3
    <3> QED
      BY <1>2, <3>1, <3>2
  <2>2. k + 1 \in 1..n /\ k + s \in (k + 1)..n /\ k + 1 <= l
    BY <1>3, <1>5
  <2>3. At(url, (k + s) + 1) # Slash
    <3>1. (k + s) + 1 \in 1..n
      BY <1>3
    <3>2. CASE r = 0
      <4>1. (k + s) + 1 = l + 1
        BY <1>3, <3>2
      <4> QED
        BY <1>1, <1>2, <3>1, <4>1 DEF At, NUL, Slash
    <3>3. CASE r > 0
      <4>1. (k + s) + 1 \in 1..l /\ 1 \in 1..r
        BY <1>3, <3>3
      <4>2. url[(k + s) + 1] = u.rest[1]
        BY <1>2, <4>1
      <4>3. u.rest # <<>>
        BY <1>1, <3>3
      <4>4. u.rest[1] # Slash
        BY <4>3 DEF UrlKnown
      <4> QED
        BY <1>1, <3>1, <4>2, <4>4 DEF At
    <3> QED
      BY <1>3, <3>2, <3>3
  <2>4. LastSlash(url, k + 1) = k + s
    <3>1. \A i \in (k + 1)..(k + s) : url[i] = Slash
      BY <2>1
    <3>2. n = Len(url) /\ url \in Seq(Nat)
      BY <1>1, <1>2
    <3>3. PICK p, e : p = k + 1 /\ e = k + s
      BY <2>2
    <3>4. p \in 1..n /\ e \in p..n /\ (\A i \in p..e : url[i] = Slash) /\ At(url, e + 1) # Slash
      BY <2>2, <2>3, <3>1, <3>3, Zenon
    <3>5. LastSlash(url, p) = e
      BY <3>2, <3>4, LastSlashIs
    <3> QED
      BY <3>3, <3>5
  <2>5. k + 1 \in (k + 1)..(k + s)
    BY <1>3, <1>5
  <2>6. u.slashes # 0
    BY <1>1, <1>5
  <2> QED
    BY <1>1, <2>1, <2>2, <2>4, <2>5, <2>6
<1> QED
  BY <1>1, <1>3, <1>4, <1>5

(* What the function makes of a URL with a slash behind the host.          *)
LEMMA SlashSplit ==
  ASSUME NEW u, UrlKnown(u), NEW chars, NEW url, NEW m, UrlStands(u, chars, url, m), u.http = <<Http>>,
         ~u.colon, u.slashes > 0, NEW h \in Nat, h = Len(u.host)
  PROVE  /\ SubSeq(url, 2, h + 1) = u.host
         /\ \E path : /\ UrlSplit(url, u.size) = CopyHost(url, h + 2, PortOf(u), path, u.size)
                      /\ PathIs(u, chars, path)
<1>1. m = 1 + h
  BY DEF UrlStands
<1>2. m + 1 = h + 2
  BY <1>1
<1>3. m + 1 <= Len(chars) /\ chars[m + 1] = Slash /\ url[m + 1] = Slash /\ LastSlash(url, m + 1) = m + u.slashes
  BY SlashesStand
<1>4. UrlSplit(url, u.size) = SplitAt(url, h + 2, u.size) /\ SubSeq(url, 2, h + 1) = u.host
  BY <1>2, <1>3, StopIs
<1>5. url[h + 2] # Colon
  BY <1>2, <1>3 DEF Colon, Slash
<1>6. SplitAt(url, h + 2, u.size) = CopyHost(url, h + 2, 80, m + u.slashes, u.size)
  BY <1>2, <1>3, <1>5, Zenon DEF SplitAt
<1>7. PortOf(u) = 80
  BY PortIs
<1>8. PathIs(u, chars, m + u.slashes)
  BY TailIs
<1> QED
  BY <1>4, <1>6, <1>7, <1>8, Zenon

(* What it makes of one with a colon.                                      *)
LEMMA ColonSplit ==
  ASSUME NEW u, UrlKnown(u), NEW chars, NEW url, NEW m, UrlStands(u, chars, url, m), u.http = <<Http>>,
         u.colon, NEW h \in Nat, h = Len(u.host)
  PROVE  /\ SubSeq(url, 2, h + 1) = u.host
         /\ IsPortText(u.port) =>
              \E path : /\ UrlSplit(url, u.size) = CopyHost(url, h + 2, PortOf(u), path, u.size)
                        /\ PathIs(u, chars, path)
         /\ ~IsPortText(u.port) => ~UrlSplit(url, u.size).ok
<1>1. PICK port \in Seq((0..9) \cup {Letter}) : port = u.port
  BY DEF UrlKnown
<1>2. PICK p \in Nat : p = Len(port)
  OBVIOUS
<1>3. PICK l \in Nat, n \in Nat, s \in Nat, r \in Nat, k \in Nat :
        /\ l = Len(chars) /\ n = Len(url) /\ s = u.slashes /\ r = Len(u.rest) /\ k = m
        /\ l = k + s + r /\ l + 1 <= n
  <2>1. /\ Len(chars) \in Nat /\ Len(url) \in Nat /\ m \in Nat /\ u.slashes \in Nat /\ Len(u.rest) \in Nat
        /\ Len(chars) = m + u.slashes + Len(u.rest) /\ Len(chars) + 1 <= Len(url)
    BY UrlLengths
  <2> QED
    BY <2>1, Zenon
<1>4. l \in Nat /\ k \in Nat /\ s \in Nat /\ r \in Nat /\ n \in Nat /\ l = k + s + r /\ l + 1 <= n
  BY <1>3
<1>5. k = 2 + h + p
  BY <1>1, <1>2, <1>3 DEF UrlStands
<1>6. url \in Seq(Nat) /\ chars \in Seq(Nat) /\ \A i \in 1..l : url[i] = chars[i]
  BY <1>3 DEF UrlStands
<1>7. h + 2 <= l /\ chars[h + 2] = Colon
  <2>1. <<Colon>>[1] = Colon /\ Len(<<Colon>>) = 1 /\ 1 \in 1..1
    OBVIOUS
  <2>2. chars[(1 + h) + 1] = Colon
    BY <2>1 DEF UrlStands, PartStands
  <2>3. (1 + h) + 1 = h + 2
    OBVIOUS
  <2> QED
    BY <1>4, <1>5, <2>2, <2>3, SMTT(30)
<1>8. /\ UrlSplit(url, u.size) = SplitAt(url, h + 2, u.size) /\ SubSeq(url, 2, h + 1) = u.host
      /\ url[h + 2] = Colon
  <2>1. h + 2 <= Len(chars) /\ chars[h + 2] \in {Colon, Slash}
    BY <1>3, <1>7
  <2>2. /\ UrlSplit(url, u.size) = SplitAt(url, h + 2, u.size) /\ SubSeq(url, 2, h + 1) = u.host
        /\ url[h + 2] = chars[h + 2]
    BY <2>1, StopIs
  <2> QED
    BY <1>7, <2>2
<1>9. PICK num : num = ParsePort(url, h + 3)
  OBVIOUS
<1>10. UrlSplit(url, u.size) = SplitPort(url, h + 2, num, u.size)
  <2>1. (h + 2) + 1 = h + 3
    OBVIOUS
  <2> QED
    BY <1>8, <1>9, <2>1, Zenon DEF SplitAt
<1>11. (h + 3) + p = k + 1 /\ (h + 3) + p <= n
  BY <1>4, <1>5
<1>12. url[k + 1] \in {NUL, Slash} /\ (s > 0 => url[k + 1] = Slash) /\ (s = 0 => url[k + 1] = NUL /\ k = l)
       /\ (s > 0 => LastSlash(url, k + 1) = k + s)
  <2>1. s = 0 \/ s > 0
    BY <1>4
  <2> QED
    <3>1. /\ s > 0 => url[k + 1] = Slash /\ LastSlash(url, k + 1) = k + s
          /\ s = 0 => k = l /\ url[k + 1] = NUL
      <4>1. /\ u.slashes > 0 => url[m + 1] = Slash /\ LastSlash(url, m + 1) = m + u.slashes
            /\ u.slashes = 0 => m = Len(chars) /\ url[m + 1] = NUL
        BY SlashesStand
      <4> QED
        BY <1>3, <4>1, Zenon
    <3> QED
      BY <2>1, <3>1
<1>13. PortStands(url, h + 3, port)
  <2>1. \A i \in 1..p : url[(h + 3) + i - 1] = port[i]
    <3> SUFFICES ASSUME NEW i \in 1..p PROVE url[(h + 3) + i - 1] = port[i]
      OBVIOUS
    <3>1. chars[(2 + h) + i] = port[i]
      BY <1>1, <1>2 DEF UrlStands, PartStands
    <3>2. (2 + h) + i = (h + 3) + i - 1 /\ (2 + h) + i \in 1..l
      BY <1>4, <1>5
    <3> QED
      BY <1>6, <3>1, <3>2
  <2>2. h + 3 \in Nat \ {0}
    OBVIOUS
  <2> QED
    BY <1>2, <1>3, <1>11, <1>12, <2>1, <2>2 DEF PortStands
<1>14. /\ IsPortText(port) => num = [ok |-> TRUE, end |-> k + 1, port |-> ValuesUpTo(port)[p]]
       /\ ~IsPortText(port) => (num.ok => url[num.end] \notin {NUL, Slash})
  <2>1. /\ IsPortText(port) =>
              ParsePort(url, h + 3) = [ok |-> TRUE, end |-> (h + 3) + Len(port), port |-> ValuesUpTo(port)[Len(port)]]
        /\ ~IsPortText(port) =>
              (ParsePort(url, h + 3).ok => url[ParsePort(url, h + 3).end] \notin {NUL, Slash})
    BY <1>6, <1>13, PortTaken
  <2> QED
    BY <1>2, <1>9, <1>11, <2>1, Zenon
<1>15. ASSUME ~IsPortText(port) PROVE ~UrlSplit(url, u.size).ok
  BY <1>10, <1>14, <1>15 DEF SplitPort, NoUrl
<1>16. ASSUME IsPortText(port)
       PROVE  \E path : /\ UrlSplit(url, u.size) = CopyHost(url, h + 2, PortOf(u), path, u.size)
                        /\ PathIs(u, chars, path)
  <2>1. num.ok /\ num.end = k + 1 /\ num.port = PortOf(u)
    BY <1>1, <1>2, <1>14, <1>16, PortIs
  <2>2. CASE s = 0
    <3>1. UrlSplit(url, u.size) = CopyHost(url, h + 2, PortOf(u), k + 1, u.size)
      BY <1>10, <1>12, <2>1, <2>2 DEF SplitPort
    <3>2. PathIs(u, chars, k + 1)
      BY <1>3, <1>12, <2>2, TailIs
    <3> QED
      BY <3>1, <3>2
  <2>3. CASE s > 0
    <3>1. UrlSplit(url, u.size) = CopyHost(url, h + 2, PortOf(u), k + s, u.size)
      <4>1. url[num.end] = Slash /\ url[num.end] # NUL /\ LastSlash(url, num.end) = k + s
        BY <1>12, <2>1, <2>3 DEF Slash, NUL
      <4> QED
        BY <1>10, <2>1, <4>1, Zenon DEF SplitPort
    <3>2. PathIs(u, chars, k + s)
      BY <1>3, <2>3, TailIs
    <3> QED
      BY <3>1, <3>2
  <2> QED
    BY <1>4, <2>2, <2>3
<1> QED
  BY <1>1, <1>8, <1>15, <1>16

(* url_split takes a URL apart where its parts were put together.          *)
LEMMA PartsAreTaken ==
  ASSUME NEW u, UrlKnown(u)
  PROVE  PartsTaken(u, UrlText(u), UrlSplit(UrlText(u) \o <<NUL>> \o u.behind, u.size))
<1>1. PICK chars, url, m : /\ chars = UrlText(u) /\ url = UrlText(u) \o <<NUL>> \o u.behind
                          /\ UrlStands(u, chars, url, m)
  BY TextStands
<1>2. PICK result : result = UrlSplit(url, u.size)
  OBVIOUS
<1>3. PICK h \in Nat, size \in Nat : h = Len(u.host) /\ size = u.size
  <2>1. u.host \in Seq(Nat) /\ u.size \in Nat
    BY DEF UrlKnown
  <2>2. Len(u.host) \in Nat
    BY <2>1
  <2> QED
    BY <2>1, <2>2
<1>4. CASE RunsPast(chars)
  <2>1. result.ok => result.path > Len(chars) + 1
    BY <1>1, <1>2, <1>4, PastTheEnd
  <2> QED
    BY <1>1, <1>2, <1>4, <2>1, Zenon DEF PartsTaken
<1>5. CASE ~RunsPast(chars)
  <2>1. u.host # <<>> <=> h # 0
    BY <1>3 DEF UrlKnown
  <2>2. ASSUME /\ result.ok <=> /\ u.http = <<Http>> /\ h # 0 /\ (size = 0 \/ h < size)
                                /\ IsPort(u)
               /\ result.ok => /\ result.port = PortOf(u)
                               /\ result.host = IF size = 0 THEN <<>> ELSE u.host
                               /\ PathIs(u, chars, result.path)
        PROVE  PartsTaken(u, chars, result)
    BY <1>3, <1>5, <2>1, <2>2, Zenon DEF PartsTaken, PathIs
  <2>3. CASE u.http # <<Http>>
    <3>1. u.http = <<Letter>> /\ <<Letter>>[1] = Letter /\ Len(<<Letter>>) = 1 /\ 1 \in 1..1
      BY <2>3, SMTT(30) DEF UrlKnown
    <3>2. chars[0 + 1] = Letter /\ 0 + 1 <= Len(chars)
      BY <1>1, <3>1 DEF UrlStands, PartStands
    <3>3. 1 \in 1..Len(chars) /\ 1 \in 1..Len(url)
      <4>1. Len(chars) \in Nat /\ Len(url) \in Nat /\ Len(chars) + 1 <= Len(url)
        BY <1>1, UrlLengths
      <4> QED
        BY <3>2, <4>1
    <3>4. url[1] = Letter
      BY <1>1, <3>2, <3>3 DEF UrlStands
    <3>5. At(url, 1) # Http
      BY <3>3, <3>4 DEF At, Letter, Http
    <3>6. ~result.ok
      BY <1>2, <3>5 DEF UrlSplit, NoUrl
    <3> QED
      BY <1>1, <1>2, <2>2, <2>3, <3>6
  <2>4. ASSUME u.http = <<Http>>, IsPort(u), SubSeq(url, 2, h + 1) = u.host,
               NEW path, result = CopyHost(url, h + 2, PortOf(u), path, size), PathIs(u, chars, path)
        PROVE  PartsTaken(u, chars, result)
    <3>1. /\ result.ok <=> h # 0 /\ (size = 0 \/ h < size)
          /\ result.ok => /\ result.port = PortOf(u) /\ result.path = path
                          /\ result.host = IF size = 0 THEN <<>> ELSE SubSeq(url, 2, h + 1)
      <4>1. HostTaken(CopyHost(url, h + 2, PortOf(u), path, size), url, h, PortOf(u), path, size)
        BY <1>3, HostCopied
      <4> QED
        BY <2>4, <4>1, Zenon DEF HostTaken
    <3> QED
      BY <2>2, <2>4, <3>1, Zenon
  <2>5. CASE u.http = <<Http>> /\ u.colon
    <3>1. /\ SubSeq(url, 2, h + 1) = u.host
          /\ IsPortText(u.port) =>
               \E path : /\ UrlSplit(url, u.size) = CopyHost(url, h + 2, PortOf(u), path, u.size)
                         /\ PathIs(u, chars, path)
          /\ ~IsPortText(u.port) => ~UrlSplit(url, u.size).ok
      BY <1>1, <1>3, <2>5, ColonSplit
    <3>2. IsPort(u) <=> IsPortText(u.port)
      BY <2>5, PortIs
    <3>3. CASE IsPort(u)
      <4>1. PICK path : UrlSplit(url, u.size) = CopyHost(url, h + 2, PortOf(u), path, u.size) /\ PathIs(u, chars, path)
        BY <3>1, <3>2, <3>3
      <4> QED
        BY <1>1, <1>2, <1>3, <2>4, <2>5, <3>1, <3>3, <4>1
    <3>4. CASE ~IsPort(u)
      BY <1>1, <1>2, <2>2, <3>1, <3>2, <3>4
    <3> QED
      BY <3>3, <3>4
  <2>6. CASE u.http = <<Http>> /\ ~u.colon
    <3>1. u.slashes > 0
      <4>1. SUFFICES ASSUME ~(u.slashes > 0) PROVE FALSE
        OBVIOUS
      <4>2. u.rest = <<>> /\ u.slashes = 0 /\ m = 1 + h
        BY <1>1, <1>3, <2>6, <4>1 DEF UrlStands, UrlKnown
      <4>3. Len(chars) = 1 + h
        <5>1. m = Len(chars)
          BY <1>1, <4>2, SlashesStand
        <5> QED
          BY <4>2, <5>1
      <4>4. <<Http>>[1] = Http /\ Len(<<Http>>) = 1 /\ 1 \in 1..1
        OBVIOUS
      <4>5. chars[0 + 1] = Http
        BY <1>1, <2>6, <4>4 DEF UrlStands, PartStands
      <4>6. At(chars, 1) = Http
        BY <4>3, <4>5 DEF At
      <4>7. \A i \in 1..h : chars[1 + i] = u.host[i]
        BY <1>1, <1>3 DEF UrlStands, PartStands
      <4>8. \A k \in 2..(1 + h) : chars[k] \notin {Colon, Slash}
        <5> SUFFICES ASSUME NEW k \in 2..(1 + h) PROVE chars[k] \notin {Colon, Slash}
          OBVIOUS
        <5>1. PICK i \in 1..h : k = 1 + i
          OBVIOUS
        <5> QED
          BY <1>3, <4>7, <5>1 DEF UrlKnown
      <4> QED
        BY <1>5, <4>3, <4>6, <4>8 DEF RunsPast
    <3>2. /\ SubSeq(url, 2, h + 1) = u.host
          /\ \E path : /\ UrlSplit(url, u.size) = CopyHost(url, h + 2, PortOf(u), path, u.size)
                       /\ PathIs(u, chars, path)
      BY <1>1, <1>3, <2>6, <3>1, SlashSplit
    <3>3. IsPort(u)
      BY <2>6, PortIs
    <3>4. PICK path : UrlSplit(url, u.size) = CopyHost(url, h + 2, PortOf(u), path, u.size) /\ PathIs(u, chars, path)
      BY <3>2
    <3> QED
      BY <1>1, <1>2, <1>3, <2>4, <2>6, <3>2, <3>3, <3>4
  <2>7. u.colon \in BOOLEAN
    BY DEF UrlKnown
  <2> QED
    BY <2>3, <2>5, <2>6, <2>7
<1> QED
  BY <1>4, <1>5

(* The URLs of the jobs are such ones.                                     *)
LEMMA SplitJobsKnown ==
  ASSUME NEW u \in SplitJobs
  PROVE  UrlKnown(u) /\ u.http \in {<<Http>>, <<Letter>>}
<1>1. /\ u.http \in {<<Http>>, <<Letter>>}
      /\ u.host \in {<<>>, <<Letter>>, <<Letter, Dot, 1>>}
      /\ u.colon \in BOOLEAN
      /\ u.port \in {<<>>, <<8, 0>>, <<0, 8>>, <<6, 5, 5, 3, 6>>, <<8, Letter>>}
      /\ u.slashes \in 0..2
      /\ u.rest \in {<<>>, <<Letter, Slash, Slash>>, <<Colon, 8>>}
      /\ u.size \in 0..4
      /\ u.behind \in {<<Slash>>, <<Letter, Colon, 8, NUL>>}
      /\ u.colon \/ u.port = <<>>
      /\ u.slashes > 0 \/ u.rest = <<>>
  <2>1. PICK R : /\ u \in R
                 /\ R = [kind : {"split"}, http : {<<Http>>, <<Letter>>}, host : {<<>>, <<Letter>>, <<Letter, Dot, 1>>},
                         colon : BOOLEAN, port : {<<>>, <<8, 0>>, <<0, 8>>, <<6, 5, 5, 3, 6>>, <<8, Letter>>},
                         slashes : 0..2, rest : {<<>>, <<Letter, Slash, Slash>>, <<Colon, 8>>}, size : 0..4,
                         behind : {<<Slash>>, <<Letter, Colon, 8, NUL>>}]
                 /\ u.colon \/ u.port = <<>>
                 /\ u.slashes > 0 \/ u.rest = <<>>
    BY DEF SplitJobs
  <2>2. \A A, B, C, D, E, F, G, H :
          u \in [kind : {"split"}, http : A, host : B, colon : C, port : D, slashes : E, rest : F, size : G, behind : H] =>
            /\ u.http \in A /\ u.host \in B /\ u.colon \in C /\ u.port \in D
            /\ u.slashes \in E /\ u.rest \in F /\ u.size \in G /\ u.behind \in H
    OBVIOUS
  <2> QED
    BY <2>1, <2>2, Zenon
<1>2. u.host \in Seq(Nat) /\ \A i \in 1..Len(u.host) : u.host[i] \notin {Colon, Slash}
  <2>1. CASE u.host = <<>>
    BY <2>1
  <2>2. CASE u.host = <<Letter>>
    BY <2>2 DEF Letter, Colon, Slash
  <2>3. CASE u.host = <<Letter, Dot, 1>>
    BY <2>3 DEF Letter, Dot, Colon, Slash
  <2> QED
    BY <1>1, <2>1, <2>2, <2>3
<1>3. u.port \in Seq((0..9) \cup {Letter})
  <2>1. <<>> \in Seq((0..9) \cup {Letter})
    OBVIOUS
  <2>2. <<8, 0>> \in Seq((0..9) \cup {Letter}) /\ <<0, 8>> \in Seq((0..9) \cup {Letter})
    OBVIOUS
  <2>3. <<6, 5, 5, 3, 6>> \in Seq((0..9) \cup {Letter})
    OBVIOUS
  <2>4. <<8, Letter>> \in Seq((0..9) \cup {Letter})
    OBVIOUS
  <2> QED
    BY <1>1, <2>1, <2>2, <2>3, <2>4, Zenon
<1>4. u.rest \in Seq(Nat) /\ (u.rest # <<>> => u.rest[1] # Slash)
  <2>1. CASE u.rest = <<>>
    BY <2>1
  <2>2. CASE u.rest = <<Letter, Slash, Slash>>
    BY <2>2 DEF Letter, Slash
  <2>3. CASE u.rest = <<Colon, 8>>
    BY <2>3 DEF Colon, Slash
  <2> QED
    BY <1>1, <2>1, <2>2, <2>3
<1>5. /\ u.behind \in Seq(Nat) /\ u.behind # <<>> /\ u.behind[Len(u.behind)] > 9
      /\ \E i \in 1..Len(u.behind) : u.behind[i] \in {Colon, Slash}
  <2>1. CASE u.behind = <<Slash>>
    <3>1. 1 \in 1..Len(u.behind) /\ u.behind[1] = Slash /\ Len(u.behind) = 1
      BY <2>1
    <3> QED
      BY <2>1, <3>1 DEF Slash
  <2>2. CASE u.behind = <<Letter, Colon, 8, NUL>>
    <3>1. 2 \in 1..Len(u.behind) /\ u.behind[2] = Colon /\ Len(u.behind) = 4 /\ u.behind[4] = NUL
      BY <2>2
    <3>2. u.behind \in Seq(Nat) /\ u.behind # <<>>
      BY <2>2 DEF Letter, Colon, NUL
    <3> QED
      BY <3>1, <3>2 DEF NUL
  <2> QED
    BY <1>1, <2>1, <2>2
<1>6. u.slashes \in Nat /\ u.size \in Nat
  BY <1>1
<1> QED
  BY <1>1, <1>2, <1>3, <1>4, <1>5, <1>6, Zenon DEF UrlKnown

(* A URL is decoded to what its characters stand for, as many of them as   *)
(* fit, and refused if one of these is none; and it is split where its     *)
(* parts were put together, or refused if one of them is empty, too long   *)
(* or no port.  Without a colon or a slash behind the host the path that   *)
(* is found is behind the URL.                                             *)
THEOREM UrlsTakenApart == Spec => []UrlTaken
<1>1. ASSUME FormatsInv, job.kind = "url", pc = "done"
      PROVE  UnitsTaken(job.units, job.size, back)
  <2>1. job \in UrlJobs
    BY <1>1, JobsKnown DEF FormatsInv
  <2>2. job.units \in BoundedSeq(GoodUnits \cup BadUnits, 3) /\ job.size \in 0..4
    BY <2>1 DEF UrlJobs
  <2>3. BoundedSeq(GoodUnits \cup BadUnits, 3) \subseteq Seq(GoodUnits \cup BadUnits)
    <3>1. \A S, n : BoundedSeq(S, n) \subseteq Seq(S)
      BY DEF BoundedSeq, SeqOf
    <3> QED
      BY <3>1, Zenon
  <2>4. job.units \in Seq(UrlUnit) /\ job.size \in Nat
    <3>1. job.units \in Seq(UrlUnit)
      BY <2>2, <2>3, Zenon DEF UrlUnit
    <3>2. job.size \in Nat
      BY <2>2
    <3> QED
      BY <3>1, <3>2
  <2>5. text = UnitsUpTo(job.units)[Len(job.units)]
    BY <1>1 DEF FormatsInv, TextOf
  <2>6. back = UrlDecode(job.size, text)
    BY <1>1 DEF FormatsInv, Parsed
  <2> QED
    BY <2>4, <2>5, <2>6, UnitsAreTaken
<1>2. ASSUME FormatsInv, job.kind = "split", pc = "done"
      PROVE  PartsTaken(job, text, back)
  <2>1. UrlKnown(job)
    <3>1. job \in SplitJobs
      BY <1>2, JobsKnown DEF FormatsInv
    <3> QED
      BY <3>1, SplitJobsKnown
  <2>2. text = UrlText(job)
    BY <1>2 DEF FormatsInv, TextOf
  <2>3. back = UrlSplit(text \o <<NUL>> \o job.behind, job.size)
    BY <1>2 DEF FormatsInv, Parsed
  <2> QED
    BY <2>1, <2>2, <2>3, PartsAreTaken
<1>3. FormatsInv => UrlTaken
  BY <1>1, <1>2 DEF UrlTaken
<1> QED
  BY <1>3, FormatsKnown, PTL

-----------------------------------------------------------------------------
(* Paths.                                                                  *)

(* A table of the turns of uri_canonize_path.                              *)
CanonizeTable(g, path, same, l) ==
  g = [k \in 0..l |-> IF k = 0 THEN CanonizeStart(path, same) ELSE CanonizeTurn(path, g[k - 1])]

(* There is one for any number of turns.                                   *)
LEMMA CanonizeTableExists ==
  ASSUME NEW path, NEW same
  PROVE  \A l \in Nat : \E g : CanonizeTable(g, path, same, l)
<1> DEFINE First == CanonizeStart(path, same)
           Step(k, st) == CanonizeTurn(path, st)
           S == {l \in Nat : \E g : CanonizeTable(g, path, same, l)}
<1>0. \A g, l : CanonizeTable(g, path, same, l) <=> g = [k \in 0..l |-> IF k = 0 THEN First ELSE Step(k, g[k - 1])]
  BY Zenon DEF CanonizeTable
<1> HIDE DEF First, Step
<1>1. 0 \in S
  <2>1. [k \in 0..0 |-> First] = [k \in 0..0 |-> IF k = 0 THEN First ELSE Step(k, [i \in 0..0 |-> First][k - 1])]
    OBVIOUS
  <2> QED
    BY <1>0, <2>1
<1>2. ASSUME NEW l \in Nat, l \in S PROVE l + 1 \in S
  <2>1. PICK g : CanonizeTable(g, path, same, l)
    BY <1>2
  <2>2. g = [k \in 0..l |-> IF k = 0 THEN First ELSE Step(k, g[k - 1])]
    BY <1>0, <2>1
  <2> DEFINE h == [k \in 0..(l + 1) |-> IF k = 0 THEN First ELSE Step(k, g[k - 1])]
  <2>3. \A k \in 0..l : h[k] = g[k]
    BY <2>2
  <2>4. h = [k \in 0..(l + 1) |-> IF k = 0 THEN First ELSE Step(k, h[k - 1])]
    <3>1. \A k \in 0..(l + 1) : k # 0 => k - 1 \in 0..l
      OBVIOUS
    <3> QED
      BY <2>3, <3>1
  <2> HIDE DEF h
  <2>5. CanonizeTable(h, path, same, l + 1)
    BY <1>0, <2>4
  <2> QED
    BY <2>5
<1> HIDE DEF S
<1>3. Nat \subseteq S
  BY <1>1, <1>2, SetInduction
<1> QED
  BY <1>3 DEF S

(* So the recursive function is what its equation says.                    *)
LEMMA CanonizeTurnsAre ==
  ASSUME NEW path, NEW same, Len(path) \in Nat
  PROVE  /\ CanonizeTurns(path, same)[0] = CanonizeStart(path, same)
         /\ \A k \in 1..Len(path) : CanonizeTurns(path, same)[k] = CanonizeTurn(path, CanonizeTurns(path, same)[k - 1])
<1> DEFINE t == CanonizeTurns(path, same)
<1>0. Len(path) \in Nat
  OBVIOUS
<1>1. \E g : CanonizeTable(g, path, same, Len(path))
  BY <1>0, CanonizeTableExists
<1>2. CanonizeTable(t, path, same, Len(path))
  BY <1>1, Zenon DEF CanonizeTable, CanonizeTurns
<1> HIDE DEF t
<1>3. 0 \in 0..Len(path) /\ \A k \in 1..Len(path) : k \in 0..Len(path) /\ k # 0
  BY <1>0
<1>4. /\ t[0] = CanonizeStart(path, same)
      /\ \A k \in 1..Len(path) : t[k] = CanonizeTurn(path, t[k - 1])
  BY <1>2, <1>3 DEF CanonizeTable
<1> QED
  BY <1>4 DEF t

(* The same for the components of a path.                                  *)
NormalTable(g, path, l) ==
  g = [k \in 0..l |->
         IF k = 0 THEN [ok |-> TRUE, list |-> <<>>]
         ELSE (IF path[k] # Slash THEN g[k - 1] ELSE Resolved(g[k - 1], ComponentAt(path, k)))]

(* There is such a table, too.                                             *)
LEMMA NormalTableExists ==
  ASSUME NEW path
  PROVE  \A l \in Nat : \E g : NormalTable(g, path, l)
<1> DEFINE First == [ok |-> TRUE, list |-> <<>>]
           Step(k, st) == (IF path[k] # Slash THEN st ELSE Resolved(st, ComponentAt(path, k)))
           S == {l \in Nat : \E g : NormalTable(g, path, l)}
<1>0. \A g, l : NormalTable(g, path, l) <=> g = [k \in 0..l |-> IF k = 0 THEN First ELSE Step(k, g[k - 1])]
  BY Zenon DEF NormalTable
<1> HIDE DEF First, Step
<1>1. 0 \in S
  <2>1. [k \in 0..0 |-> First] = [k \in 0..0 |-> IF k = 0 THEN First ELSE Step(k, [i \in 0..0 |-> First][k - 1])]
    OBVIOUS
  <2> QED
    BY <1>0, <2>1
<1>2. ASSUME NEW l \in Nat, l \in S PROVE l + 1 \in S
  <2>1. PICK g : NormalTable(g, path, l)
    BY <1>2
  <2>2. g = [k \in 0..l |-> IF k = 0 THEN First ELSE Step(k, g[k - 1])]
    BY <1>0, <2>1
  <2> DEFINE h == [k \in 0..(l + 1) |-> IF k = 0 THEN First ELSE Step(k, g[k - 1])]
  <2>3. \A k \in 0..l : h[k] = g[k]
    BY <2>2
  <2>4. h = [k \in 0..(l + 1) |-> IF k = 0 THEN First ELSE Step(k, h[k - 1])]
    <3>1. \A k \in 0..(l + 1) : k # 0 => k - 1 \in 0..l
      OBVIOUS
    <3> QED
      BY <2>3, <3>1
  <2> HIDE DEF h
  <2>5. NormalTable(h, path, l + 1)
    BY <1>0, <2>4
  <2> QED
    BY <2>5
<1> HIDE DEF S
<1>3. Nat \subseteq S
  BY <1>1, <1>2, SetInduction
<1> QED
  BY <1>3 DEF S

(* So this function is what its equation says.                             *)
LEMMA NormalUpToAre ==
  ASSUME NEW path, Len(path) \in Nat
  PROVE  /\ NormalUpTo(path)[0] = [ok |-> TRUE, list |-> <<>>]
         /\ \A k \in 1..Len(path) : NormalUpTo(path)[k] = (IF path[k] # Slash THEN NormalUpTo(path)[k - 1] ELSE Resolved(NormalUpTo(path)[k - 1], ComponentAt(path, k)))
<1> DEFINE t == NormalUpTo(path)
<1>0. Len(path) \in Nat
  OBVIOUS
<1>1. \E g : NormalTable(g, path, Len(path))
  BY <1>0, NormalTableExists
<1>2. NormalTable(t, path, Len(path))
  BY <1>1, Zenon DEF NormalTable, NormalUpTo
<1> HIDE DEF t
<1>3. 0 \in 0..Len(path) /\ \A k \in 1..Len(path) : k \in 0..Len(path) /\ k # 0
  BY <1>0
<1>4. /\ t[0] = [ok |-> TRUE, list |-> <<>>]
      /\ \A k \in 1..Len(path) : t[k] = (IF path[k] # Slash THEN t[k - 1] ELSE Resolved(t[k - 1], ComponentAt(path, k)))
  BY <1>2, <1>3 DEF NormalTable
<1> QED
  BY <1>4 DEF t

(* The same for the text of some components.                               *)
RootedTable(g, list, l) ==
  g = [k \in 0..l |-> IF k = 0 THEN <<>> ELSE (g[k - 1] \o <<Slash>> \o list[k])]

(* There is such a table, too.                                             *)
LEMMA RootedTableExists ==
  ASSUME NEW list
  PROVE  \A l \in Nat : \E g : RootedTable(g, list, l)
<1> DEFINE First == <<>>
           Step(k, st) == (st \o <<Slash>> \o list[k])
           S == {l \in Nat : \E g : RootedTable(g, list, l)}
<1>0. \A g, l : RootedTable(g, list, l) <=> g = [k \in 0..l |-> IF k = 0 THEN First ELSE Step(k, g[k - 1])]
  BY Zenon DEF RootedTable
<1> HIDE DEF First, Step
<1>1. 0 \in S
  <2>1. [k \in 0..0 |-> First] = [k \in 0..0 |-> IF k = 0 THEN First ELSE Step(k, [i \in 0..0 |-> First][k - 1])]
    OBVIOUS
  <2> QED
    BY <1>0, <2>1
<1>2. ASSUME NEW l \in Nat, l \in S PROVE l + 1 \in S
  <2>1. PICK g : RootedTable(g, list, l)
    BY <1>2
  <2>2. g = [k \in 0..l |-> IF k = 0 THEN First ELSE Step(k, g[k - 1])]
    BY <1>0, <2>1
  <2> DEFINE h == [k \in 0..(l + 1) |-> IF k = 0 THEN First ELSE Step(k, g[k - 1])]
  <2>3. \A k \in 0..l : h[k] = g[k]
    BY <2>2
  <2>4. h = [k \in 0..(l + 1) |-> IF k = 0 THEN First ELSE Step(k, h[k - 1])]
    <3>1. \A k \in 0..(l + 1) : k # 0 => k - 1 \in 0..l
      OBVIOUS
    <3> QED
      BY <2>3, <3>1
  <2> HIDE DEF h
  <2>5. RootedTable(h, list, l + 1)
    BY <1>0, <2>4
  <2> QED
    BY <2>5
<1> HIDE DEF S
<1>3. Nat \subseteq S
  BY <1>1, <1>2, SetInduction
<1> QED
  BY <1>3 DEF S

(* So this function is what its equation says.                             *)
LEMMA RootedUpToAre ==
  ASSUME NEW list, Len(list) \in Nat
  PROVE  /\ RootedUpTo(list)[0] = <<>>
         /\ \A k \in 1..Len(list) : RootedUpTo(list)[k] = (RootedUpTo(list)[k - 1] \o <<Slash>> \o list[k])
<1> DEFINE t == RootedUpTo(list)
<1>0. Len(list) \in Nat
  OBVIOUS
<1>1. \E g : RootedTable(g, list, Len(list))
  BY <1>0, RootedTableExists
<1>2. RootedTable(t, list, Len(list))
  BY <1>1, Zenon DEF RootedTable, RootedUpTo
<1> HIDE DEF t
<1>3. 0 \in 0..Len(list) /\ \A k \in 1..Len(list) : k \in 0..Len(list) /\ k # 0
  BY <1>0
<1>4. /\ t[0] = <<>>
      /\ \A k \in 1..Len(list) : t[k] = (t[k - 1] \o <<Slash>> \o list[k])
  BY <1>2, <1>3 DEF RootedTable
<1> QED
  BY <1>4 DEF t

(* The same for a path without slashes behind slashes.                     *)
SqueezedTable(g, path, l) ==
  g = [k \in 0..l |->
         IF k = 0 THEN <<>>
         ELSE (IF path[k] = Slash /\ At(path, k - 1) = Slash THEN g[k - 1] ELSE Append(g[k - 1], path[k]))]

(* There is such a table, too.                                             *)
LEMMA SqueezedTableExists ==
  ASSUME NEW path
  PROVE  \A l \in Nat : \E g : SqueezedTable(g, path, l)
<1> DEFINE First == <<>>
           Step(k, st) == (IF path[k] = Slash /\ At(path, k - 1) = Slash THEN st ELSE Append(st, path[k]))
           S == {l \in Nat : \E g : SqueezedTable(g, path, l)}
<1>0. \A g, l : SqueezedTable(g, path, l) <=> g = [k \in 0..l |-> IF k = 0 THEN First ELSE Step(k, g[k - 1])]
  BY Zenon DEF SqueezedTable
<1> HIDE DEF First, Step
<1>1. 0 \in S
  <2>1. [k \in 0..0 |-> First] = [k \in 0..0 |-> IF k = 0 THEN First ELSE Step(k, [i \in 0..0 |-> First][k - 1])]
    OBVIOUS
  <2> QED
    BY <1>0, <2>1
<1>2. ASSUME NEW l \in Nat, l \in S PROVE l + 1 \in S
  <2>1. PICK g : SqueezedTable(g, path, l)
    BY <1>2
  <2>2. g = [k \in 0..l |-> IF k = 0 THEN First ELSE Step(k, g[k - 1])]
    BY <1>0, <2>1
  <2> DEFINE h == [k \in 0..(l + 1) |-> IF k = 0 THEN First ELSE Step(k, g[k - 1])]
  <2>3. \A k \in 0..l : h[k] = g[k]
    BY <2>2
  <2>4. h = [k \in 0..(l + 1) |-> IF k = 0 THEN First ELSE Step(k, h[k - 1])]
    <3>1. \A k \in 0..(l + 1) : k # 0 => k - 1 \in 0..l
      OBVIOUS
    <3> QED
      BY <2>3, <3>1
  <2> HIDE DEF h
  <2>5. SqueezedTable(h, path, l + 1)
    BY <1>0, <2>4
  <2> QED
    BY <2>5
<1> HIDE DEF S
<1>3. Nat \subseteq S
  BY <1>1, <1>2, SetInduction
<1> QED
  BY <1>3 DEF S

(* So this function is what its equation says.                             *)
LEMMA SqueezedUpToAre ==
  ASSUME NEW path, Len(path) \in Nat
  PROVE  /\ SqueezedUpTo(path)[0] = <<>>
         /\ \A k \in 1..Len(path) : SqueezedUpTo(path)[k] = (IF path[k] = Slash /\ At(path, k - 1) = Slash THEN SqueezedUpTo(path)[k - 1] ELSE Append(SqueezedUpTo(path)[k - 1], path[k]))
<1> DEFINE t == SqueezedUpTo(path)
<1>0. Len(path) \in Nat
  OBVIOUS
<1>1. \E g : SqueezedTable(g, path, Len(path))
  BY <1>0, SqueezedTableExists
<1>2. SqueezedTable(t, path, Len(path))
  BY <1>1, Zenon DEF SqueezedTable, SqueezedUpTo
<1> HIDE DEF t
<1>3. 0 \in 0..Len(path) /\ \A k \in 1..Len(path) : k \in 0..Len(path) /\ k # 0
  BY <1>0
<1>4. /\ t[0] = <<>>
      /\ \A k \in 1..Len(path) : t[k] = (IF path[k] = Slash /\ At(path, k - 1) = Slash THEN t[k - 1] ELSE Append(t[k - 1], path[k]))
  BY <1>2, <1>3 DEF SqueezedTable
<1> QED
  BY <1>4 DEF t

(* A part of a sequence.                                                   *)
LEMMA PartOf ==
  ASSUME NEW C, NEW s \in Seq(C), NEW n \in Nat, n = Len(s), NEW a \in 1..(n + 1), NEW b \in (a - 1)..n
  PROVE  /\ SubSeq(s, a, b) \in Seq(C) /\ Len(SubSeq(s, a, b)) = b - a + 1
         /\ \A i \in 1..(b - a + 1) : SubSeq(s, a, b)[i] = s[a + i - 1]
<1>1. PICK m \in Nat : m = b - a + 1
  <2>1. b - a + 1 \in Nat
    OBVIOUS
  <2> QED
    BY <2>1
<1>2. \A i \in 1..m : a + i - 1 \in 1..n
  BY <1>1
<1>3. \A i \in 1..m : s[a + i - 1] \in C
  BY <1>2
<1>4. SubSeq(s, a, b) = [i \in 1..m |-> s[a + i - 1]]
  BY <1>1, <1>2
<1>5. PICK t : t = [i \in 1..m |-> s[a + i - 1]]
  OBVIOUS
<1>6. t \in Seq(C) /\ Len(t) = m /\ \A i \in 1..m : t[i] = s[a + i - 1]
  BY <1>3, <1>5
<1> QED
  BY <1>1, <1>4, <1>5, <1>6

(* The front of what is put together.                                      *)
LEMMA FrontOfJoined ==
  ASSUME NEW C, NEW a \in Seq(C), NEW b \in Seq(C)
  PROVE  SubSeq(a \o b, 1, Len(a)) = a
<1>1. PICK n \in Nat : n = Len(a)
  OBVIOUS
<1>2. CASE n = 0
  <2>1. a = <<>>
    BY <1>1, <1>2, EmptySeq
  <2>2. SubSeq(a \o b, 1, 0) = <<>>
    BY SubSeqEmpty
  <2> QED
    BY <1>1, <1>2, <2>1, <2>2
<1>3. CASE n # 0
  <2>1. 1 \in 1..Len(a) /\ Len(a) \in 1..Len(a)
    BY <1>1, <1>3
  <2>2. SubSeq(a \o b, 1, Len(a)) = SubSeq(a, 1, Len(a))
    BY <2>1, SubSeqOfConcat1
  <2> QED
    BY <2>2, SubSeqFull
<1> QED
  BY <1>2, <1>3

(* The least and the greatest number of a set.                             *)
LEMMA LeastIs ==
  ASSUME NEW B \in SUBSET Int, NEW m \in B, \A x \in B : m <= x
  PROVE  Min(B) = m
<1>1. \A y \in B : (\A x \in B : y <= x) => y = m
  <2> SUFFICES ASSUME NEW y \in B, \A x \in B : y <= x PROVE y = m
    OBVIOUS
  <2>1. y <= m /\ m <= y /\ y \in Int /\ m \in Int
    OBVIOUS
  <2> QED
    BY <2>1
<1>2. Min(B) \in B /\ \A x \in B : Min(B) <= x
  BY DEF Min
<1> QED
  BY <1>1, <1>2

(* The greatest number of a set.                                           *)
LEMMA GreatestIs ==
  ASSUME NEW B \in SUBSET Int, NEW m \in B, \A x \in B : m >= x
  PROVE  Max(B) = m
<1>1. \A y \in B : (\A x \in B : y >= x) => y = m
  <2> SUFFICES ASSUME NEW y \in B, \A x \in B : y >= x PROVE y = m
    OBVIOUS
  <2>1. y >= m /\ m >= y /\ y \in Int /\ m \in Int
    OBVIOUS
  <2> QED
    BY <2>1
<1>2. Max(B) \in B /\ \A x \in B : Max(B) >= x
  BY DEF Max
<1> QED
  BY <1>1, <1>2

(* What is behind the slash at s and in front of the next one or the end.  *)
IsComponent(path, s, e) ==
  /\ path[s] = Slash /\ \A i \in (s + 1)..e : path[i] # Slash
  /\ e < Len(path) => path[e + 1] = Slash

(* It is the component of the reference.                                   *)
LEMMA ComponentIs ==
  ASSUME NEW path \in Seq(Nat), NEW n \in Nat, n = Len(path), NEW s \in 1..n, NEW e \in s..n,
         IsComponent(path, s, e)
  PROVE  ComponentAt(path, s) = SubSeq(path, s + 1, e)
<1> DEFINE J == {j \in (s + 1)..n : \A i \in (s + 1)..j : path[i] # Slash}
<1>1. \A i \in (s + 1)..e : path[i] # Slash
  BY DEF IsComponent
<1>2. e < n => path[e + 1] = Slash
  BY DEF IsComponent
<1>3. J = (s + 1)..e
  <2>1. ASSUME NEW j \in (s + 1)..e PROVE j \in J
    <3>1. j \in (s + 1)..n /\ \A i \in (s + 1)..j : i \in (s + 1)..e
      BY <2>1
    <3> QED
      BY <1>1, <3>1
  <2>2. ASSUME NEW j \in J, j \notin (s + 1)..e PROVE FALSE
    <3>1. j \in (s + 1)..n /\ j > e
      BY <2>2
    <3>2. e < n /\ e + 1 \in (s + 1)..j
      BY <3>1
    <3>3. path[e + 1] # Slash
      BY <2>2, <3>2
    <3> QED
      BY <1>2, <3>2, <3>3
  <2> QED
    BY <2>1, <2>2
<1>4. Cardinality((s + 1)..e) = e - s
  <2>1. Cardinality((s + 1)..e) = IF s + 1 > e THEN 0 ELSE e - (s + 1) + 1
    BY FS_Interval
  <2> QED
    BY <2>1
<1>5. Cardinality(J) = e - s
  BY <1>3, <1>4
<1>6. ComponentAt(path, s) = SubSeq(path, s + 1, s + Cardinality(J))
  BY DEF ComponentAt
<1> HIDE DEF J
<1>7. s + (e - s) = e
  OBVIOUS
<1> QED
  BY <1>5, <1>6, <1>7

(* Behind every slash there is one, maybe empty.                           *)
LEMMA ComponentEnds ==
  ASSUME NEW path \in Seq(Nat), NEW n \in Nat, n = Len(path), NEW s \in 1..n, path[s] = Slash
  PROVE  \E e \in s..n : IsComponent(path, s, e)
<1> DEFINE B == {e \in s..n : e = n \/ path[e + 1] = Slash}
<1>1. B \in SUBSET Nat /\ n \in B
  OBVIOUS
<1>2. PICK e : e \in B /\ \A x \in B : e <= x
  BY <1>1, LeastOf
<1>3. e \in s..n /\ (e = n \/ path[e + 1] = Slash)
  BY <1>2
<1>4. ASSUME NEW i \in (s + 1)..e, path[i] = Slash PROVE FALSE
  <2>1. i - 1 \in s..n /\ (i - 1) + 1 = i /\ ~(e <= i - 1)
    BY <1>3
  <2>2. i - 1 \in B
    BY <1>4, <2>1
  <2> QED
    BY <1>2, <2>1, <2>2
<1> HIDE DEF B
<1>5. IsComponent(path, s, e)
  BY <1>3, <1>4 DEF IsComponent
<1> QED
  BY <1>3, <1>5

(* Sequences of numbers none of which is a slash.                          *)
Names == {c \in Seq(Nat) : \A i \in 1..Len(c) : c[i] # Slash}

(* Components are such sequences.                                          *)
LEMMA ComponentIsName ==
  ASSUME NEW path \in Seq(Nat), NEW n \in Nat, n = Len(path), NEW s \in 1..n, NEW e \in s..n,
         IsComponent(path, s, e)
  PROVE  /\ SubSeq(path, s + 1, e) \in Names /\ Len(SubSeq(path, s + 1, e)) = e - s
         /\ \A i \in 1..(e - s) : SubSeq(path, s + 1, e)[i] = path[s + i]
<1>1. s + 1 \in 1..(n + 1) /\ e \in ((s + 1) - 1)..n /\ e - (s + 1) + 1 = e - s
  OBVIOUS
<1>2. PICK c \in Seq(Nat) : c = SubSeq(path, s + 1, e) /\ Len(c) = e - s /\ \A i \in 1..(e - s) : c[i] = path[(s + 1) + i - 1]
  <2>1. /\ SubSeq(path, s + 1, e) \in Seq(Nat) /\ Len(SubSeq(path, s + 1, e)) = e - (s + 1) + 1
        /\ \A i \in 1..(e - (s + 1) + 1) : SubSeq(path, s + 1, e)[i] = path[(s + 1) + i - 1]
    BY <1>1, PartOf
  <2> QED
    BY <1>1, <2>1
<1>3. \A i \in 1..(e - s) : (s + 1) + i - 1 = s + i /\ s + i \in (s + 1)..e
  OBVIOUS
<1>4. \A i \in 1..(e - s) : c[i] = path[s + i]
  BY <1>2, <1>3
<1>5. \A i \in 1..(e - s) : path[s + i] # Slash
  BY <1>3 DEF IsComponent
<1>6. c \in Names
  BY <1>2, <1>4, <1>5 DEF Names
<1> QED
  BY <1>2, <1>4, <1>6

(* What is known of the components of the beginning of a path.             *)
Normals == [ok : BOOLEAN, list : Seq(Names)]

(* One component more.                                                     *)
LEMMA ResolvedKnown ==
  ASSUME NEW st \in Normals, NEW c \in Names
  PROVE  Resolved(st, c) \in Normals /\ (~st.ok => ~Resolved(st, c).ok)
<1>1. st.ok \in BOOLEAN /\ st.list \in Seq(Names)
  BY DEF Normals
<1>2. PICK l \in Seq(Names) : l = Append(st.list, c)
  BY <1>1, AppendProperties
<1>3. st.list # <<>> => Front(st.list) \in Seq(Names)
  <2> SUFFICES ASSUME st.list # <<>> PROVE Front(st.list) \in Seq(Names)
    OBVIOUS
  <2>1. PICK n \in Nat : n = Len(st.list)
    BY <1>1
  <2>2. n # 0
    BY <1>1, <2>1, EmptySeq
  <2>3. 1 \in 1..(n + 1) /\ n - 1 \in (1 - 1)..n
    BY <2>2
  <2>4. SubSeq(st.list, 1, n - 1) \in Seq(Names)
    BY <1>1, <2>1, <2>3, PartOf
  <2> QED
    BY <2>1, <2>4 DEF Front
<1>4. CASE ~st.ok \/ c \in {<<>>, <<Dot>>}
  BY <1>4 DEF Resolved
<1>5. CASE ~(~st.ok \/ c \in {<<>>, <<Dot>>}) /\ c # <<Dot, Dot>>
  <2>1. Resolved(st, c) = [st EXCEPT !.list = l]
    BY <1>2, <1>5 DEF Resolved
  <2> QED
    BY <1>2, <1>5, <2>1 DEF Normals
<1>6. CASE ~(~st.ok \/ c \in {<<>>, <<Dot>>}) /\ c = <<Dot, Dot>> /\ st.list = <<>>
  <2>1. Resolved(st, c) = [st EXCEPT !.ok = FALSE]
    BY <1>6 DEF Resolved
  <2> QED
    BY <2>1 DEF Normals
<1>7. CASE ~(~st.ok \/ c \in {<<>>, <<Dot>>}) /\ c = <<Dot, Dot>> /\ st.list # <<>>
  <2>1. PICK f \in Seq(Names) : f = Front(st.list)
    BY <1>3, <1>7
  <2>2. Resolved(st, c) = [st EXCEPT !.list = f]
    BY <1>7, <2>1 DEF Resolved
  <2> QED
    BY <1>7, <2>2 DEF Normals
<1> QED
  BY <1>4, <1>5, <1>6, <1>7

(* The components of the beginning of a path.                              *)
LEMMA NormalKnown ==
  ASSUME NEW path \in Seq(Nat), NEW n \in Nat, n = Len(path)
  PROVE  /\ NormalUpTo(path)[0] = [ok |-> TRUE, list |-> <<>>]
         /\ \A k \in 0..n : NormalUpTo(path)[k] \in Normals
         /\ \A k \in 1..n : path[k] # Slash => NormalUpTo(path)[k] = NormalUpTo(path)[k - 1]
         /\ \A s \in 1..n : \A e \in s..n : IsComponent(path, s, e) =>
              NormalUpTo(path)[s] = Resolved(NormalUpTo(path)[s - 1], SubSeq(path, s + 1, e))
         /\ \A k \in 1..n : ~NormalUpTo(path)[k - 1].ok => ~NormalUpTo(path)[k].ok
<1> DEFINE t == NormalUpTo(path)
           S == {k \in Nat : k <= n => t[k] \in Normals}
<1>1. /\ t[0] = [ok |-> TRUE, list |-> <<>>]
      /\ \A k \in 1..n : t[k] = IF path[k] # Slash THEN t[k - 1] ELSE Resolved(t[k - 1], ComponentAt(path, k))
  BY NormalUpToAre
<1> HIDE DEF t
<1>2. ASSUME NEW k \in 1..n, path[k] = Slash
      PROVE  ComponentAt(path, k) \in Names /\ t[k] = Resolved(t[k - 1], ComponentAt(path, k))
  <2>1. PICK e \in k..n : IsComponent(path, k, e)
    BY <1>2, ComponentEnds
  <2>2. ComponentAt(path, k) = SubSeq(path, k + 1, e)
    BY <2>1, ComponentIs
  <2>3. SubSeq(path, k + 1, e) \in Names
    BY <2>1, ComponentIsName
  <2> QED
    BY <1>1, <1>2, <2>2, <2>3
<1>3. 0 \in S
  <2>1. <<>> \in Seq(Names)
    BY EmptySeq
  <2>2. [ok |-> TRUE, list |-> <<>>] \in Normals
    BY <2>1 DEF Normals
  <2>3. t[0] \in Normals
    BY <1>1, <2>2
  <2> QED
    BY <2>3
<1>4. ASSUME NEW k \in Nat, k \in S PROVE k + 1 \in S
  <2> SUFFICES ASSUME k + 1 <= n PROVE t[k + 1] \in Normals
    BY DEF S
  <2>1. PICK j \in 1..n : j = k + 1 /\ j - 1 = k
    OBVIOUS
  <2>2. t[j - 1] \in Normals
    BY <1>4, <2>1
  <2>3. CASE path[j] # Slash
    BY <1>1, <2>1, <2>2, <2>3
  <2>4. CASE path[j] = Slash
    BY <1>2, <2>1, <2>2, <2>4, ResolvedKnown
  <2> QED
    BY <2>3, <2>4
<1> HIDE DEF S
<1>5. Nat \subseteq S
  BY <1>3, <1>4, SetInduction
<1>6. \A k \in 0..n : t[k] \in Normals
  BY <1>5 DEF S
<1>7. ASSUME NEW s \in 1..n, NEW e \in s..n, IsComponent(path, s, e)
      PROVE  t[s] = Resolved(t[s - 1], SubSeq(path, s + 1, e))
  <2>1. path[s] = Slash
    BY <1>7 DEF IsComponent
  <2>2. ComponentAt(path, s) = SubSeq(path, s + 1, e)
    BY <1>7, ComponentIs
  <2> QED
    BY <1>2, <2>1, <2>2
<1>8. ASSUME NEW k \in 1..n, ~t[k - 1].ok PROVE ~t[k].ok
  <2>1. k - 1 \in 0..n
    OBVIOUS
  <2>2. t[k - 1] \in Normals
    BY <1>6, <2>1
  <2>3. CASE path[k] # Slash
    BY <1>1, <1>8, <2>3
  <2>4. CASE path[k] = Slash
    BY <1>2, <1>8, <2>2, <2>4, ResolvedKnown
  <2> QED
    BY <2>3, <2>4
<1> QED
  BY <1>1, <1>6, <1>7, <1>8 DEF t

(* Between slashes no component begins, and a path that has left its root  *)
(* stays refused.                                                          *)
LEMMA NormalStays ==
  ASSUME NEW path \in Seq(Nat), NEW n \in Nat, n = Len(path), NEW j \in 0..n, NEW k \in j..n
  PROVE  /\ (\A i \in (j + 1)..k : path[i] # Slash) => NormalUpTo(path)[k] = NormalUpTo(path)[j]
         /\ ~NormalUpTo(path)[j].ok => ~NormalUpTo(path)[k].ok
<1> DEFINE t == NormalUpTo(path)
           P(m) == /\ (\A i \in (j + 1)..m : path[i] # Slash) => t[m] = t[j]
                   /\ ~t[j].ok => ~t[m].ok
           S == {d \in Nat : j + d <= n => P(j + d)}
<1>1. /\ \A m \in 1..n : path[m] # Slash => t[m] = t[m - 1]
      /\ \A m \in 1..n : ~t[m - 1].ok => ~t[m].ok
  BY NormalKnown
<1> HIDE DEF t
<1>2. 0 \in S
  <2>1. j + 0 = j
    OBVIOUS
  <2> QED
    BY <2>1
<1>3. ASSUME NEW d \in Nat, d \in S PROVE d + 1 \in S
  <2> SUFFICES ASSUME j + (d + 1) <= n PROVE P(j + (d + 1))
    BY DEF S
  <2>1. PICK m \in 1..n : m = j + (d + 1) /\ m - 1 = j + d /\ j + d <= n
    OBVIOUS
  <2>2. P(m - 1)
    BY <1>3, <2>1
  <2>3. m \in (j + 1)..m /\ \A i \in (j + 1)..(m - 1) : i \in (j + 1)..m
    BY <2>1
  <2>4. P(m)
    BY <1>1, <2>2, <2>3
  <2> QED
    BY <2>1, <2>4
<1> HIDE DEF S, P
<1>4. Nat \subseteq S
  BY <1>2, <1>3, SetInduction
<1>5. k - j \in Nat /\ j + (k - j) = k /\ k <= n
  OBVIOUS
<1>6. P(j + (k - j))
  BY <1>4, <1>5 DEF S
<1>7. P(k)
  BY <1>5, <1>6
<1> QED
  BY <1>7 DEF P, t

(* The text of some components, without any or with one more.              *)
LEMMA RootedKnown ==
  ASSUME NEW list \in Seq(Names)
  PROVE  /\ Rooted(list) \in Seq(Nat)
         /\ \A k \in 0..Len(list) : RootedUpTo(list)[k] \in Seq(Nat)
<1> DEFINE t == RootedUpTo(list)
           S == {k \in Nat : k <= Len(list) => t[k] \in Seq(Nat)}
<1>1. PICK n \in Nat : n = Len(list)
  OBVIOUS
<1>2. t[0] = <<>> /\ \A k \in 1..n : t[k] = t[k - 1] \o <<Slash>> \o list[k]
  BY <1>1, RootedUpToAre
<1> HIDE DEF t
<1>3. 0 \in S
  <2>1. <<>> \in Seq(Nat)
    BY EmptySeq
  <2> QED
    BY <1>2, <2>1
<1>4. ASSUME NEW k \in Nat, k \in S PROVE k + 1 \in S
  <2> SUFFICES ASSUME k + 1 <= n PROVE t[k + 1] \in Seq(Nat)
    BY <1>1 DEF S
  <2>1. PICK j \in 1..n : j = k + 1 /\ j - 1 = k
    OBVIOUS
  <2>2. t[j - 1] \in Seq(Nat)
    BY <1>1, <1>4, <2>1
  <2>3. list[j] \in Seq(Nat)
    <3>1. list[j] \in Names
      BY <1>1
    <3> QED
      BY <3>1 DEF Names
  <2>4. <<Slash>> \in Seq(Nat)
    BY DEF Slash
  <2>5. t[j - 1] \o <<Slash>> \in Seq(Nat)
    BY <2>2, <2>4, ConcatProperties
  <2>6. (t[j - 1] \o <<Slash>>) \o list[j] \in Seq(Nat)
    BY <2>3, <2>5, ConcatProperties
  <2> QED
    BY <1>2, <2>1, <2>6
<1> HIDE DEF S
<1>5. Nat \subseteq S
  BY <1>3, <1>4, SetInduction
<1>6. \A k \in 0..n : t[k] \in Seq(Nat)
  BY <1>1, <1>5 DEF S
<1> QED
  BY <1>1, <1>6 DEF t, Rooted

(* No component has no text.                                               *)
LEMMA RootedNone == Rooted(<<>>) = <<>>
<1>1. Len(<<>>) = 0 /\ 0 \in Nat
  BY EmptySeq
<1>2. RootedUpTo(<<>>)[0] = <<>>
  BY <1>1, RootedUpToAre
<1> QED
  BY <1>1, <1>2 DEF Rooted

(* One more component is put behind the others, with its slash.            *)
LEMMA RootedGrows ==
  ASSUME NEW list \in Seq(Names), NEW c \in Names
  PROVE  Rooted(Append(list, c)) = Rooted(list) \o <<Slash>> \o c
<1>1. PICK n \in Nat : n = Len(list)
  OBVIOUS
<1>2. PICK more \in Seq(Names) : /\ more = Append(list, c) /\ Len(more) = n + 1
                                 /\ \A i \in 1..n : more[i] = list[i]
                                 /\ more[n + 1] = c
  <2>1. /\ Append(list, c) \in Seq(Names) /\ Len(Append(list, c)) = n + 1
        /\ \A i \in 1..n : Append(list, c)[i] = list[i]
        /\ Append(list, c)[n + 1] = c
    BY <1>1, AppendProperties
  <2> QED
    BY <2>1
<1> DEFINE t == RootedUpTo(list)
           u == RootedUpTo(more)
           S == {k \in Nat : k <= n => u[k] = t[k]}
<1>3. t[0] = <<>> /\ \A k \in 1..n : t[k] = t[k - 1] \o <<Slash>> \o list[k]
  BY <1>1, RootedUpToAre
<1>4. u[0] = <<>> /\ \A k \in 1..(n + 1) : u[k] = u[k - 1] \o <<Slash>> \o more[k]
  <2>1. n + 1 \in Nat
    OBVIOUS
  <2> QED
    BY <1>2, <2>1, RootedUpToAre
<1> HIDE DEF t, u
<1>5. 0 \in S
  BY <1>3, <1>4
<1>6. ASSUME NEW k \in Nat, k \in S PROVE k + 1 \in S
  <2> SUFFICES ASSUME k + 1 <= n PROVE u[k + 1] = t[k + 1]
    BY DEF S
  <2>1. PICK j \in 1..n : j = k + 1 /\ j - 1 = k /\ j \in 1..(n + 1)
    OBVIOUS
  <2>2. u[j - 1] = t[j - 1] /\ more[j] = list[j]
    BY <1>2, <1>6, <2>1
  <2> QED
    BY <1>3, <1>4, <2>1, <2>2
<1> HIDE DEF S
<1>7. Nat \subseteq S
  BY <1>5, <1>6, SetInduction
<1>8. u[n] = t[n]
  BY <1>7 DEF S
<1>9. u[n + 1] = t[n] \o <<Slash>> \o c
  <2>1. n + 1 \in 1..(n + 1) /\ (n + 1) - 1 = n
    OBVIOUS
  <2> QED
    BY <1>2, <1>4, <1>8, <2>1
<1>10. Rooted(Append(list, c)) = u[n + 1]
  BY <1>2 DEF Rooted, u
<1>11. Rooted(list) = t[n]
  BY <1>1 DEF Rooted, t
<1> QED
  BY <1>9, <1>10, <1>11

(* What is put together of three parts.                                    *)
LEMMA JoinedInTurn ==
  ASSUME NEW a \in Seq(Nat), NEW b \in Seq(Nat), NEW c \in Seq(Nat)
  PROVE  (a \o b) \o c = a \o (b \o c) /\ b \o c \in Seq(Nat)
<1>1. (a \o b) \o c = a \o (b \o c)
  BY ConcatAssociative
<1>2. b \o c \in Seq(Nat)
  BY ConcatProperties
<1> QED
  BY <1>1, <1>2

(* It does not matter which of three parts are put together first.         *)
Rejoins(a, b, c) == (a \o b) \o c = a \o (b \o c) /\ b \o c \in Seq(Nat)

(* It does not for sequences of numbers.                                   *)
LEMMA PartsRejoin ==
  ASSUME NEW a \in Seq(Nat), NEW b \in Seq(Nat), NEW c \in Seq(Nat)
  PROVE  Rejoins(a, b, c)
BY JoinedInTurn DEF Rejoins

(* It does not matter which of four parts are put together first.          *)
Regroups(h, r, m, c) == h \o ((r \o m) \o c) = (h \o r) \o (m \o c)

(* It does not for sequences of numbers, either.                           *)
LEMMA FourParts ==
  ASSUME NEW h \in Seq(Nat), NEW r \in Seq(Nat), NEW m \in Seq(Nat), NEW c \in Seq(Nat)
  PROVE  Regroups(h, r, m, c)
<1>1. (r \o m) \o c = r \o (m \o c) /\ m \o c \in Seq(Nat)
  BY JoinedInTurn, ZenonT(60)
<1>2. PICK mc \in Seq(Nat) : mc = m \o c
  BY <1>1
<1>3. (h \o r) \o mc = h \o (r \o mc)
  BY JoinedInTurn, SMTT(30)
<1> QED
  BY <1>1, <1>2, <1>3 DEF Regroups

(* What is in front of the first slash.                                    *)
LEMMA HeadKnown ==
  ASSUME NEW path \in Seq(Nat), NEW n \in Nat, n = Len(path)
  PROVE  /\ HeadOf(path) \in Names
         /\ (\A i \in 1..n : path[i] # Slash) => HeadOf(path) = path /\ Slashes(path) = {}
         /\ \A p \in 1..n : path[p] = Slash /\ (\A i \in 1..(p - 1) : path[i] # Slash) =>
              HeadOf(path) = SubSeq(path, 1, p - 1)
<1>1. Slashes(path) = {k \in 1..n : path[k] = Slash}
  BY DEF Slashes
<1>2. ASSUME NEW p \in 1..n, path[p] = Slash, \A i \in 1..(p - 1) : path[i] # Slash
      PROVE  HeadOf(path) = SubSeq(path, 1, p - 1) /\ HeadOf(path) \in Names
  <2>1. p \in Slashes(path) /\ Slashes(path) \in SUBSET Int
    BY <1>1, <1>2
  <2>2. ASSUME NEW x \in Slashes(path) PROVE p <= x
    <3>1. x \in 1..n /\ path[x] = Slash
      BY <1>1
    <3> QED
      BY <1>2, <3>1
  <2>3. Min(Slashes(path)) = p
    BY <2>1, <2>2, LeastIs
  <2>4. HeadOf(path) = SubSeq(path, 1, p - 1)
    BY <2>1, <2>3 DEF HeadOf
  <2>5. 1 \in 1..(n + 1) /\ p - 1 \in (1 - 1)..n /\ (p - 1) - 1 + 1 = p - 1
    OBVIOUS
  <2>6. PICK h \in Seq(Nat) : /\ h = SubSeq(path, 1, p - 1) /\ Len(h) = p - 1
                              /\ \A i \in 1..(p - 1) : h[i] = path[1 + i - 1]
    <3>1. /\ SubSeq(path, 1, p - 1) \in Seq(Nat) /\ Len(SubSeq(path, 1, p - 1)) = (p - 1) - 1 + 1
          /\ \A i \in 1..((p - 1) - 1 + 1) : SubSeq(path, 1, p - 1)[i] = path[1 + i - 1]
      BY <2>5, PartOf
    <3> QED
      BY <2>5, <3>1
  <2>7. \A i \in 1..(p - 1) : h[i] # Slash
    <3>1. \A i \in 1..(p - 1) : 1 + i - 1 = i
      OBVIOUS
    <3> QED
      BY <1>2, <2>6, <3>1
  <2> QED
    BY <2>4, <2>6, <2>7 DEF Names
<1>3. ASSUME \A i \in 1..n : path[i] # Slash
      PROVE  HeadOf(path) = path /\ Slashes(path) = {} /\ HeadOf(path) \in Names
  <2>1. Slashes(path) = {}
    BY <1>1, <1>3
  <2>2. HeadOf(path) = path
    BY <2>1 DEF HeadOf
  <2> QED
    BY <1>3, <2>1, <2>2 DEF Names
<1>4. HeadOf(path) \in Names
  <2>1. CASE \A i \in 1..n : path[i] # Slash
    BY <1>3, <2>1
  <2>2. CASE \E i \in 1..n : path[i] = Slash
    <3>1. Slashes(path) \in SUBSET Nat /\ Slashes(path) # {}
      BY <1>1, <2>2
    <3>2. PICK p : p \in Slashes(path) /\ \A x \in Slashes(path) : p <= x
      BY <3>1, LeastOf
    <3>3. p \in 1..n /\ path[p] = Slash
      BY <1>1, <3>2
    <3>4. ASSUME NEW i \in 1..(p - 1) PROVE path[i] # Slash
      <4>1. i \in 1..n /\ ~(p <= i)
        BY <3>3
      <4> QED
        BY <1>1, <3>2, <4>1
    <3> QED
      BY <1>2, <3>3, <3>4
  <2> QED
    BY <2>1, <2>2
<1> QED
  BY <1>2, <1>3, <1>4

(* The text of the components of the beginning of a path.                  *)
TextUpTo(path, k) == HeadOf(path) \o Rooted(NormalUpTo(path)[k].list)

(* It is a sequence of numbers, without components the head.               *)
LEMMA TextKnown ==
  ASSUME NEW path \in Seq(Nat), NEW n \in Nat, n = Len(path), NEW k \in 0..n
  PROVE  TextUpTo(path, k) \in Seq(Nat) /\ (NormalUpTo(path)[k].list = <<>> => TextUpTo(path, k) = HeadOf(path))
<1>1. NormalUpTo(path)[k] \in Normals
  BY NormalKnown
<1>2. PICK l \in Seq(Names) : l = NormalUpTo(path)[k].list
  BY <1>1 DEF Normals
<1>3. HeadOf(path) \in Seq(Nat)
  BY HeadKnown DEF Names
<1>4. Rooted(l) \in Seq(Nat)
  BY RootedKnown
<1>5. HeadOf(path) \o Rooted(l) \in Seq(Nat)
  BY <1>3, <1>4, ConcatProperties
<1>6. l = <<>> => Rooted(l) = <<>>
  BY RootedNone
<1>7. HeadOf(path) \o <<>> = HeadOf(path)
  BY <1>3, ConcatEmptySeq
<1> QED
  BY <1>2, <1>5, <1>6, <1>7 DEF TextUpTo

(* Up to the first slash it is the path itself.                            *)
LEMMA TextAtHead ==
  ASSUME NEW path \in Seq(Nat), NEW n \in Nat, n = Len(path), NEW p \in 1..n,
         path[p] = Slash, \A i \in 1..(p - 1) : path[i] # Slash
  PROVE  NormalUpTo(path)[p - 1].ok /\ TextUpTo(path, p - 1) = SubSeq(path, 1, p - 1)
<1>1. 0 \in 0..n /\ p - 1 \in 0..n /\ \A i \in (0 + 1)..(p - 1) : i \in 1..(p - 1)
  OBVIOUS
<1>2. NormalUpTo(path)[p - 1] = NormalUpTo(path)[0]
  BY <1>1, NormalStays
<1>3. NormalUpTo(path)[p - 1] = [ok |-> TRUE, list |-> <<>>]
  BY <1>2, NormalKnown
<1>4. TextUpTo(path, p - 1) = HeadOf(path)
  <2>1. NormalUpTo(path)[p - 1].list = <<>>
    BY <1>3
  <2>2. PICK k \in 0..n : k = p - 1
    BY <1>1
  <2>3. TextUpTo(path, k) = HeadOf(path)
    BY <2>1, <2>2, TextKnown
  <2> QED
    BY <2>2, <2>3
<1>5. HeadOf(path) = SubSeq(path, 1, p - 1)
  BY HeadKnown
<1> QED
  BY <1>3, <1>4, <1>5

(* What a component does to the text.                                      *)
LEMMA ComponentNormal ==
  ASSUME NEW path \in Seq(Nat), NEW n \in Nat, n = Len(path), NEW s \in 1..n, NEW e \in s..n,
         IsComponent(path, s, e)
  PROVE  NormalUpTo(path)[e] = Resolved(NormalUpTo(path)[s - 1], SubSeq(path, s + 1, e))
<1>1. NormalUpTo(path)[s] = Resolved(NormalUpTo(path)[s - 1], SubSeq(path, s + 1, e))
  BY NormalKnown
<1>2. s \in 0..n
  OBVIOUS
<1>3. NormalUpTo(path)[e] = NormalUpTo(path)[s]
  BY <1>2, NormalStays DEF IsComponent
<1> QED
  BY <1>1, <1>3

(* A component that is a name is put behind the others.                    *)
LEMMA TextNamed ==
  ASSUME NEW path \in Seq(Nat), NEW n \in Nat, n = Len(path), NEW s \in 1..n, NEW e \in s..n,
         IsComponent(path, s, e), NormalUpTo(path)[s - 1].ok,
         SubSeq(path, s + 1, e) \notin {<<>>, <<Dot>>, <<Dot, Dot>>}
  PROVE  /\ NormalUpTo(path)[e].ok
         /\ TextUpTo(path, e) = TextUpTo(path, s - 1) \o (<<Slash>> \o SubSeq(path, s + 1, e))
<1>1. PICK c \in Names : c = SubSeq(path, s + 1, e)
  BY ComponentIsName
<1>2. s - 1 \in 0..n
  OBVIOUS
<1>3. NormalUpTo(path)[s - 1] \in Normals
  BY <1>2, NormalKnown
<1>4. PICK st \in Normals : st = NormalUpTo(path)[s - 1]
  BY <1>3
<1>5. NormalUpTo(path)[e] = Resolved(st, c)
  BY <1>1, <1>4, ComponentNormal
<1>6. Resolved(st, c) = [st EXCEPT !.list = Append(st.list, c)]
  BY <1>1, <1>4 DEF Resolved
<1>7. PICK l \in Seq(Names) : l = st.list
  BY DEF Normals
<1>8. NormalUpTo(path)[e].ok = st.ok /\ NormalUpTo(path)[e].list = Append(l, c)
  BY <1>5, <1>6, <1>7 DEF Normals
<1>9. Rooted(Append(l, c)) = (Rooted(l) \o <<Slash>>) \o c
  BY RootedGrows
<1>10. HeadOf(path) \in Seq(Nat) /\ Rooted(l) \in Seq(Nat) /\ <<Slash>> \in Seq(Nat) /\ c \in Seq(Nat)
  BY HeadKnown, RootedKnown DEF Names, Slash
<1>11. PICK h \in Seq(Nat), r \in Seq(Nat), m \in Seq(Nat), x \in Seq(Nat) :
         h = HeadOf(path) /\ r = Rooted(l) /\ m = <<Slash>> /\ x = c
  BY <1>10
<1>12. h \o ((r \o m) \o x) = (h \o r) \o (m \o x)
  <2>1. Regroups(h, r, m, x)
    BY FourParts
  <2> QED
    BY <2>1 DEF Regroups
<1>13. TextUpTo(path, e) = HeadOf(path) \o Rooted(Append(l, c))
  BY <1>8 DEF TextUpTo
<1>14. TextUpTo(path, s - 1) = HeadOf(path) \o Rooted(l)
  BY <1>4, <1>7 DEF TextUpTo
<1> QED
  BY <1>1, <1>4, <1>8, <1>9, <1>11, <1>12, <1>13, <1>14

(* An empty one or a dot adds nothing.                                     *)
LEMMA TextSkipped ==
  ASSUME NEW path \in Seq(Nat), NEW n \in Nat, n = Len(path), NEW s \in 1..n, NEW e \in s..n,
         IsComponent(path, s, e), SubSeq(path, s + 1, e) \in {<<>>, <<Dot>>}
  PROVE  NormalUpTo(path)[e] = NormalUpTo(path)[s - 1] /\ TextUpTo(path, e) = TextUpTo(path, s - 1)
<1>1. NormalUpTo(path)[e] = Resolved(NormalUpTo(path)[s - 1], SubSeq(path, s + 1, e))
  BY ComponentNormal
<1>2. NormalUpTo(path)[e] = NormalUpTo(path)[s - 1]
  BY <1>1 DEF Resolved
<1> QED
  BY <1>2 DEF TextUpTo

(* Two dots take the last one away, if there is one.                       *)
LEMMA TextAscended ==
  ASSUME NEW path \in Seq(Nat), NEW n \in Nat, n = Len(path), NEW s \in 1..n, NEW e \in s..n,
         IsComponent(path, s, e), NormalUpTo(path)[s - 1].ok, SubSeq(path, s + 1, e) = <<Dot, Dot>>
  PROVE  \/ ~NormalUpTo(path)[e].ok /\ TextUpTo(path, s - 1) \in Names
         \/ /\ NormalUpTo(path)[e].ok
            /\ \E d \in Names : TextUpTo(path, s - 1) = TextUpTo(path, e) \o (<<Slash>> \o d)
<1>2. s - 1 \in 0..n
  OBVIOUS
<1>3. NormalUpTo(path)[s - 1] \in Normals
  BY <1>2, NormalKnown
<1>4. PICK st \in Normals : st = NormalUpTo(path)[s - 1]
  BY <1>3
<1>5. NormalUpTo(path)[e] = Resolved(st, <<Dot, Dot>>)
  BY <1>4, ComponentNormal
<1>6. <<Dot, Dot>> \notin {<<>>, <<Dot>>}
  OBVIOUS
<1>7. CASE st.list = <<>>
  <2>1. Resolved(st, <<Dot, Dot>>) = [st EXCEPT !.ok = FALSE]
    BY <1>4, <1>6, <1>7 DEF Resolved
  <2>2. ~NormalUpTo(path)[e].ok
    BY <1>5, <2>1 DEF Normals
  <2>3. TextUpTo(path, s - 1) = HeadOf(path)
    BY <1>2, <1>4, <1>7, TextKnown
  <2> QED
    BY <2>2, <2>3, HeadKnown
<1>8. CASE st.list # <<>>
  <2>1. PICK f \in Seq(Names), d \in Names : st.list = Append(f, d)
    <3>1. st.list \in Seq(Names)
      BY DEF Normals
    <3> QED
      BY <1>8, <3>1, SequenceEmptyOrAppend
  <2>2. Front(st.list) = f
    <3>1. Append(f, d) = f \o <<d>> /\ <<d>> \in Seq(Names)
      BY AppendIsConcat
    <3>2. SubSeq(f \o <<d>>, 1, Len(f)) = f
      BY <3>1, FrontOfJoined
    <3>3. Len(Append(f, d)) = Len(f) + 1 /\ Len(f) \in Nat
      BY AppendProperties
    <3>4. Len(Append(f, d)) - 1 = Len(f)
      BY <3>3
    <3> QED
      BY <2>1, <3>1, <3>2, <3>4 DEF Front
  <2>3. Resolved(st, <<Dot, Dot>>) = [st EXCEPT !.list = f]
    BY <1>4, <1>6, <1>8, <2>2 DEF Resolved
  <2>4. NormalUpTo(path)[e].ok /\ NormalUpTo(path)[e].list = f
    BY <1>4, <1>5, <2>3 DEF Normals
  <2>5. Rooted(Append(f, d)) = (Rooted(f) \o <<Slash>>) \o d
    BY RootedGrows
  <2>6. HeadOf(path) \in Seq(Nat) /\ Rooted(f) \in Seq(Nat) /\ <<Slash>> \in Seq(Nat) /\ d \in Seq(Nat)
    BY HeadKnown, RootedKnown DEF Names, Slash
  <2>7. PICK h \in Seq(Nat), r \in Seq(Nat), m \in Seq(Nat), x \in Seq(Nat) :
           h = HeadOf(path) /\ r = Rooted(f) /\ m = <<Slash>> /\ x = d
    BY <2>6
  <2>8. h \o ((r \o m) \o x) = (h \o r) \o (m \o x)
    <3>1. Regroups(h, r, m, x)
      BY FourParts
    <3> QED
      BY <3>1 DEF Regroups
  <2>9. TextUpTo(path, s - 1) = HeadOf(path) \o Rooted(Append(f, d))
    BY <1>4, <2>1 DEF TextUpTo
  <2>10. TextUpTo(path, e) = HeadOf(path) \o Rooted(f)
    BY <2>4 DEF TextUpTo
  <2> QED
    BY <2>4, <2>5, <2>7, <2>8, <2>9, <2>10
<1> QED
  BY <1>7, <1>8

(* The locals of uri_canonize_path that are seen behind its stores.        *)
CanonizeLocals(same, inner, p, q, dst) ==
  [ok |-> TRUE, same |-> same, inner |-> inner, p |-> p, q |-> q, dst |-> dst]

(* q is not in front of p: what is read has not been overwritten.          *)
Unread(path, same, p, q, dst) ==
  /\ 1 <= q /\ q <= p /\ p <= Len(path) + 1 /\ q <= Len(dst) + 1
  /\ same => Len(dst) = Len(path) /\ \A k \in p..Len(path) : dst[k] = path[k]

(* So what is read at p and behind it is the path.                         *)
LEMMA ReadsPath ==
  ASSUME NEW path \in Seq(Nat), NEW n \in Nat, n = Len(path), NEW same \in BOOLEAN, NEW inner \in BOOLEAN,
         NEW p \in Nat, NEW q \in Nat, NEW dst \in Seq(Nat), Unread(path, same, p, q, dst)
  PROVE  \A k \in Nat : k >= p => CharAt(path, CanonizeLocals(same, inner, p, q, dst), k) = At(path, k)
<1> SUFFICES ASSUME NEW k \in Nat, k >= p
             PROVE  CharAt(path, CanonizeLocals(same, inner, p, q, dst), k) = At(path, k)
  OBVIOUS
<1>1. CASE ~same
  BY <1>1 DEF CharAt, CanonizeLocals
<1>2. CASE same
  <2>1. CharAt(path, CanonizeLocals(same, inner, p, q, dst), k) = At(dst, k)
    BY <1>2 DEF CharAt, CanonizeLocals
  <2>2. Len(dst) = n /\ \A i \in p..n : dst[i] = path[i]
    BY <1>2 DEF Unread
  <2>3. k \in 1..n => k \in p..n
    OBVIOUS
  <2> QED
    BY <2>1, <2>2, <2>3 DEF At
<1> QED
  BY <1>1, <1>2

(* The character at p is stored at q.                                      *)
StoredAs(path, same, inner, p, q, dst, d) ==
  /\ Store(CanonizeLocals(same, inner, p, q, dst), path[p]) = CanonizeLocals(same, inner, p, q, d)
  /\ Unread(path, same, p, q, d) /\ q <= Len(d) /\ d[q] = path[p]
  /\ SubSeq(d, 1, q - 1) = SubSeq(dst, 1, q - 1)
  /\ SubSeq(d, 1, q) = SubSeq(dst, 1, q - 1) \o <<path[p]>>

(* There is room for it, and nothing that will be read is overwritten.     *)
LEMMA StoresChar ==
  ASSUME NEW path \in Seq(Nat), NEW n \in Nat, n = Len(path), NEW same \in BOOLEAN, NEW inner \in BOOLEAN,
         NEW p \in 1..n, NEW q \in Nat, NEW dst \in Seq(Nat), Unread(path, same, p, q, dst)
  PROVE  \E d \in Seq(Nat) : StoredAs(path, same, inner, p, q, dst, d)
<1>0. PICK l \in Nat : l = Len(dst)
  OBVIOUS
<1>1. q \in 1..(l + 1) /\ q <= p /\ path[p] \in Nat
  BY <1>0 DEF Unread
<1>2. PICK c \in Nat : c = path[p]
  BY <1>1
<1>3. PICK m \in Nat : m = Max({q, l}) /\ m = IF q >= l THEN q ELSE l
  <2>1. q \in Int /\ l \in Int
    OBVIOUS
  <2>2. Max({q, l}) = IF q >= l THEN q ELSE l
    BY <2>1, MaxOfTwo
  <2>3. (IF q >= l THEN q ELSE l) \in Nat
    OBVIOUS
  <2> QED
    BY <2>2, <2>3
<1>4. PICK d : d = [k \in 1..m |-> IF k = q THEN c ELSE dst[k]]
  OBVIOUS
<1>5. ASSUME NEW k \in 1..m PROVE (IF k = q THEN c ELSE dst[k]) \in Nat
  <2>1. k # q => k \in 1..l
    BY <1>1, <1>3
  <2> QED
    BY <1>0, <2>1
<1>6. d \in Seq(Nat) /\ Len(d) = m
  BY <1>4, <1>5
<1>7. Store(CanonizeLocals(same, inner, p, q, dst), c) = CanonizeLocals(same, inner, p, q, d)
  <2>1. Store(CanonizeLocals(same, inner, p, q, dst), c) =
          [CanonizeLocals(same, inner, p, q, dst) EXCEPT !.dst = [k \in 1..Max({q, Len(dst)}) |-> IF k = q THEN c ELSE dst[k]]]
    BY DEF Store, CanonizeLocals
  <2>2. d = [k \in 1..Max({q, Len(dst)}) |-> IF k = q THEN c ELSE dst[k]]
    BY <1>0, <1>3, <1>4
  <2>3. Store(CanonizeLocals(same, inner, p, q, dst), c) = [CanonizeLocals(same, inner, p, q, dst) EXCEPT !.dst = d]
    BY <2>1, <2>2
  <2> QED
    BY <2>3 DEF CanonizeLocals
<1>8. q \in 1..m /\ d[q] = c /\ \A k \in 1..m : k # q => d[k] = dst[k]
  <2>1. q \in 1..m
    BY <1>1, <1>3
  <2> QED
    BY <1>4, <2>1
<1>9. Unread(path, same, p, q, d)
  <2>1. p <= n + 1 /\ (same => l = n /\ \A k \in p..n : dst[k] = path[k])
    BY <1>0 DEF Unread
  <2>2. ASSUME same PROVE m = n /\ \A k \in p..n : d[k] = path[k]
    <3>1. m = n
      BY <1>1, <1>3, <2>1, <2>2
    <3>2. ASSUME NEW k \in p..n PROVE d[k] = path[k]
      <4>1. k \in 1..m /\ dst[k] = path[k]
        BY <2>1, <2>2, <3>1
      <4>2. k = q => k = p
        BY <1>1
      <4> QED
        BY <1>2, <1>8, <4>1, <4>2
    <3> QED
      BY <3>1, <3>2
  <2>3. 1 <= q /\ q <= p /\ p <= Len(path) + 1 /\ q <= Len(d) + 1
    BY <1>1, <1>6, <1>8, <2>1
  <2>4. same => Len(d) = Len(path) /\ \A k \in p..Len(path) : d[k] = path[k]
    BY <1>6, <2>2
  <2> QED
    BY <2>3, <2>4 DEF Unread
<1>10. SubSeq(d, 1, q - 1) = SubSeq(dst, 1, q - 1)
  <2>1. 1 \in 1..(m + 1) /\ 1 \in 1..(l + 1) /\ q - 1 \in (1 - 1)..m /\ q - 1 \in (1 - 1)..l /\ (q - 1) - 1 + 1 = q - 1
    BY <1>1, <1>8
  <2>2. /\ SubSeq(d, 1, q - 1) \in Seq(Nat) /\ Len(SubSeq(d, 1, q - 1)) = (q - 1) - 1 + 1
        /\ \A i \in 1..((q - 1) - 1 + 1) : SubSeq(d, 1, q - 1)[i] = d[1 + i - 1]
    BY <1>6, <2>1, PartOf
  <2>3. /\ SubSeq(dst, 1, q - 1) \in Seq(Nat) /\ Len(SubSeq(dst, 1, q - 1)) = (q - 1) - 1 + 1
        /\ \A i \in 1..((q - 1) - 1 + 1) : SubSeq(dst, 1, q - 1)[i] = dst[1 + i - 1]
    BY <1>0, <2>1, PartOf
  <2>4. PICK a \in Seq(Nat), b \in Seq(Nat) : a = SubSeq(d, 1, q - 1) /\ b = SubSeq(dst, 1, q - 1)
    BY <2>2, <2>3
  <2>5. Len(a) = q - 1 /\ Len(b) = q - 1 /\ (\A i \in 1..(q - 1) : a[i] = d[1 + i - 1] /\ b[i] = dst[1 + i - 1])
    BY <2>1, <2>2, <2>3, <2>4
  <2>6. \A i \in 1..(q - 1) : 1 + i - 1 = i /\ i \in 1..m /\ i # q
    BY <1>8
  <2>7. \A i \in 1..(q - 1) : a[i] = b[i]
    BY <1>8, <2>5, <2>6
  <2>8. a = b
    BY <2>5, <2>7, SeqEqual
  <2> QED
    BY <2>4, <2>8
<1>11. SubSeq(d, 1, q) = SubSeq(d, 1, q - 1) \o <<d[q]>>
  <2>1. 1 \in 1..Len(d) /\ q \in 1..Len(d)
    BY <1>6, <1>8
  <2> QED
    BY <1>6, <2>1, SubSeqRecursiveSecond
<1>12. q <= Len(d) /\ d[q] = path[p]
  BY <1>2, <1>6, <1>8
<1>13. SubSeq(d, 1, q) = SubSeq(dst, 1, q - 1) \o <<path[p]>>
  BY <1>10, <1>11, <1>12
<1>14. Store(CanonizeLocals(same, inner, p, q, dst), path[p]) = CanonizeLocals(same, inner, p, q, d)
  BY <1>2, <1>7
<1>15. StoredAs(path, same, inner, p, q, dst, d)
  BY <1>9, <1>10, <1>12, <1>13, <1>14 DEF StoredAs
<1> QED
  BY <1>6, <1>15

(* Where p is in the path, and what is stored in front of q.               *)
AtSlash(path, p, out) ==
  /\ p \in 1..Len(path) /\ path[p] = Slash
  /\ NormalUpTo(path)[p - 1].ok /\ out = TextUpTo(path, p - 1)

(* In front of the first slash.                                            *)
BeforeSlashes(path, p, out) ==
  (\A i \in 1..(p - 1) : path[i] # Slash) /\ out = SubSeq(path, 1, p - 1)

(* Behind the slash at s, in a component that stays, or at the end behind  *)
(* one that does not.                                                      *)
Staying(path, s) ==
  \A e \in s..Len(path) :
    IsComponent(path, s, e) => SubSeq(path, s + 1, e) \notin {<<>>, <<Dot>>, <<Dot, Dot>>}

(* In a component that stays.                                              *)
InComponent(path, s, p, out) ==
  Staying(path, s) /\ out = TextUpTo(path, s - 1) \o (<<Slash>> \o SubSeq(path, s + 1, p - 1))

(* At the end, behind a last component that is empty or a dot.             *)
AtLastSlash(path, s, p, out) ==
  /\ p = Len(path) + 1 /\ SubSeq(path, s + 1, Len(path)) \in {<<>>, <<Dot>>}
  /\ out = TextUpTo(path, s - 1) \o <<Slash>>

(* The last slash in front of p is the one at s.                           *)
BehindSlash(path, s, p) ==
  /\ s \in 1..Len(path) /\ s < p /\ path[s] = Slash /\ NormalUpTo(path)[s - 1].ok
  /\ \A i \in (s + 1)..(p - 1) : path[i] # Slash

(* Behind some slash.                                                      *)
BehindSlashes(path, p, out) ==
  \E s \in 1..Len(path) :
    BehindSlash(path, s, p) /\ (InComponent(path, s, p, out) \/ AtLastSlash(path, s, p, out))

(* A character that is no slash is kept.                                   *)
LEMMA BeforeGrows ==
  ASSUME NEW path \in Seq(Nat), NEW n \in Nat, n = Len(path), NEW p \in 1..n, path[p] # Slash,
         NEW out \in Seq(Nat), BeforeSlashes(path, p, out)
  PROVE  BeforeSlashes(path, p + 1, out \o <<path[p]>>)
<1>1. 1 \in 1..Len(path) /\ p \in 1..Len(path)
  OBVIOUS
<1>2. SubSeq(path, 1, p) = SubSeq(path, 1, p - 1) \o <<path[p]>>
  BY <1>1, SubSeqRecursiveSecond
<1>3. (p + 1) - 1 = p /\ \A i \in 1..p : i = p \/ i \in 1..(p - 1)
  OBVIOUS
<1> QED
  BY <1>2, <1>3 DEF BeforeSlashes

(* Behind a slash it becomes a part of the component.                      *)
LEMMA BehindGrows ==
  ASSUME NEW path \in Seq(Nat), NEW n \in Nat, n = Len(path), NEW p \in 1..n, path[p] # Slash,
         NEW out \in Seq(Nat), BehindSlashes(path, p, out)
  PROVE  BehindSlashes(path, p + 1, out \o <<path[p]>>)
<1>1. PICK s \in 1..n : BehindSlash(path, s, p) /\ (InComponent(path, s, p, out) \/ AtLastSlash(path, s, p, out))
  BY DEF BehindSlashes
<1>2. ~AtLastSlash(path, s, p, out)
  BY DEF AtLastSlash
<1>3. InComponent(path, s, p, out)
  BY <1>1, <1>2
<1>4. s < p /\ path[s] = Slash /\ NormalUpTo(path)[s - 1].ok /\ \A i \in (s + 1)..(p - 1) : path[i] # Slash
  BY <1>1 DEF BehindSlash
<1>5. (p + 1) - 1 = p /\ s < p + 1 /\ \A i \in (s + 1)..p : i = p \/ i \in (s + 1)..(p - 1)
  BY <1>4
<1>6. BehindSlash(path, s, p + 1)
  BY <1>4, <1>5 DEF BehindSlash
<1>7. s + 1 \in 1..Len(path) /\ p \in (s + 1)..Len(path)
  BY <1>4
<1>8. SubSeq(path, s + 1, p) = SubSeq(path, s + 1, p - 1) \o <<path[p]>>
  BY <1>7, SubSeqRecursiveSecond
<1>9. TextUpTo(path, s - 1) \in Seq(Nat)
  <2>1. PICK k \in 0..n : k = s - 1
    OBVIOUS
  <2> QED
    BY <2>1, TextKnown
<1>10. SubSeq(path, s + 1, p - 1) \in Seq(Nat)
  <2>1. s + 1 \in 1..(n + 1) /\ p - 1 \in ((s + 1) - 1)..n
    BY <1>4
  <2> QED
    BY <2>1, PartOf
<1>11. PICK h \in Seq(Nat), m \in Seq(Nat), r \in Seq(Nat), c \in Seq(Nat) :
         h = TextUpTo(path, s - 1) /\ m = <<Slash>> /\ r = SubSeq(path, s + 1, p - 1) /\ c = <<path[p]>>
  <2>1. <<Slash>> \in Seq(Nat) /\ <<path[p]>> \in Seq(Nat)
    BY DEF Slash
  <2> QED
    BY <1>9, <1>10, <2>1
<1>12. out = h \o (m \o r)
  BY <1>3, <1>11 DEF InComponent
<1>13. (h \o (m \o r)) \o c = h \o (m \o (r \o c))
  <2>1. PICK mr \in Seq(Nat) : mr = m \o r
    BY JoinedInTurn
  <2>2. Rejoins(m, r, c) /\ Rejoins(h, mr, c)
    BY PartsRejoin
  <2> QED
    BY <2>1, <2>2 DEF Rejoins
<1>14. out \o <<path[p]>> = TextUpTo(path, s - 1) \o (<<Slash>> \o SubSeq(path, s + 1, p))
  BY <1>8, <1>11, <1>12, <1>13
<1>15. InComponent(path, s, p + 1, out \o <<path[p]>>)
  BY <1>3, <1>5, <1>14 DEF InComponent
<1> QED
  BY <1>6, <1>15 DEF BehindSlashes

(* Where there is a slash, what is in front of it is done.                 *)
LEMMA BecomesAtSlash ==
  ASSUME NEW path \in Seq(Nat), NEW n \in Nat, n = Len(path), NEW p \in 1..n, path[p] = Slash,
         NEW out, BeforeSlashes(path, p, out) \/ BehindSlashes(path, p, out)
  PROVE  AtSlash(path, p, out)
<1>1. CASE BeforeSlashes(path, p, out)
  <2>1. (\A i \in 1..(p - 1) : path[i] # Slash) /\ out = SubSeq(path, 1, p - 1)
    BY <1>1 DEF BeforeSlashes
  <2>2. NormalUpTo(path)[p - 1].ok /\ TextUpTo(path, p - 1) = SubSeq(path, 1, p - 1)
    BY <2>1, TextAtHead
  <2> QED
    BY <2>1, <2>2 DEF AtSlash
<1>2. CASE BehindSlashes(path, p, out)
  <2>1. PICK s \in 1..n : BehindSlash(path, s, p) /\ (InComponent(path, s, p, out) \/ AtLastSlash(path, s, p, out))
    BY <1>2 DEF BehindSlashes
  <2>2. InComponent(path, s, p, out)
    BY <2>1 DEF AtLastSlash
  <2>3. s < p /\ path[s] = Slash /\ NormalUpTo(path)[s - 1].ok /\ \A i \in (s + 1)..(p - 1) : path[i] # Slash
    BY <2>1 DEF BehindSlash
  <2>4. PICK e \in s..n : e = p - 1 /\ e + 1 = p
    BY <2>3
  <2>5. IsComponent(path, s, e)
    BY <2>3, <2>4 DEF IsComponent
  <2>6. SubSeq(path, s + 1, e) \notin {<<>>, <<Dot>>, <<Dot, Dot>>}
    BY <2>2, <2>5 DEF InComponent, Staying
  <2>7. NormalUpTo(path)[e].ok /\ TextUpTo(path, e) = TextUpTo(path, s - 1) \o (<<Slash>> \o SubSeq(path, s + 1, e))
    BY <2>3, <2>5, <2>6, TextNamed
  <2>8. out = TextUpTo(path, s - 1) \o (<<Slash>> \o SubSeq(path, s + 1, e))
    BY <2>2, <2>4 DEF InComponent
  <2> QED
    BY <2>4, <2>7, <2>8 DEF AtSlash
<1> QED
  BY <1>1, <1>2

(* Slashes behind a slash add nothing.                                     *)
LEMMA SlashesSkipped ==
  ASSUME NEW path \in Seq(Nat), NEW n \in Nat, n = Len(path), NEW p \in 1..n, NEW l \in p..n,
         \A i \in (p + 1)..l : path[i] = Slash, NEW out, AtSlash(path, p, out)
  PROVE  AtSlash(path, l, out)
<1> DEFINE S == {d \in Nat : p + d <= l => AtSlash(path, p + d, out)}
<1>1. 0 \in S
  <2>1. p + 0 = p
    OBVIOUS
  <2> QED
    BY <2>1
<1>2. ASSUME NEW d \in Nat, d \in S PROVE d + 1 \in S
  <2> SUFFICES ASSUME p + (d + 1) <= l PROVE AtSlash(path, p + (d + 1), out)
    BY DEF S
  <2>1. PICK s \in 1..n : s = p + d /\ s + 1 = p + (d + 1) /\ s + 1 \in (p + 1)..l /\ s + 1 <= n
    <3>1. p + d \in 1..n /\ (p + d) + 1 = p + (d + 1) /\ (p + d) + 1 \in (p + 1)..l /\ (p + d) + 1 <= n
      OBVIOUS
    <3> QED
      BY <3>1
  <2>2. AtSlash(path, s, out)
    BY <1>2, <2>1
  <2>3. path[s] = Slash /\ path[s + 1] = Slash /\ NormalUpTo(path)[s - 1].ok /\ out = TextUpTo(path, s - 1)
    BY <2>1, <2>2 DEF AtSlash
  <2>4. s \in s..n /\ IsComponent(path, s, s)
    BY <2>3 DEF IsComponent
  <2>5. SubSeq(path, s + 1, s) = <<>>
    BY SubSeqEmpty
  <2>6. NormalUpTo(path)[s] = NormalUpTo(path)[s - 1] /\ TextUpTo(path, s) = TextUpTo(path, s - 1)
    BY <2>4, <2>5, TextSkipped
  <2>7. (s + 1) - 1 = s /\ s + 1 \in 1..n
    BY <2>1
  <2> QED
    BY <2>1, <2>3, <2>6, <2>7 DEF AtSlash
<1> HIDE DEF S
<1>3. Nat \subseteq S
  BY <1>1, <1>2, SetInduction
<1>4. l - p \in Nat /\ p + (l - p) = l
  OBVIOUS
<1>5. p + (l - p) <= l => AtSlash(path, p + (l - p), out)
  BY <1>3, <1>4 DEF S
<1> QED
  BY <1>4, <1>5

(* Between two turns.                                                      *)
GoesOn(path, same, inner, p, q, dst) ==
  /\ Unread(path, same, p, q, dst)
  /\ inner => AtSlash(path, p, SubSeq(dst, 1, q - 1))
  /\ ~inner => \/ BeforeSlashes(path, p, SubSeq(dst, 1, q - 1))
               \/ BehindSlashes(path, p, SubSeq(dst, 1, q - 1))

(* The locals st are such ones, and p has come to m.                       *)
CanonizedTo(path, st, m) ==
  \E same \in BOOLEAN, inner \in BOOLEAN, p \in Nat, q \in Nat, dst \in Seq(Nat) :
    st = CanonizeLocals(same, inner, p, q, dst) /\ m <= p /\ GoesOn(path, same, inner, p, q, dst)

(* The paths that are refused.                                             *)
LeavesRoot(path) == ~Normal(path).ok \/ EndsWith(path, {<<Dot, Dot>>})

(* The inductive invariant of the turns.                                   *)
Canonized(path, st, m) == CanonizedTo(path, st, m) \/ (~st.ok /\ LeavesRoot(path))

(* What has come to m has come to what is in front of m.                   *)
LEMMA CanonizedBefore ==
  ASSUME NEW path, NEW st, NEW m \in Nat, NEW k \in Nat, k <= m, CanonizedTo(path, st, m)
  PROVE  CanonizedTo(path, st, k)
<1>1. PICK same \in BOOLEAN, inner \in BOOLEAN, p \in Nat, q \in Nat, dst \in Seq(Nat) :
        st = CanonizeLocals(same, inner, p, q, dst) /\ m <= p /\ GoesOn(path, same, inner, p, q, dst)
  BY DEF CanonizedTo
<1>2. k <= p
  BY <1>1
<1> QED
  BY <1>1, <1>2 DEF CanonizedTo

(* There is only one next slash.                                           *)
LEMMA OneComponent ==
  ASSUME NEW path \in Seq(Nat), NEW n \in Nat, n = Len(path), NEW s \in 1..n, NEW e \in s..n, NEW f \in s..n,
         IsComponent(path, s, e), IsComponent(path, s, f)
  PROVE  e = f
<1>1. ASSUME NEW a \in s..n, NEW b \in s..n, IsComponent(path, s, a), IsComponent(path, s, b), a < b PROVE FALSE
  <2>1. a < n /\ a + 1 \in (s + 1)..b
    BY <1>1
  <2>2. path[a + 1] = Slash
    BY <1>1, <2>1 DEF IsComponent
  <2>3. path[a + 1] # Slash
    BY <1>1, <2>1 DEF IsComponent
  <2> QED
    BY <2>2, <2>3
<1>2. ~(e < f) /\ ~(f < e)
  BY <1>1
<1> QED
  BY <1>2

(* What is stored, with the slash at q.                                    *)
LEMMA SlashStored ==
  ASSUME NEW dst \in Seq(Nat), NEW q \in Nat, 1 <= q, q <= Len(dst), dst[q] = Slash
  PROVE  SubSeq(dst, 1, (q + 1) - 1) = SubSeq(dst, 1, q - 1) \o <<Slash>>
<1>1. 1 \in 1..Len(dst) /\ q \in 1..Len(dst) /\ (q + 1) - 1 = q
  OBVIOUS
<1>2. SubSeq(dst, 1, q) = SubSeq(dst, 1, q - 1) \o <<dst[q]>>
  BY <1>1, SubSeqRecursiveSecond
<1> QED
  BY <1>1, <1>2

(* p is at the last of some slashes, q where the next one was stored.      *)
SlashTaken(path, same, p, q, dst) ==
  /\ Unread(path, same, p, q, dst) /\ q <= Len(dst) /\ dst[q] = Slash
  /\ AtSlash(path, p, SubSeq(dst, 1, q - 1))

(* inner is set.                                                           *)
SetsInner(same, inner, p, q, dst, x) ==
  [CanonizeLocals(same, inner, p, q, dst) EXCEPT !.inner = x] = CanonizeLocals(same, x, p, q, dst)

(* Nothing else is.                                                        *)
LEMMA InnerSet ==
  ASSUME NEW same, NEW inner, NEW p, NEW q, NEW dst, NEW x
  PROVE  SetsInner(same, inner, p, q, dst, x)
<1>0. PICK st : st = CanonizeLocals(same, inner, p, q, dst)
  OBVIOUS
<1>1. PICK new : new = [st EXCEPT !.inner = x]
  OBVIOUS
<1>2. DOMAIN new = DOMAIN st
  BY <1>1
<1>3. new.ok = st.ok /\ new.same = st.same /\ new.p = st.p /\ new.q = st.q /\ new.dst = st.dst
  BY <1>1
<1>4. new.inner = x
  BY <1>0, <1>1 DEF CanonizeLocals
<1>5. new = [f \in DOMAIN st |-> IF f = "inner" THEN x ELSE st[f]]
  BY <1>1
<1>6. new = CanonizeLocals(same, x, p, q, dst)
  BY <1>0, <1>1, <1>2, <1>3, <1>4, <1>5 DEF CanonizeLocals
<1> QED
  BY <1>0, <1>1, <1>6 DEF SetsInner

(* What the outer loop does behind the turn.                               *)
OnwardsIs(path, same, inner, p, q, dst) ==
  /\ Onwards(CanonizeLocals(same, inner, p, q, dst)) = CanonizeLocals(same, FALSE, p + 1, q + 1, dst)
  /\ Unread(path, same, p + 1, q + 1, dst)

(* Both pointers go on, and p is not passed by q.                          *)
LEMMA UnreadOnwards ==
  ASSUME NEW path \in Seq(Nat), NEW same \in BOOLEAN, NEW inner \in BOOLEAN, NEW p \in Nat, NEW q \in Nat,
         NEW dst \in Seq(Nat), Unread(path, same, p, q, dst), q <= Len(dst), p <= Len(path)
  PROVE  OnwardsIs(path, same, inner, p, q, dst)
<1>1. Onwards(CanonizeLocals(same, inner, p, q, dst)) = CanonizeLocals(same, FALSE, p + 1, q + 1, dst)
  <2>1. PICK a \in Nat, b \in Nat : a = p + 1 /\ b = q + 1
    OBVIOUS
  <2>2. CanonizeLocals(same, inner, p, q, dst).p = p /\ CanonizeLocals(same, inner, p, q, dst).q = q
    BY DEF CanonizeLocals
  <2>3. Onwards(CanonizeLocals(same, inner, p, q, dst)) =
          [CanonizeLocals(same, inner, p, q, dst) EXCEPT !.p = a, !.q = b, !.inner = FALSE]
    BY <2>1, <2>2 DEF Onwards
  <2>4. [CanonizeLocals(same, inner, p, q, dst) EXCEPT !.p = a, !.q = b, !.inner = FALSE]
          = CanonizeLocals(same, FALSE, a, b, dst)
    <3>1. PICK mid : mid = [CanonizeLocals(same, inner, p, q, dst) EXCEPT !.p = a]
      OBVIOUS
    <3>2. mid = CanonizeLocals(same, inner, a, q, dst)
      BY <3>1 DEF CanonizeLocals
    <3>3. PICK high : high = [mid EXCEPT !.q = b]
      OBVIOUS
    <3>4. high = CanonizeLocals(same, inner, a, b, dst)
      BY <3>2, <3>3 DEF CanonizeLocals
    <3>5. SetsInner(same, inner, a, b, dst, FALSE)
      BY InnerSet
    <3>6. [CanonizeLocals(same, inner, a, b, dst) EXCEPT !.inner = FALSE] = CanonizeLocals(same, FALSE, a, b, dst)
      BY <3>5 DEF SetsInner
    <3> QED
      BY <3>1, <3>3, <3>4, <3>6
  <2> QED
    BY <2>1, <2>3, <2>4
<1>2. PICK n \in Nat, l \in Nat : n = Len(path) /\ l = Len(dst)
  OBVIOUS
<1>3. 1 <= q /\ q <= p /\ p <= n + 1 /\ q <= l /\ p <= n /\ (same => l = n /\ \A k \in p..n : dst[k] = path[k])
  BY <1>2 DEF Unread
<1>4. 1 <= q + 1 /\ q + 1 <= p + 1 /\ p + 1 <= n + 1 /\ q + 1 <= l + 1 /\ \A k \in (p + 1)..n : k \in p..n
  BY <1>3
<1>5. Unread(path, same, p + 1, q + 1, dst)
  BY <1>2, <1>3, <1>4 DEF Unread
<1> QED
  BY <1>1, <1>5 DEF OnwardsIs

(* A component that is not a dot or two begins.                            *)
LEMMA ComponentBegins ==
  ASSUME NEW path \in Seq(Nat), NEW n \in Nat, n = Len(path), NEW s \in 1..n, NEW e \in s..n,
         IsComponent(path, s, e), SubSeq(path, s + 1, e) \notin {<<Dot>>, <<Dot, Dot>>}, At(path, s + 1) # Slash,
         NEW out, AtSlash(path, s, out)
  PROVE  BehindSlashes(path, s + 1, out \o <<Slash>>)
<1>1. path[s] = Slash /\ NormalUpTo(path)[s - 1].ok /\ out = TextUpTo(path, s - 1)
  BY DEF AtSlash
<1>2. (s + 1) - 1 = s /\ s < s + 1 /\ (s + 1)..s = {}
  OBVIOUS
<1>3. BehindSlash(path, s, s + 1)
  BY <1>1, <1>2 DEF BehindSlash
<1>4. CASE SubSeq(path, s + 1, e) = <<>>
  <2>1. e - s = 0
    <3>1. Len(SubSeq(path, s + 1, e)) = e - s
      BY ComponentIsName
    <3> QED
      BY <1>4, <3>1, EmptySeq
  <2>2. e = s
    BY <2>1
  <2>3. s = n
    <3>1. s < n => s + 1 \in 1..n
      OBVIOUS
    <3> QED
      BY <2>2, <3>1 DEF IsComponent, At
  <2>4. AtLastSlash(path, s, s + 1, out \o <<Slash>>)
    BY <1>1, <1>4, <2>2, <2>3 DEF AtLastSlash
  <2> QED
    BY <1>3, <2>4 DEF BehindSlashes
<1>5. CASE SubSeq(path, s + 1, e) # <<>>
  <2>1. Staying(path, s)
    <3>1. ASSUME NEW f \in s..n, IsComponent(path, s, f) PROVE f = e
      BY <3>1, OneComponent
    <3> QED
      BY <1>5, <3>1 DEF Staying
  <2>2. SubSeq(path, s + 1, s) = <<>>
    BY SubSeqEmpty
  <2>3. <<Slash>> \o <<>> = <<Slash>>
    <3>1. <<Slash>> \in Seq(Nat)
      BY DEF Slash
    <3> QED
      BY <3>1, ConcatEmptySeq
  <2>4. InComponent(path, s, s + 1, out \o <<Slash>>)
    BY <1>1, <1>2, <2>1, <2>2, <2>3 DEF InComponent
  <2> QED
    BY <1>3, <2>4 DEF BehindSlashes
<1> QED
  BY <1>4, <1>5

(* So the outer loop goes on behind the slash.                             *)
LEMMA OnwardsBehind ==
  ASSUME NEW path \in Seq(Nat), NEW n \in Nat, n = Len(path), NEW s \in 1..n, NEW e \in s..n,
         IsComponent(path, s, e), SubSeq(path, s + 1, e) \notin {<<Dot>>, <<Dot, Dot>>}, At(path, s + 1) # Slash,
         NEW same \in BOOLEAN, NEW inner \in BOOLEAN, NEW q \in Nat, NEW dst \in Seq(Nat),
         SlashTaken(path, same, s, q, dst)
  PROVE  CanonizedTo(path, Onwards(CanonizeLocals(same, inner, s, q, dst)), s + 1)
<1>1. /\ Unread(path, same, s, q, dst) /\ q <= Len(dst) /\ dst[q] = Slash
      /\ AtSlash(path, s, SubSeq(dst, 1, q - 1))
  BY DEF SlashTaken
<1>2. /\ Onwards(CanonizeLocals(same, inner, s, q, dst)) = CanonizeLocals(same, FALSE, s + 1, q + 1, dst)
      /\ Unread(path, same, s + 1, q + 1, dst)
  <2>1. PICK p \in Nat : p = s /\ p <= Len(path)
    OBVIOUS
  <2>2. Unread(path, same, p, q, dst) /\ q <= Len(dst)
    BY <1>1, <2>1
  <2>3. /\ Onwards(CanonizeLocals(same, inner, p, q, dst)) = CanonizeLocals(same, FALSE, p + 1, q + 1, dst)
        /\ Unread(path, same, p + 1, q + 1, dst)
    <3>1. OnwardsIs(path, same, inner, p, q, dst)
      BY <2>1, <2>2, UnreadOnwards
    <3> QED
      BY <3>1 DEF OnwardsIs
  <2> QED
    BY <2>1, <2>3
<1>3. SubSeq(dst, 1, (q + 1) - 1) = SubSeq(dst, 1, q - 1) \o <<Slash>>
  <2>1. 1 <= q
    BY <1>1 DEF Unread
  <2> QED
    BY <1>1, <2>1, SlashStored
<1>4. BehindSlashes(path, s + 1, SubSeq(dst, 1, q - 1) \o <<Slash>>)
  BY <1>1, ComponentBegins
<1>5. GoesOn(path, same, FALSE, s + 1, q + 1, dst)
  BY <1>2, <1>3, <1>4 DEF GoesOn
<1>6. FALSE \in BOOLEAN /\ s + 1 \in Nat /\ q + 1 \in Nat /\ s + 1 <= s + 1
  OBVIOUS
<1> QED
  BY <1>2, <1>5, <1>6 DEF CanonizedTo

(* The condition of the inner loop, at a slash.                            *)
LEMMA AgainGoesOn ==
  ASSUME NEW path \in Seq(Nat), NEW n \in Nat, n = Len(path), NEW p \in 1..n,
         NEW same \in BOOLEAN, NEW inner \in BOOLEAN, NEW q \in Nat, NEW dst \in Seq(Nat),
         SlashTaken(path, same, p, q, dst)
  PROVE  CanonizedTo(path, Again(path, CanonizeLocals(same, inner, p, q, dst)), p)
<1>1. /\ Unread(path, same, p, q, dst) /\ AtSlash(path, p, SubSeq(dst, 1, q - 1)) /\ path[p] = Slash
  BY DEF SlashTaken, AtSlash
<1> DEFINE st == CanonizeLocals(same, inner, p, q, dst)
<1>2. CharAt(path, st, p) = Slash /\ CharAt(path, st, p + 1) = At(path, p + 1)
  <2>1. p \in Nat /\ p + 1 \in Nat /\ p >= p /\ p + 1 >= p
    OBVIOUS
  <2>2. CharAt(path, st, p) = At(path, p) /\ CharAt(path, st, p + 1) = At(path, p + 1)
    BY <1>1, <2>1, ReadsPath
  <2>3. At(path, p) = path[p]
    BY DEF At
  <2> QED
    BY <1>1, <2>2, <2>3
<1>3. st.ok = TRUE /\ st.p = p
  BY DEF CanonizeLocals
<1>4. CASE At(path, p + 1) \in {Slash, Dot}
  <2>1. Again(path, st) = [st EXCEPT !.inner = TRUE]
    <3> HIDE DEF st
    <3> QED
      BY <1>2, <1>3, <1>4 DEF Again
  <2>2. Again(path, st) = CanonizeLocals(same, TRUE, p, q, dst)
    BY <2>1 DEF CanonizeLocals
  <2>3. GoesOn(path, same, TRUE, p, q, dst)
    BY <1>1 DEF GoesOn
  <2>4. TRUE \in BOOLEAN /\ p \in Nat /\ p <= p
    OBVIOUS
  <2> HIDE DEF st
  <2> QED
    BY <2>2, <2>3, <2>4 DEF CanonizedTo, st
<1>5. CASE At(path, p + 1) \notin {Slash, Dot}
  <2>1. Again(path, st) = Onwards(st)
    <3> HIDE DEF st
    <3> QED
      BY <1>2, <1>3, <1>5 DEF Again
  <2>2. PICK e \in p..n : IsComponent(path, p, e)
    BY <1>1, ComponentEnds
  <2>3. SubSeq(path, p + 1, e) \notin {<<Dot>>, <<Dot, Dot>>}
    <3> SUFFICES ASSUME SubSeq(path, p + 1, e) \in {<<Dot>>, <<Dot, Dot>>} PROVE FALSE
      OBVIOUS
    <3>1. PICK c \in Names : c = SubSeq(path, p + 1, e) /\ Len(c) = e - p /\ \A i \in 1..(e - p) : c[i] = path[p + i]
      BY <2>2, ComponentIsName
    <3>2. c[1] = Dot /\ Len(c) \in {1, 2}
      <4>1. CASE c = <<Dot>>
        BY <4>1
      <4>2. CASE c = <<Dot, Dot>>
        BY <4>2
      <4> QED
        BY <3>1, <4>1, <4>2
    <3>3. 1 \in 1..(e - p) /\ p + 1 \in 1..n
      BY <3>1, <3>2
    <3>4. path[p + 1] = Dot
      BY <3>1, <3>2, <3>3
    <3> QED
      BY <1>5, <3>3, <3>4 DEF At
  <2>4. At(path, p + 1) # Slash
    BY <1>5
  <2>5. CanonizedTo(path, Onwards(st), p + 1)
    BY <2>2, <2>3, <2>4, OnwardsBehind
  <2>6. p \in Nat /\ p + 1 \in Nat /\ p <= p + 1
    OBVIOUS
  <2> HIDE DEF st
  <2>7. CanonizedTo(path, Onwards(st), p)
    BY <2>5, <2>6, CanonizedBefore
  <2> QED
    BY <2>1, <2>7 DEF st
<1> QED
  BY <1>4, <1>5

(* What strcmp and skip_prefix see at p.                                   *)
DotsSeen(path, st, p) ==
  /\ Begins(path, st, p, <<Slash, Dot>>) <=> At(path, p + 1) = Dot
  /\ Begins(path, st, p, <<Slash, Dot, Dot>>) <=> At(path, p + 1) = Dot /\ At(path, p + 2) = Dot
  /\ Begins(path, st, p, <<Slash, Dot, Slash>>) <=> At(path, p + 1) = Dot /\ At(path, p + 2) = Slash
  /\ Begins(path, st, p, <<Slash, Dot, Dot, Slash>>) <=>
       At(path, p + 1) = Dot /\ At(path, p + 2) = Dot /\ At(path, p + 3) = Slash

(* They see the characters of the path.                                    *)
LEMMA DotsKnown ==
  ASSUME NEW path \in Seq(Nat), NEW n \in Nat, n = Len(path), NEW p \in 1..n, path[p] = Slash,
         NEW same \in BOOLEAN, NEW inner \in BOOLEAN, NEW q \in Nat, NEW dst \in Seq(Nat),
         Unread(path, same, p, q, dst)
  PROVE  DotsSeen(path, CanonizeLocals(same, inner, p, q, dst), p)
<1>1. PICK st : st = CanonizeLocals(same, inner, p, q, dst)
  OBVIOUS
<1>2. \A k \in Nat : k >= p => CharAt(path, st, k) = At(path, k)
  <2>1. p \in Nat
    OBVIOUS
  <2> QED
    BY <1>1, <2>1, ReadsPath
<1>3. /\ CharAt(path, st, p) = Slash /\ CharAt(path, st, p + 1) = At(path, p + 1)
      /\ CharAt(path, st, p + 2) = At(path, p + 2) /\ CharAt(path, st, p + 3) = At(path, p + 3)
  <2>1. p \in Nat /\ p + 1 \in Nat /\ p + 2 \in Nat /\ p + 3 \in Nat
    OBVIOUS
  <2>2. p >= p /\ p + 1 >= p /\ p + 2 >= p /\ p + 3 >= p
    OBVIOUS
  <2>3. At(path, p) = Slash
    BY DEF At
  <2> QED
    BY <1>2, <2>1, <2>2, <2>3
<1>4. p + 1 - 1 = p /\ p + 2 - 1 = p + 1 /\ p + 3 - 1 = p + 2 /\ p + 4 - 1 = p + 3
  OBVIOUS
<1>5. ASSUME NEW s, NEW m \in Nat, DOMAIN s = 1..m
      PROVE  Begins(path, st, p, s) <=> \A i \in 1..m : CharAt(path, st, p + i - 1) = s[i]
  BY <1>5 DEF Begins
<1>6. Begins(path, st, p, <<Slash, Dot>>) <=> At(path, p + 1) = Dot
  <2>1. PICK s : s = <<Slash, Dot>> /\ DOMAIN s = 1..2 /\ s[1] = Slash /\ s[2] = Dot
    <3>1. DOMAIN <<Slash, Dot>> = 1..2 /\ <<Slash, Dot>>[1] = Slash /\ <<Slash, Dot>>[2] = Dot
      OBVIOUS
    <3> QED
      BY <3>1
  <2>2. Begins(path, st, p, s) <=> \A i \in 1..2 : CharAt(path, st, p + i - 1) = s[i]
    BY <1>5, <2>1
  <2>3. (\A i \in 1..2 : CharAt(path, st, p + i - 1) = s[i]) <=>
          CharAt(path, st, p + 1 - 1) = s[1] /\ CharAt(path, st, p + 2 - 1) = s[2]
    <3>1. \A i \in 1..2 : i = 1 \/ i = 2
      OBVIOUS
    <3>2. 1 \in 1..2 /\ 2 \in 1..2
      OBVIOUS
    <3> QED
      BY <3>1, <3>2
  <2> QED
    BY <1>3, <1>4, <2>1, <2>2, <2>3
<1>7. ASSUME NEW c
      PROVE  Begins(path, st, p, <<Slash, Dot, c>>) <=> At(path, p + 1) = Dot /\ At(path, p + 2) = c
  <2>1. PICK s : s = <<Slash, Dot, c>> /\ DOMAIN s = 1..3 /\ s[1] = Slash /\ s[2] = Dot /\ s[3] = c
    <3>1. DOMAIN <<Slash, Dot, c>> = 1..3 /\ <<Slash, Dot, c>>[1] = Slash /\ <<Slash, Dot, c>>[2] = Dot /\ <<Slash, Dot, c>>[3] = c
      OBVIOUS
    <3> QED
      BY <3>1
  <2>2. Begins(path, st, p, s) <=> \A i \in 1..3 : CharAt(path, st, p + i - 1) = s[i]
    BY <1>5, <2>1
  <2>3. (\A i \in 1..3 : CharAt(path, st, p + i - 1) = s[i]) <=>
          /\ CharAt(path, st, p + 1 - 1) = s[1] /\ CharAt(path, st, p + 2 - 1) = s[2]
          /\ CharAt(path, st, p + 3 - 1) = s[3]
    <3>1. \A i \in 1..3 : i = 1 \/ i = 2 \/ i = 3
      OBVIOUS
    <3>2. 1 \in 1..3 /\ 2 \in 1..3 /\ 3 \in 1..3
      OBVIOUS
    <3> QED
      BY <3>1, <3>2
  <2> QED
    BY <1>3, <1>4, <2>1, <2>2, <2>3
<1>8. Begins(path, st, p, <<Slash, Dot, Dot, Slash>>) <=>
        At(path, p + 1) = Dot /\ At(path, p + 2) = Dot /\ At(path, p + 3) = Slash
  <2>1. PICK s : /\ s = <<Slash, Dot, Dot, Slash>> /\ DOMAIN s = 1..4
                 /\ s[1] = Slash /\ s[2] = Dot /\ s[3] = Dot /\ s[4] = Slash
    <3>1. DOMAIN <<Slash, Dot, Dot, Slash>> = 1..4 /\ <<Slash, Dot, Dot, Slash>>[1] = Slash /\ <<Slash, Dot, Dot, Slash>>[2] = Dot /\ <<Slash, Dot, Dot, Slash>>[3] = Dot /\ <<Slash, Dot, Dot, Slash>>[4] = Slash
      OBVIOUS
    <3> QED
      BY <3>1
  <2>2. Begins(path, st, p, s) <=> \A i \in 1..4 : CharAt(path, st, p + i - 1) = s[i]
    BY <1>5, <2>1
  <2>3. (\A i \in 1..4 : CharAt(path, st, p + i - 1) = s[i]) <=>
          /\ CharAt(path, st, p + 1 - 1) = s[1] /\ CharAt(path, st, p + 2 - 1) = s[2]
          /\ CharAt(path, st, p + 3 - 1) = s[3] /\ CharAt(path, st, p + 4 - 1) = s[4]
    <3>1. \A i \in 1..4 : i = 1 \/ i = 2 \/ i = 3 \/ i = 4
      OBVIOUS
    <3>2. 1 \in 1..4 /\ 2 \in 1..4 /\ 3 \in 1..4 /\ 4 \in 1..4
      OBVIOUS
    <3> QED
      BY <3>1, <3>2
  <2> QED
    BY <1>3, <1>4, <2>1, <2>2, <2>3
<1>9. DotsSeen(path, st, p)
  BY <1>6, <1>7, <1>8 DEF DotsSeen
<1> QED
  BY <1>1, <1>9

(* The components `.' and `..'.                                            *)
LEMMA OneDot ==
  ASSUME NEW path \in Seq(Nat), NEW n \in Nat, n = Len(path), NEW s \in 1..n, path[s] = Slash,
         At(path, s + 1) = Dot, At(path, s + 2) = Slash \/ s + 2 > n
  PROVE  /\ s + 1 \in s..n /\ IsComponent(path, s, s + 1) /\ SubSeq(path, s + 1, s + 1) = <<Dot>>
         /\ s + 2 <= n => path[s + 2] = Slash
<1>1. s + 1 \in 1..n /\ path[s + 1] = Dot
  <2>1. s + 1 \notin 1..n => At(path, s + 1) = Other
    BY DEF At
  <2>2. s + 1 \in 1..n
    BY <2>1 DEF Other, Dot
  <2> QED
    BY <2>2 DEF At
<1>2. s + 2 <= n => path[s + 2] = Slash
  <2>1. s + 2 <= n => s + 2 \in 1..n
    OBVIOUS
  <2> QED
    BY <2>1 DEF At
<1>3. \A i \in (s + 1)..(s + 1) : i = s + 1
  OBVIOUS
<1>4. s + 1 \in s..n /\ (s + 1) + 1 = s + 2 /\ (s + 1 < n => s + 2 <= n)
  BY <1>1
<1>5. IsComponent(path, s, s + 1)
  BY <1>1, <1>2, <1>3, <1>4 DEF IsComponent, Dot, Slash
<1>6. PICK e \in s..n : e = s + 1 /\ e - s = 1
  BY <1>4
<1>7. PICK c \in Names : c = SubSeq(path, s + 1, e) /\ Len(c) = 1 /\ \A i \in 1..1 : c[i] = path[s + i]
  <2>1. IsComponent(path, s, e)
    BY <1>5, <1>6
  <2>2. /\ SubSeq(path, s + 1, e) \in Names /\ Len(SubSeq(path, s + 1, e)) = e - s
        /\ \A i \in 1..(e - s) : SubSeq(path, s + 1, e)[i] = path[s + i]
    BY <2>1, ComponentIsName
  <2> QED
    BY <1>6, <2>2
<1>8. c = <<Dot>>
  <2>1. c \in Seq(Nat) /\ Len(c) = 1 /\ c[1] = Dot
    BY <1>1, <1>7 DEF Names
  <2> QED
    BY <2>1
<1> QED
  BY <1>2, <1>4, <1>5, <1>6, <1>7, <1>8

(* The component is two dots.                                              *)
LEMMA TwoDots ==
  ASSUME NEW path \in Seq(Nat), NEW n \in Nat, n = Len(path), NEW s \in 1..n, path[s] = Slash,
         At(path, s + 1) = Dot, At(path, s + 2) = Dot, At(path, s + 3) = Slash \/ s + 3 > n
  PROVE  /\ s + 2 \in s..n /\ IsComponent(path, s, s + 2) /\ SubSeq(path, s + 1, s + 2) = <<Dot, Dot>>
         /\ s + 3 <= n => path[s + 3] = Slash
<1>1. s + 2 \in 1..n /\ s + 1 \in 1..n /\ path[s + 1] = Dot /\ path[s + 2] = Dot
  <2>1. s + 2 \notin 1..n => At(path, s + 2) = Other
    BY DEF At
  <2>2. s + 2 \in 1..n
    BY <2>1 DEF Other, Dot
  <2>3. s + 1 \in 1..n
    BY <2>2
  <2> QED
    BY <2>2, <2>3 DEF At
<1>2. s + 3 <= n => path[s + 3] = Slash
  <2>1. s + 3 <= n => s + 3 \in 1..n
    OBVIOUS
  <2> QED
    BY <2>1 DEF At
<1>3. \A i \in (s + 1)..(s + 2) : i = s + 1 \/ i = s + 2
  OBVIOUS
<1>4. s + 2 \in s..n /\ (s + 2) + 1 = s + 3 /\ (s + 2 < n => s + 3 <= n)
  BY <1>1
<1>5. IsComponent(path, s, s + 2)
  BY <1>1, <1>2, <1>3, <1>4 DEF IsComponent, Dot, Slash
<1>6. PICK e \in s..n : e = s + 2 /\ e - s = 2
  BY <1>4
<1>7. PICK c \in Names : c = SubSeq(path, s + 1, e) /\ Len(c) = 2 /\ \A i \in 1..2 : c[i] = path[s + i]
  <2>1. IsComponent(path, s, e)
    BY <1>5, <1>6
  <2>2. /\ SubSeq(path, s + 1, e) \in Names /\ Len(SubSeq(path, s + 1, e)) = e - s
        /\ \A i \in 1..(e - s) : SubSeq(path, s + 1, e)[i] = path[s + i]
    BY <2>1, ComponentIsName
  <2> QED
    BY <1>6, <2>2
<1>8. c = <<Dot, Dot>>
  <2>0. 1 \in 1..2 /\ 2 \in 1..2
    OBVIOUS
  <2>1. c \in Seq(Nat) /\ Len(c) = 2 /\ c[1] = Dot /\ c[2] = Dot
    BY <1>1, <1>7, <2>0 DEF Names
  <2> QED
    BY <2>1
<1> QED
  BY <1>2, <1>4, <1>5, <1>6, <1>7, <1>8

(* Where none of these is, the component is another one.                   *)
LEMMA NoDots ==
  ASSUME NEW path \in Seq(Nat), NEW n \in Nat, n = Len(path), NEW s \in 1..n, NEW e \in s..n,
         IsComponent(path, s, e),
         ~(At(path, s + 1) = Dot /\ (At(path, s + 2) = Slash \/ s + 2 > n)),
         ~(At(path, s + 1) = Dot /\ At(path, s + 2) = Dot /\ (At(path, s + 3) = Slash \/ s + 3 > n))
  PROVE  SubSeq(path, s + 1, e) \notin {<<Dot>>, <<Dot, Dot>>}
<1>1. PICK c \in Names : c = SubSeq(path, s + 1, e) /\ Len(c) = e - s /\ \A i \in 1..(e - s) : c[i] = path[s + i]
  BY ComponentIsName
<1>2. e < n => path[e + 1] = Slash
  BY DEF IsComponent
<1>3. CASE c = <<Dot>>
  <2>0. Len(<<Dot>>) = 1 /\ <<Dot>>[1] = Dot
    OBVIOUS
  <2>1. e - s = 1 /\ c[1] = Dot
    BY <1>1, <1>3, <2>0
  <2>2. e = s + 1 /\ e + 1 = s + 2 /\ 1 \in 1..(e - s) /\ s + 1 \in 1..n
    BY <2>1
  <2>3. At(path, s + 1) = Dot
    BY <1>1, <2>1, <2>2 DEF At
  <2>4. s + 2 <= n => e < n /\ s + 2 \in 1..n
    BY <2>2
  <2>5. s + 2 <= n => At(path, s + 2) = Slash
    BY <1>2, <2>2, <2>4 DEF At
  <2> QED
    BY <2>3, <2>5
<1>4. CASE c = <<Dot, Dot>>
  <2>0. Len(<<Dot, Dot>>) = 2 /\ <<Dot, Dot>>[1] = Dot /\ <<Dot, Dot>>[2] = Dot
    OBVIOUS
  <2>1. e - s = 2 /\ c[1] = Dot /\ c[2] = Dot
    BY <1>1, <1>4, <2>0
  <2>2. e = s + 2 /\ e + 1 = s + 3 /\ 1 \in 1..(e - s) /\ 2 \in 1..(e - s) /\ s + 1 \in 1..n /\ s + 2 \in 1..n
    BY <2>1
  <2>3. At(path, s + 1) = Dot /\ At(path, s + 2) = Dot
    BY <1>1, <2>1, <2>2 DEF At
  <2>4. s + 3 <= n => e < n /\ s + 3 \in 1..n
    BY <2>2
  <2>5. s + 3 <= n => At(path, s + 3) = Slash
    BY <1>2, <2>2, <2>4 DEF At
  <2> QED
    BY <2>3, <2>5
<1> QED
  BY <1>1, <1>3, <1>4

(* The last component of a path.                                           *)
LEMMA LastComponent ==
  ASSUME NEW path \in Seq(Nat), NEW n \in Nat, n = Len(path), NEW s \in 1..n, IsComponent(path, s, n)
  PROVE  \A cs : EndsWith(path, cs) <=> SubSeq(path, s + 1, n) \in cs
<1>1. Slashes(path) = {k \in 1..n : path[k] = Slash}
  BY DEF Slashes
<1>2. path[s] = Slash /\ \A i \in (s + 1)..n : path[i] # Slash
  BY DEF IsComponent
<1>3. s \in Slashes(path) /\ Slashes(path) \in SUBSET Int
  BY <1>1, <1>2
<1>4. ASSUME NEW x \in Slashes(path) PROVE s >= x
  <2>1. x \in 1..n /\ path[x] = Slash
    BY <1>1
  <2> QED
    BY <1>2, <2>1
<1>5. Max(Slashes(path)) = s
  BY <1>3, <1>4, GreatestIs
<1>6. n \in s..n
  OBVIOUS
<1>7. ComponentAt(path, s) = SubSeq(path, s + 1, n)
  BY <1>6, ComponentIs
<1> QED
  BY <1>3, <1>5, <1>7 DEF EndsWith

(* The last slash of a text is behind its first m characters.              *)
SlashBehind(t, out, m) ==
  /\ m + 1 <= Len(out) /\ out[m + 1] = Slash /\ \A i \in (m + 2)..Len(out) : out[i] # Slash
  /\ \A i \in 1..m : out[i] = t[i]

(* What ascending finds in a text.                                         *)
LEMMA SlashBehindText ==
  ASSUME NEW t \in Seq(Nat), NEW d \in Names, NEW out \in Seq(Nat), out = t \o (<<Slash>> \o d), NEW m \in Nat, m = Len(t)
  PROVE  SlashBehind(t, out, m)
<1>1. PICK c \in Seq(Nat), k \in Nat : c = d /\ k = Len(c) /\ \A i \in 1..k : c[i] # Slash
  <2>1. d \in Seq(Nat) /\ \A i \in 1..Len(d) : d[i] # Slash
    BY DEF Names
  <2>2. Len(d) \in Nat
    BY <2>1
  <2> QED
    BY <2>1, <2>2
<1>2. PICK sl \in Seq(Nat) : sl = <<Slash>> /\ Len(sl) = 1 /\ sl[1] = Slash
  <2>1. <<Slash>> \in Seq(Nat) /\ Len(<<Slash>>) = 1 /\ <<Slash>>[1] = Slash
    BY DEF Slash
  <2> QED
    BY <2>1
<1>3. PICK sc \in Seq(Nat) : /\ sc = sl \o c /\ Len(sc) = 1 + k
                             /\ \A i \in 1..1 : sc[i] = sl[i]
                             /\ \A i \in 1..k : sc[1 + i] = c[i]
  <2>1. /\ sl \o c \in Seq(Nat) /\ Len(sl \o c) = Len(sl) + Len(c)
        /\ \A i \in 1..Len(sl) : (sl \o c)[i] = sl[i]
        /\ \A i \in 1..Len(c) : (sl \o c)[Len(sl) + i] = c[i]
    BY JoinedBehind
  <2> QED
    BY <1>1, <1>2, <2>1
<1>4. /\ Len(out) = m + (1 + k)
      /\ \A i \in 1..m : out[i] = t[i]
      /\ \A i \in 1..(1 + k) : out[m + i] = sc[i]
  <2>1. /\ Len(t \o sc) = Len(t) + Len(sc)
        /\ \A i \in 1..Len(t) : (t \o sc)[i] = t[i]
        /\ \A i \in 1..Len(sc) : (t \o sc)[Len(t) + i] = sc[i]
    BY JoinedBehind
  <2>2. out = t \o sc
    BY <1>1, <1>2, <1>3
  <2> QED
    BY <1>3, <2>1, <2>2
<1>5. 1 \in 1..(1 + k) /\ 1 \in 1..1
  OBVIOUS
<1>6. out[m + 1] = Slash
  BY <1>2, <1>3, <1>4, <1>5
<1>7. ASSUME NEW i \in (m + 2)..(m + (1 + k)) PROVE out[i] # Slash
  <2>1. PICK j \in 1..k : i = m + (1 + j) /\ 1 + j \in 1..(1 + k)
    <3>1. i - m - 1 \in 1..k /\ i = m + (1 + (i - m - 1)) /\ 1 + (i - m - 1) \in 1..(1 + k)
      OBVIOUS
    <3> QED
      BY <3>1
  <2>2. out[i] = sc[1 + j] /\ sc[1 + j] = c[j]
    BY <1>3, <1>4, <2>1
  <2> QED
    BY <1>1, <2>2
<1>8. m + 1 <= m + (1 + k)
  OBVIOUS
<1> QED
  BY <1>4, <1>6, <1>7, <1>8 DEF SlashBehind

(* A component that leaves the root.                                       *)
LEMMA RootLeft ==
  ASSUME NEW path \in Seq(Nat), NEW n \in Nat, n = Len(path), NEW e \in 0..n, ~NormalUpTo(path)[e].ok
  PROVE  LeavesRoot(path)
<1>1. n \in e..n
  OBVIOUS
<1>2. ~NormalUpTo(path)[n].ok
  BY <1>1, NormalStays
<1> QED
  BY <1>2 DEF LeavesRoot, Normal

(* A pointer is set.                                                       *)
SetsPointers(same, inner, p, q, dst, x, y) ==
  /\ [CanonizeLocals(same, inner, p, q, dst) EXCEPT !.p = x] = CanonizeLocals(same, inner, x, q, dst)
  /\ [CanonizeLocals(same, inner, p, q, dst) EXCEPT !.p = x, !.q = y] = CanonizeLocals(same, inner, x, y, dst)

(* Nothing else is changed.                                                *)
LEMMA PointersSet ==
  ASSUME NEW same, NEW inner, NEW p, NEW q, NEW dst, NEW x, NEW y
  PROVE  SetsPointers(same, inner, p, q, dst, x, y)
<1>1. PICK mid : mid = [CanonizeLocals(same, inner, p, q, dst) EXCEPT !.p = x]
  OBVIOUS
<1>2. mid = CanonizeLocals(same, inner, x, q, dst)
  BY <1>1 DEF CanonizeLocals
<1>3. [mid EXCEPT !.q = y] = CanonizeLocals(same, inner, x, y, dst)
  <2>1. PICK new : new = [mid EXCEPT !.q = y]
    OBVIOUS
  <2>2. DOMAIN new = DOMAIN mid
    BY <2>1
  <2>3. new.ok = mid.ok /\ new.same = mid.same /\ new.inner = mid.inner /\ new.p = mid.p /\ new.dst = mid.dst
    BY <2>1
  <2>4. new.q = y
    BY <1>2, <2>1 DEF CanonizeLocals
  <2>5. new = [f \in DOMAIN mid |-> IF f = "q" THEN y ELSE mid[f]]
    BY <2>1
  <2>6. new = CanonizeLocals(same, inner, x, y, dst)
    BY <1>2, <2>1, <2>2, <2>3, <2>4, <2>5 DEF CanonizeLocals
  <2> QED
    BY <2>1, <2>6
<1> QED
  BY <1>1, <1>2, <1>3 DEF SetsPointers

(* `/.' at the end.                                                        *)
LEMMA DotAtEnd ==
  ASSUME NEW path \in Seq(Nat), NEW n \in Nat, n = Len(path), NEW s \in 1..n,
         NEW same \in BOOLEAN, NEW inner \in BOOLEAN, NEW q \in Nat, NEW dst \in Seq(Nat),
         SlashTaken(path, same, s, q, dst), At(path, s + 1) = Dot, s + 2 > n
  PROVE  CanonizedTo(path, Again(path, [CanonizeLocals(same, inner, s, q, dst) EXCEPT !.p = @ + 1]), s + 1)
<1>1. /\ Unread(path, same, s, q, dst) /\ q <= Len(dst) /\ dst[q] = Slash
      /\ AtSlash(path, s, SubSeq(dst, 1, q - 1))
  BY DEF SlashTaken
<1>2. path[s] = Slash /\ NormalUpTo(path)[s - 1].ok /\ SubSeq(dst, 1, q - 1) = TextUpTo(path, s - 1)
  BY <1>1 DEF AtSlash
<1>3. s + 1 \in s..n /\ IsComponent(path, s, s + 1) /\ SubSeq(path, s + 1, s + 1) = <<Dot>>
  BY <1>2, OneDot
<1>4. PICK r \in Nat : r = s + 1 /\ r = n
  BY <1>3
<1>5. PICK st : st = CanonizeLocals(same, inner, r, q, dst)
  OBVIOUS
<1>6. [CanonizeLocals(same, inner, s, q, dst) EXCEPT !.p = @ + 1] = st
  <2>1. CanonizeLocals(same, inner, s, q, dst).p = s
    BY DEF CanonizeLocals
  <2>2. SetsPointers(same, inner, s, q, dst, r, q)
    BY PointersSet
  <2>3. [CanonizeLocals(same, inner, s, q, dst) EXCEPT !.p = r] = st
    BY <1>5, <2>2 DEF SetsPointers
  <2>4. [CanonizeLocals(same, inner, s, q, dst) EXCEPT !.p = @ + 1] = [CanonizeLocals(same, inner, s, q, dst) EXCEPT !.p = r]
    BY <1>4, <2>1
  <2> QED
    BY <2>3, <2>4
<1>7. Unread(path, same, r, q, dst) /\ 1 <= q /\ q <= r /\ r <= Len(path)
  <2>1. /\ 1 <= q /\ q <= s /\ s <= n + 1 /\ q <= Len(dst) + 1
        /\ same => Len(dst) = n /\ \A k \in s..n : dst[k] = path[k]
    BY <1>1 DEF Unread
  <2>2. q <= r /\ r <= n + 1 /\ r <= n /\ \A k \in r..n : k \in s..n
    BY <1>4, <2>1
  <2> QED
    BY <2>1, <2>2 DEF Unread
<1>8. CharAt(path, st, r) = Dot
  <2>1. r >= r
    OBVIOUS
  <2> QED
    BY <1>4, <1>5, <1>7, <2>1, ReadsPath
<1>9. st.ok = TRUE /\ st.p = r
  BY <1>5 DEF CanonizeLocals
<1>10. Again(path, st) = Onwards(st)
  BY <1>8, <1>9 DEF Again, Slash, Dot
<1>11. Onwards(st) = CanonizeLocals(same, FALSE, r + 1, q + 1, dst) /\ Unread(path, same, r + 1, q + 1, dst)
  <2>1. OnwardsIs(path, same, inner, r, q, dst)
    BY <1>1, <1>7, UnreadOnwards
  <2> QED
    BY <1>5, <2>1 DEF OnwardsIs
<1>12. BehindSlashes(path, r + 1, SubSeq(dst, 1, q - 1) \o <<Slash>>)
  <2>1. r + 1 = Len(path) + 1 /\ s < r + 1 /\ (r + 1) - 1 = r /\ s \in 1..Len(path)
    BY <1>4
  <2>2. BehindSlash(path, s, r + 1)
    BY <1>2, <1>3, <1>4, <2>1 DEF BehindSlash, IsComponent
  <2>3. SubSeq(path, s + 1, Len(path)) = <<Dot>>
    BY <1>3, <1>4
  <2>4. AtLastSlash(path, s, r + 1, SubSeq(dst, 1, q - 1) \o <<Slash>>)
    BY <1>2, <2>1, <2>3 DEF AtLastSlash
  <2> QED
    BY <2>1, <2>2, <2>4 DEF BehindSlashes
<1>13. SubSeq(dst, 1, (q + 1) - 1) = SubSeq(dst, 1, q - 1) \o <<Slash>>
  BY <1>1, <1>7, SlashStored
<1>14. GoesOn(path, same, FALSE, r + 1, q + 1, dst)
  BY <1>11, <1>12, <1>13 DEF GoesOn
<1>15. FALSE \in BOOLEAN /\ r + 1 \in Nat /\ q + 1 \in Nat /\ s + 1 <= r + 1
  BY <1>4
<1>16. CanonizedTo(path, Onwards(st), s + 1)
  BY <1>11, <1>14, <1>15 DEF CanonizedTo
<1> QED
  BY <1>6, <1>10, <1>16

(* `/..' at the end.                                                       *)
LEMMA TwoDotsAtEnd ==
  ASSUME NEW path \in Seq(Nat), NEW n \in Nat, n = Len(path), NEW s \in 1..n, path[s] = Slash,
         At(path, s + 1) = Dot, At(path, s + 2) = Dot, s + 3 > n
  PROVE  LeavesRoot(path)
<1>1. s + 2 \in s..n /\ IsComponent(path, s, s + 2) /\ SubSeq(path, s + 1, s + 2) = <<Dot, Dot>>
  BY TwoDots
<1>2. s + 2 = n
  BY <1>1
<1>3. EndsWith(path, {<<Dot, Dot>>})
  BY <1>1, <1>2, LastComponent
<1> QED
  BY <1>3 DEF LeavesRoot

(* `/./'.                                                                  *)
LEMMA DotSkipped ==
  ASSUME NEW path \in Seq(Nat), NEW n \in Nat, n = Len(path), NEW s \in 1..n,
         NEW same \in BOOLEAN, NEW inner \in BOOLEAN, NEW q \in Nat, NEW dst \in Seq(Nat),
         SlashTaken(path, same, s, q, dst), At(path, s + 1) = Dot, At(path, s + 2) = Slash
  PROVE  CanonizedTo(path, Again(path, [CanonizeLocals(same, inner, s, q, dst) EXCEPT !.p = @ + 2]), s + 1)
<1>1. /\ Unread(path, same, s, q, dst) /\ q <= Len(dst) /\ dst[q] = Slash
      /\ AtSlash(path, s, SubSeq(dst, 1, q - 1))
  BY DEF SlashTaken
<1>2. path[s] = Slash /\ NormalUpTo(path)[s - 1].ok /\ SubSeq(dst, 1, q - 1) = TextUpTo(path, s - 1)
  BY <1>1 DEF AtSlash
<1>3. /\ s + 1 \in s..n /\ IsComponent(path, s, s + 1) /\ SubSeq(path, s + 1, s + 1) = <<Dot>>
      /\ s + 2 <= n => path[s + 2] = Slash
  BY <1>2, OneDot
<1>4. s + 2 \in 1..n
  <2>1. s + 2 \notin 1..n => At(path, s + 2) = Other
    BY DEF At
  <2> QED
    BY <2>1 DEF Other, Slash
<1>5. PICK r \in 1..n : r = s + 2 /\ r - 1 = s + 1
  BY <1>4
<1>6. NormalUpTo(path)[s + 1] = NormalUpTo(path)[s - 1] /\ TextUpTo(path, s + 1) = TextUpTo(path, s - 1)
  BY <1>3, TextSkipped
<1>7. AtSlash(path, r, SubSeq(dst, 1, q - 1))
  BY <1>2, <1>3, <1>5, <1>6 DEF AtSlash
<1>8. Unread(path, same, r, q, dst)
  <2>1. /\ 1 <= q /\ q <= s /\ s <= n + 1 /\ q <= Len(dst) + 1
        /\ same => Len(dst) = n /\ \A k \in s..n : dst[k] = path[k]
    BY <1>1 DEF Unread
  <2>2. q <= r /\ r <= n + 1 /\ r <= n /\ \A k \in r..n : k \in s..n
    BY <1>5, <2>1
  <2> QED
    BY <2>1, <2>2 DEF Unread
<1>9. SlashTaken(path, same, r, q, dst)
  BY <1>1, <1>7, <1>8 DEF SlashTaken
<1>10. CanonizedTo(path, Again(path, CanonizeLocals(same, inner, r, q, dst)), r)
  BY <1>9, AgainGoesOn
<1>11. [CanonizeLocals(same, inner, s, q, dst) EXCEPT !.p = @ + 2] = CanonizeLocals(same, inner, r, q, dst)
  <2>1. CanonizeLocals(same, inner, s, q, dst).p = s
    BY DEF CanonizeLocals
  <2>2. SetsPointers(same, inner, s, q, dst, r, q)
    BY PointersSet
  <2>3. [CanonizeLocals(same, inner, s, q, dst) EXCEPT !.p = r] = CanonizeLocals(same, inner, r, q, dst)
    BY <2>2 DEF SetsPointers
  <2>4. [CanonizeLocals(same, inner, s, q, dst) EXCEPT !.p = @ + 2] = [CanonizeLocals(same, inner, s, q, dst) EXCEPT !.p = r]
    BY <1>5, <2>1
  <2> QED
    BY <2>3, <2>4
<1>12. r \in Nat /\ s + 1 \in Nat /\ s + 1 <= r
  BY <1>5
<1> QED
  BY <1>10, <1>11, <1>12, CanonizedBefore

(* The front of a sequence.                                                *)
FrontIs(s, b) ==
  /\ SubSeq(s, 1, b) \in Seq(Nat) /\ Len(SubSeq(s, 1, b)) = b
  /\ \A i \in 1..b : SubSeq(s, 1, b)[i] = s[i]

(* There is one of any length that the sequence has.                       *)
LEMMA FrontKnown ==
  ASSUME NEW s \in Seq(Nat), NEW b \in Nat, b <= Len(s)
  PROVE  FrontIs(s, b)
<1>1. PICK n \in Nat : n = Len(s)
  OBVIOUS
<1>2. 1 \in 1..(n + 1) /\ b \in (1 - 1)..n /\ b - 1 + 1 = b /\ \A i \in 1..b : 1 + i - 1 = i
  BY <1>1
<1>3. /\ SubSeq(s, 1, b) \in Seq(Nat) /\ Len(SubSeq(s, 1, b)) = b - 1 + 1
      /\ \A i \in 1..(b - 1 + 1) : SubSeq(s, 1, b)[i] = s[1 + i - 1]
  BY <1>1, <1>2, PartOf
<1> QED
  BY <1>2, <1>3 DEF FrontIs

(* `/../'.                                                                 *)
LEMMA DotsAscend ==
  ASSUME NEW path \in Seq(Nat), NEW n \in Nat, n = Len(path), NEW s \in 1..n,
         NEW same \in BOOLEAN, NEW inner \in BOOLEAN, NEW q \in Nat, NEW dst \in Seq(Nat),
         SlashTaken(path, same, s, q, dst),
         At(path, s + 1) = Dot, At(path, s + 2) = Dot, At(path, s + 3) = Slash
  PROVE  Canonized(path, Again(path, Ascend(CanonizeLocals(same, inner, s, q, dst))), s + 1)
<1>1. /\ Unread(path, same, s, q, dst) /\ q <= Len(dst) /\ dst[q] = Slash
      /\ AtSlash(path, s, SubSeq(dst, 1, q - 1))
  BY DEF SlashTaken
<1>2. path[s] = Slash /\ NormalUpTo(path)[s - 1].ok /\ SubSeq(dst, 1, q - 1) = TextUpTo(path, s - 1)
  BY <1>1 DEF AtSlash
<1>3. /\ s + 2 \in s..n /\ IsComponent(path, s, s + 2) /\ SubSeq(path, s + 1, s + 2) = <<Dot, Dot>>
      /\ s + 3 <= n => path[s + 3] = Slash
  BY <1>2, TwoDots
<1>4. s + 3 \in 1..n
  <2>1. s + 3 \notin 1..n => At(path, s + 3) = Other
    BY DEF At
  <2> QED
    BY <2>1 DEF Other, Slash
<1>5. PICK r \in 1..n, e \in s..n : r = s + 3 /\ e = s + 2 /\ r - 1 = e
  BY <1>3, <1>4
<1>6. PICK l \in Nat : l = Len(dst)
  OBVIOUS
<1>7. /\ 1 <= q /\ q <= s /\ q <= l
      /\ same => l = n /\ \A k \in s..n : dst[k] = path[k]
  BY <1>1, <1>6 DEF Unread
<1>8. PICK out \in Seq(Nat) : /\ out = SubSeq(dst, 1, q - 1) /\ Len(out) = q - 1
                              /\ \A i \in 1..(q - 1) : out[i] = dst[i]
  <2>1. PICK f \in Nat : f = q - 1 /\ f <= Len(dst)
    <3>1. q - 1 \in Nat /\ q - 1 <= l
      BY <1>7
    <3> QED
      BY <1>6, <3>1
  <2>2. FrontIs(dst, f)
    BY <2>1, FrontKnown
  <2> QED
    BY <2>1, <2>2 DEF FrontIs
<1>9. PICK st : st = CanonizeLocals(same, inner, s, q, dst)
  OBVIOUS
<1>10. /\ st.ok = TRUE /\ st.p = s
       /\ SlashesBefore(st) = {k \in 1..(q - 1) : out[k] = Slash}
  <2>1. st.ok = TRUE /\ st.p = s /\ st.q = q /\ st.dst = dst
    BY <1>9 DEF CanonizeLocals
  <2> QED
    BY <1>8, <2>1 DEF SlashesBefore
<1>11. \/ ~NormalUpTo(path)[e].ok /\ out \in Names
       \/ /\ NormalUpTo(path)[e].ok
          /\ \E d \in Names : out = TextUpTo(path, e) \o (<<Slash>> \o d)
  <2>1. IsComponent(path, s, e) /\ SubSeq(path, s + 1, e) = <<Dot, Dot>>
    BY <1>3, <1>5
  <2>2. \/ ~NormalUpTo(path)[e].ok /\ TextUpTo(path, s - 1) \in Names
        \/ /\ NormalUpTo(path)[e].ok
           /\ \E d \in Names : TextUpTo(path, s - 1) = TextUpTo(path, e) \o (<<Slash>> \o d)
    BY <1>2, <2>1, TextAscended
  <2> QED
    BY <1>2, <1>8, <2>2
<1>12. CASE ~NormalUpTo(path)[e].ok /\ out \in Names
  <2>1. SlashesBefore(st) = {}
    BY <1>8, <1>10, <1>12 DEF Names
  <2>2. Ascend(st) = [st EXCEPT !.ok = FALSE]
    BY <2>1 DEF Ascend
  <2>3. ~Ascend(st).ok
    BY <1>9, <2>2 DEF CanonizeLocals
  <2>4. Again(path, Ascend(st)) = Ascend(st)
    BY <2>3 DEF Again
  <2>5. e \in 0..n
    OBVIOUS
  <2>6. LeavesRoot(path)
    BY <1>12, <2>5, RootLeft
  <2> QED
    BY <1>9, <2>3, <2>4, <2>6 DEF Canonized
<1>13. CASE NormalUpTo(path)[e].ok /\ \E d \in Names : out = TextUpTo(path, e) \o (<<Slash>> \o d)
  <2>1. PICK d \in Names : out = TextUpTo(path, e) \o (<<Slash>> \o d)
    BY <1>13
  <2>2. PICK t \in Seq(Nat) : t = TextUpTo(path, e)
    <3>1. e \in 0..n
      OBVIOUS
    <3> QED
      BY <3>1, TextKnown
  <2>3. PICK m \in Nat : m = Len(t)
    OBVIOUS
  <2>4. /\ m + 1 <= q - 1 /\ out[m + 1] = Slash /\ \A i \in (m + 2)..(q - 1) : out[i] # Slash
        /\ \A i \in 1..m : out[i] = t[i]
    <3>1. out = t \o (<<Slash>> \o d)
      BY <2>1, <2>2
    <3>2. SlashBehind(t, out, m)
      BY <2>3, <3>1, SlashBehindText
    <3> QED
      BY <1>8, <3>2 DEF SlashBehind
  <2>5. SlashesBefore(st) # {} /\ Max(SlashesBefore(st)) = m + 1
    <3>1. m + 1 \in SlashesBefore(st) /\ SlashesBefore(st) \in SUBSET Int
      <4>1. m + 1 \in 1..(q - 1) /\ out[m + 1] = Slash
        BY <2>4, SMTT(30)
      <4>2. m + 1 \in SlashesBefore(st)
        BY <1>10, <4>1
      <4>3. SlashesBefore(st) \in SUBSET Int
        BY <1>10
      <4> QED
        BY <4>2, <4>3
    <3>2. ASSUME NEW x \in SlashesBefore(st) PROVE m + 1 >= x
      <4>1. x \in 1..(q - 1) /\ out[x] = Slash
        BY <1>10
      <4>2. x \notin (m + 2)..(q - 1)
        BY <2>4, <4>1
      <4> QED
        BY <4>1, <4>2
    <3> QED
      BY <3>1, <3>2, GreatestIs
  <2>6. PICK b \in Nat : b = m + 1
    OBVIOUS
  <2>7. Ascend(st) = CanonizeLocals(same, inner, r, b, dst)
    <3>1. Ascend(st) = [st EXCEPT !.p = r, !.q = b]
      BY <1>5, <1>10, <2>5, <2>6 DEF Ascend
    <3>2. SetsPointers(same, inner, s, q, dst, r, b)
      BY PointersSet
    <3> QED
      BY <1>9, <3>1, <3>2 DEF SetsPointers
  <2>8. Unread(path, same, r, b, dst)
    <3>0. m + 1 <= q - 1 /\ q <= s /\ q <= l /\ b = m + 1 /\ r = s + 3 /\ r <= n
      BY <1>5, <1>7, <2>4, <2>6
    <3>1. 1 <= b /\ b <= r /\ r <= n + 1 /\ b <= l + 1
      BY <3>0
    <3>2. \A k \in r..n : k \in s..n
      BY <3>0
    <3>3. same => Len(dst) = Len(path) /\ \A k \in r..Len(path) : dst[k] = path[k]
      BY <1>6, <1>7, <3>2
    <3> QED
      BY <1>6, <3>1, <3>3 DEF Unread
  <2>9. b <= Len(dst) /\ dst[b] = Slash
    <3>1. b \in 1..(q - 1) /\ b <= l
      BY <1>7, <2>4, <2>6
    <3> QED
      BY <1>6, <1>8, <2>4, <2>6, <3>1
  <2>10. SubSeq(dst, 1, b - 1) = t
    <3>1. m <= q - 1 /\ m <= l /\ b - 1 = m
      BY <1>7, <2>4, <2>6
    <3>2. FrontIs(dst, m)
      BY <1>6, <3>1, FrontKnown
    <3>3. PICK f \in Seq(Nat) : f = SubSeq(dst, 1, m) /\ Len(f) = m /\ \A i \in 1..m : f[i] = dst[i]
      BY <3>2 DEF FrontIs
    <3>4. \A i \in 1..m : i \in 1..(q - 1)
      BY <3>1
    <3>5. \A i \in 1..m : f[i] = t[i]
      BY <1>8, <2>4, <3>3, <3>4
    <3>6. f = t
      BY <2>3, <3>3, <3>5, SeqEqual
    <3> QED
      BY <3>1, <3>3, <3>6
  <2>11. AtSlash(path, r, SubSeq(dst, 1, b - 1))
    <3>1. path[r] = Slash
      BY <1>3, <1>5
    <3> QED
      BY <1>5, <1>13, <2>2, <2>10, <3>1 DEF AtSlash
  <2>12. SlashTaken(path, same, r, b, dst)
    BY <2>8, <2>9, <2>11 DEF SlashTaken
  <2>13. CanonizedTo(path, Again(path, CanonizeLocals(same, inner, r, b, dst)), r)
    BY <2>12, AgainGoesOn
  <2>14. r \in Nat /\ s + 1 \in Nat /\ s + 1 <= r
    BY <1>5
  <2>15. CanonizedTo(path, Again(path, Ascend(st)), s + 1)
    BY <2>7, <2>13, <2>14, CanonizedBefore
  <2> QED
    BY <1>9, <2>15 DEF Canonized
<1> QED
  BY <1>11, <1>12, <1>13

(* The body of the inner loop.                                             *)
LEMMA ComponentGoesOn ==
  ASSUME NEW path \in Seq(Nat), NEW n \in Nat, n = Len(path), NEW s \in 1..n,
         NEW same \in BOOLEAN, NEW inner \in BOOLEAN, NEW q \in Nat, NEW dst \in Seq(Nat),
         SlashTaken(path, same, s, q, dst), At(path, s + 1) # Slash
  PROVE  Canonized(path, Component(path, CanonizeLocals(same, inner, s, q, dst)), s + 1)
<1>1. /\ Unread(path, same, s, q, dst) /\ q <= Len(dst) /\ dst[q] = Slash
      /\ AtSlash(path, s, SubSeq(dst, 1, q - 1)) /\ path[s] = Slash
  BY DEF SlashTaken, AtSlash
<1>2. PICK st : st = CanonizeLocals(same, inner, s, q, dst)
  OBVIOUS
<1>3. DotsSeen(path, st, s)
  BY <1>1, <1>2, DotsKnown
<1>4. /\ Begins(path, st, s, <<Slash, Dot>>) <=> At(path, s + 1) = Dot
      /\ Begins(path, st, s, <<Slash, Dot, Dot>>) <=> At(path, s + 1) = Dot /\ At(path, s + 2) = Dot
      /\ Begins(path, st, s, <<Slash, Dot, Slash>>) <=> At(path, s + 1) = Dot /\ At(path, s + 2) = Slash
      /\ Begins(path, st, s, <<Slash, Dot, Dot, Slash>>) <=>
           At(path, s + 1) = Dot /\ At(path, s + 2) = Dot /\ At(path, s + 3) = Slash
  BY <1>3 DEF DotsSeen
<1>5. st.p = s /\ st.ok = TRUE
  BY <1>2 DEF CanonizeLocals
<1>6. (AtEnd(path, s + 2) <=> s + 2 > n) /\ (AtEnd(path, s + 3) <=> s + 3 > n)
  BY DEF AtEnd
<1>7. CASE At(path, s + 1) = Dot /\ s + 2 > n
  <2>1. Component(path, st) = Again(path, [st EXCEPT !.p = @ + 1])
    BY <1>4, <1>5, <1>6, <1>7 DEF Component
  <2>2. CanonizedTo(path, Again(path, [st EXCEPT !.p = @ + 1]), s + 1)
    BY <1>2, <1>7, DotAtEnd
  <2> QED
    BY <1>2, <2>1, <2>2 DEF Canonized
<1>8. CASE ~(At(path, s + 1) = Dot /\ s + 2 > n) /\ At(path, s + 1) = Dot /\ At(path, s + 2) = Dot /\ s + 3 > n
  <2>1. Component(path, st) = [st EXCEPT !.ok = FALSE]
    BY <1>4, <1>5, <1>6, <1>8 DEF Component
  <2>2. ~[st EXCEPT !.ok = FALSE].ok
    BY <1>2 DEF CanonizeLocals
  <2>3. LeavesRoot(path)
    BY <1>1, <1>8, TwoDotsAtEnd
  <2> QED
    BY <1>2, <2>1, <2>2, <2>3 DEF Canonized
<1>9. CASE At(path, s + 1) = Dot /\ At(path, s + 2) = Slash
  <2>1. ~(s + 2 > n)
    <3>1. s + 2 > n => At(path, s + 2) = Other
      BY DEF At
    <3> QED
      BY <1>9, <3>1 DEF Other, Slash
  <2>2. At(path, s + 2) # Dot
    BY <1>9 DEF Slash, Dot
  <2>3. Component(path, st) = Again(path, [st EXCEPT !.p = @ + 2])
    BY <1>4, <1>5, <1>6, <1>9, <2>1, <2>2 DEF Component
  <2>4. CanonizedTo(path, Again(path, [st EXCEPT !.p = @ + 2]), s + 1)
    BY <1>2, <1>9, DotSkipped
  <2> QED
    BY <1>2, <2>3, <2>4 DEF Canonized
<1>10. CASE At(path, s + 1) = Dot /\ At(path, s + 2) = Dot /\ At(path, s + 3) = Slash
  <2>1. ~(s + 2 > n) /\ ~(s + 3 > n)
    <3>1. s + 3 > n => At(path, s + 3) = Other
      BY DEF At
    <3>2. ~(s + 3 > n)
      BY <1>10, <3>1 DEF Other, Slash
    <3> QED
      BY <3>2
  <2>2. At(path, s + 2) # Slash
    BY <1>10 DEF Slash, Dot
  <2>3. Component(path, st) = Again(path, Ascend(st))
    BY <1>4, <1>5, <1>6, <1>10, <2>1, <2>2 DEF Component
  <2>4. Canonized(path, Again(path, Ascend(st)), s + 1)
    BY <1>2, <1>10, DotsAscend
  <2> QED
    BY <1>2, <2>3, <2>4
<1>11. CASE /\ ~(At(path, s + 1) = Dot /\ (At(path, s + 2) = Slash \/ s + 2 > n))
            /\ ~(At(path, s + 1) = Dot /\ At(path, s + 2) = Dot /\ (At(path, s + 3) = Slash \/ s + 3 > n))
  <2>1. Component(path, st) = Onwards(st)
    BY <1>4, <1>5, <1>6, <1>11 DEF Component
  <2>2. PICK e \in s..n : IsComponent(path, s, e)
    BY <1>1, ComponentEnds
  <2>3. SubSeq(path, s + 1, e) \notin {<<Dot>>, <<Dot, Dot>>}
    BY <1>11, <2>2, NoDots
  <2>4. CanonizedTo(path, Onwards(st), s + 1)
    BY <1>2, <2>2, <2>3, OnwardsBehind
  <2> QED
    BY <1>2, <2>1, <2>4 DEF Canonized
<1> QED
  BY <1>7, <1>8, <1>9, <1>10, <1>11

(* A turn for a character that is no slash.                                *)
LEMMA LetterTurn ==
  ASSUME NEW path \in Seq(Nat), NEW n \in Nat, n = Len(path), NEW p \in 1..n, path[p] # Slash,
         NEW same \in BOOLEAN, NEW q \in Nat, NEW dst \in Seq(Nat), GoesOn(path, same, FALSE, p, q, dst)
  PROVE  CanonizedTo(path, Onwards(Store(CanonizeLocals(same, FALSE, p, q, dst), path[p])), p + 1)
<1>1. /\ Unread(path, same, p, q, dst)
      /\ \/ BeforeSlashes(path, p, SubSeq(dst, 1, q - 1))
         \/ BehindSlashes(path, p, SubSeq(dst, 1, q - 1))
  BY DEF GoesOn
<1>2. PICK d \in Seq(Nat) :
        /\ Store(CanonizeLocals(same, FALSE, p, q, dst), path[p]) = CanonizeLocals(same, FALSE, p, q, d)
        /\ Unread(path, same, p, q, d) /\ q <= Len(d) /\ d[q] = path[p]
        /\ SubSeq(d, 1, q - 1) = SubSeq(dst, 1, q - 1)
        /\ SubSeq(d, 1, q) = SubSeq(dst, 1, q - 1) \o <<path[p]>>
  <2>1. FALSE \in BOOLEAN
    OBVIOUS
  <2>2. PICK d \in Seq(Nat) : StoredAs(path, same, FALSE, p, q, dst, d)
    BY <1>1, <2>1, StoresChar
  <2> QED
    BY <2>2 DEF StoredAs
<1>3. PICK r \in Nat : r = p /\ r <= Len(path)
  OBVIOUS
<1>4. /\ Onwards(CanonizeLocals(same, FALSE, p, q, d)) = CanonizeLocals(same, FALSE, p + 1, q + 1, d)
      /\ Unread(path, same, p + 1, q + 1, d)
  <2>1. OnwardsIs(path, same, FALSE, r, q, d)
    BY <1>2, <1>3, UnreadOnwards
  <2> QED
    BY <1>3, <2>1 DEF OnwardsIs
<1>5. PICK out \in Seq(Nat) : out = SubSeq(dst, 1, q - 1)
  <2>1. 1 <= q /\ q <= Len(dst) + 1
    BY <1>1 DEF Unread
  <2>2. PICK b \in Nat : b = q - 1 /\ b <= Len(dst)
    BY <2>1
  <2>3. FrontIs(dst, b)
    BY <2>2, FrontKnown
  <2> QED
    BY <2>2, <2>3 DEF FrontIs
<1>6. \/ BeforeSlashes(path, p + 1, out \o <<path[p]>>)
      \/ BehindSlashes(path, p + 1, out \o <<path[p]>>)
  <2>1. CASE BeforeSlashes(path, p, out)
    BY <2>1, BeforeGrows
  <2>2. CASE BehindSlashes(path, p, out)
    BY <2>2, BehindGrows
  <2> QED
    BY <1>1, <1>5, <2>1, <2>2
<1>7. (q + 1) - 1 = q
  OBVIOUS
<1>8. SubSeq(d, 1, (q + 1) - 1) = out \o <<path[p]>>
  BY <1>2, <1>5, <1>7
<1>9. GoesOn(path, same, FALSE, p + 1, q + 1, d)
  BY <1>4, <1>6, <1>8 DEF GoesOn
<1>10. FALSE \in BOOLEAN /\ p + 1 \in Nat /\ q + 1 \in Nat /\ p + 1 <= p + 1
  OBVIOUS
<1>11. CanonizedTo(path, CanonizeLocals(same, FALSE, p + 1, q + 1, d), p + 1)
  BY <1>9, <1>10 DEF CanonizedTo
<1> QED
  BY <1>2, <1>4, <1>11

(* The last one of the slashes that begin at p.                            *)
SkipsTo(path, same, inner, p, q, dst, l) ==
  /\ l \in p..Len(path) /\ At(path, l + 1) # Slash /\ \A i \in (p + 1)..l : path[i] = Slash
  /\ SkipSlashes(path, CanonizeLocals(same, inner, p, q, dst)) = CanonizeLocals(same, inner, l, q, dst)

(* There is a last one, and p is set to it.                                *)
LEMMA SlashesPassed ==
  ASSUME NEW path \in Seq(Nat), NEW n \in Nat, n = Len(path), NEW p \in 1..n,
         NEW same \in BOOLEAN, NEW inner \in BOOLEAN, NEW q \in Nat, NEW dst \in Seq(Nat),
         Unread(path, same, p, q, dst)
  PROVE  \E l \in p..n : SkipsTo(path, same, inner, p, q, dst, l)
<1> DEFINE S == {j \in p..n : At(path, j + 1) # Slash}
           Is(j) == At(path, j + 1) # Slash /\ \A i \in (p + 1)..j : path[i] = Slash
<1>1. S \subseteq Nat /\ S # {}
  <2>1. n \in p..n /\ n + 1 \notin 1..n
    OBVIOUS
  <2>2. At(path, n + 1) # Slash
    BY <2>1 DEF At, Other, Slash
  <2>3. n \in S
    BY <2>1, <2>2
  <2>4. p..n \subseteq Nat
    OBVIOUS
  <2>5. S \subseteq p..n
    OBVIOUS
  <2> QED
    BY <2>3, <2>4, <2>5
<1>2. PICK j \in S : \A x \in S : j <= x
  <2>1. Min(S) \in S /\ \A x \in S : Min(S) <= x
    BY <1>1, LeastOf
  <2> QED
    BY <2>1
<1>3. \A i \in (p + 1)..j : path[i] = Slash
  <2>1. SUFFICES ASSUME NEW i \in (p + 1)..j PROVE path[i] = Slash
    OBVIOUS
  <2>2. PICK k \in p..n : k = i - 1 /\ k + 1 = i /\ k < j /\ i \in 1..n
    <3>1. i - 1 \in p..n /\ (i - 1) + 1 = i /\ i - 1 < j /\ i \in 1..n
      OBVIOUS
    <3> QED
      BY <3>1
  <2>3. k \notin S
    <3>1. \A x \in S : j <= x
      BY <1>2
    <3>2. j \in Nat /\ ~(j <= k)
      BY <1>1, <1>2, <2>2
    <3> HIDE DEF S
    <3> QED
      BY <3>1, <3>2
  <2>4. At(path, k + 1) = Slash
    BY <2>2, <2>3
  <2>5. At(path, i) = Slash
    BY <2>2, <2>4
  <2> QED
    BY <2>2, <2>5 DEF At
<1>4. j \in p..n /\ Is(j)
  BY <1>3
<1>5. PICK st : st = CanonizeLocals(same, inner, p, q, dst)
  OBVIOUS
<1>6. st.p = p
  BY <1>5 DEF CanonizeLocals
<1>7. \A k \in Nat : k >= p => CharAt(path, st, k) = At(path, k)
  BY <1>5, ReadsPath
<1> DEFINE Seen(k) == CharAt(path, st, k + 1) # Slash /\ \A i \in (p + 1)..k : CharAt(path, st, i) = Slash
<1>8. ASSUME NEW k \in p..n PROVE Seen(k) <=> Is(k)
  <2>1. k + 1 \in Nat /\ k + 1 >= p
    OBVIOUS
  <2>2. CharAt(path, st, k + 1) = At(path, k + 1)
    BY <1>7, <2>1
  <2>3. ASSUME NEW i \in (p + 1)..k PROVE CharAt(path, st, i) = path[i]
    <3>1. i \in Nat /\ i >= p /\ i \in 1..n
      OBVIOUS
    <3>2. CharAt(path, st, i) = At(path, i)
      BY <1>7, <3>1
    <3> QED
      BY <3>1, <3>2 DEF At
  <2> QED
    BY <2>2, <2>3
<1>9. PICK l : l = CHOOSE k \in p..n : Seen(k)
  OBVIOUS
<1> HIDE DEF Is
<1>10. \E k \in p..n : Seen(k)
  BY <1>4, <1>8
<1>11. l \in p..n /\ Seen(l)
  <2> HIDE DEF Seen
  <2> QED
    BY <1>9, <1>10
<1>12. Is(l)
  <2> HIDE DEF Seen
  <2> QED
    BY <1>8, <1>11
<1>13. SkipSlashes(path, st) = [st EXCEPT !.p = l]
  <2>1. SkipSlashes(path, st) = [st EXCEPT !.p = CHOOSE k \in p..n : Seen(k)]
    BY <1>6 DEF SkipSlashes
  <2> QED
    BY <1>9, <2>1
<1>14. [st EXCEPT !.p = l] = CanonizeLocals(same, inner, l, q, dst)
  <2>1. SetsPointers(same, inner, p, q, dst, l, q)
    BY PointersSet
  <2> QED
    BY <1>5, <2>1 DEF SetsPointers
<1>15. /\ l \in p..Len(path) /\ At(path, l + 1) # Slash /\ \A i \in (p + 1)..l : path[i] = Slash
  BY <1>11, <1>12 DEF Is
<1>16. SkipsTo(path, same, inner, p, q, dst, l)
  <2>1. SkipSlashes(path, CanonizeLocals(same, inner, p, q, dst)) = CanonizeLocals(same, inner, l, q, dst)
    BY <1>5, <1>13, <1>14
  <2> QED
    BY <1>15, <2>1 DEF SkipsTo
<1>17. l \in p..n
  BY <1>11
<1> QED
  BY <1>16, <1>17

(* A turn for slashes.                                                     *)
LEMMA SlashTurn ==
  ASSUME NEW path \in Seq(Nat), NEW n \in Nat, n = Len(path), NEW p \in 1..n, path[p] = Slash,
         NEW same \in BOOLEAN, NEW inner \in BOOLEAN, NEW q \in Nat, NEW dst \in Seq(Nat),
         GoesOn(path, same, inner, p, q, dst)
  PROVE  Canonized(path, Component(path, SkipSlashes(path, Store(CanonizeLocals(same, inner, p, q, dst), Slash))), p + 1)
<1>1. Unread(path, same, p, q, dst)
  BY DEF GoesOn
<1>2. AtSlash(path, p, SubSeq(dst, 1, q - 1))
  <2>1. CASE inner
    BY <2>1 DEF GoesOn
  <2>2. CASE ~inner
    <3>1. \/ BeforeSlashes(path, p, SubSeq(dst, 1, q - 1))
          \/ BehindSlashes(path, p, SubSeq(dst, 1, q - 1))
      BY <2>2 DEF GoesOn
    <3> QED
      BY <3>1, BecomesAtSlash
  <2> QED
    BY <2>1, <2>2
<1>3. PICK d \in Seq(Nat) :
        /\ Store(CanonizeLocals(same, inner, p, q, dst), path[p]) = CanonizeLocals(same, inner, p, q, d)
        /\ Unread(path, same, p, q, d) /\ q <= Len(d) /\ d[q] = path[p]
        /\ SubSeq(d, 1, q - 1) = SubSeq(dst, 1, q - 1)
  <2>1. PICK d \in Seq(Nat) : StoredAs(path, same, inner, p, q, dst, d)
    BY <1>1, StoresChar
  <2> QED
    BY <2>1 DEF StoredAs
<1>4. PICK l \in p..n : SkipsTo(path, same, inner, p, q, d, l)
  BY <1>3, SlashesPassed
<1>5. /\ At(path, l + 1) # Slash /\ \A i \in (p + 1)..l : path[i] = Slash
      /\ SkipSlashes(path, CanonizeLocals(same, inner, p, q, d)) = CanonizeLocals(same, inner, l, q, d)
  BY <1>4 DEF SkipsTo
<1>6. AtSlash(path, l, SubSeq(d, 1, q - 1))
  <2>1. PICK out : out = SubSeq(dst, 1, q - 1)
    OBVIOUS
  <2>2. AtSlash(path, p, out)
    BY <1>2, <2>1
  <2>3. AtSlash(path, l, out)
    BY <1>5, <2>2, SlashesSkipped
  <2> QED
    BY <1>3, <2>1, <2>3
<1>7. Unread(path, same, l, q, d)
  <2>1. PICK ld \in Nat : ld = Len(d)
    OBVIOUS
  <2>2. 1 <= q /\ q <= p /\ p <= n + 1 /\ q <= ld + 1 /\ (same => ld = n /\ \A k \in p..n : d[k] = path[k])
    BY <1>3, <2>1 DEF Unread
  <2>3. q <= l /\ l <= n + 1 /\ \A k \in l..n : k \in p..n
    BY <2>2
  <2> QED
    BY <2>1, <2>2, <2>3 DEF Unread
<1>8. SlashTaken(path, same, l, q, d)
  BY <1>3, <1>6, <1>7 DEF SlashTaken
<1>9. PICK s \in 1..n : s = l
  OBVIOUS
<1>10. Canonized(path, Component(path, CanonizeLocals(same, inner, s, q, d)), s + 1)
  <2>1. SlashTaken(path, same, s, q, d) /\ At(path, s + 1) # Slash
    BY <1>5, <1>8, <1>9
  <2> QED
    BY <2>1, ComponentGoesOn
<1>11. PICK made : made = Component(path, SkipSlashes(path, Store(CanonizeLocals(same, inner, p, q, dst), Slash)))
  OBVIOUS
<1>12. Canonized(path, made, l + 1)
  BY <1>3, <1>5, <1>9, <1>10, <1>11
<1>13. l + 1 \in Nat /\ p + 1 \in Nat /\ p + 1 <= l + 1
  OBVIOUS
<1>14. CASE CanonizedTo(path, made, l + 1)
  <2>1. CanonizedTo(path, made, p + 1)
    BY <1>13, <1>14, CanonizedBefore
  <2> QED
    BY <1>11, <2>1 DEF Canonized
<1>15. CASE ~made.ok /\ LeavesRoot(path)
  BY <1>11, <1>15 DEF Canonized
<1> QED
  BY <1>12, <1>14, <1>15 DEF Canonized

(* A turn brings the end nearer.                                           *)
LEMMA TurnCanonizes ==
  ASSUME NEW path \in Seq(Nat), NEW m \in Nat, m <= Len(path), NEW st, Canonized(path, st, m)
  PROVE  Canonized(path, CanonizeTurn(path, st), m + 1)
<1>1. CASE ~st.ok /\ LeavesRoot(path)
  BY <1>1 DEF CanonizeTurn, Canonized
<1>2. CASE CanonizedTo(path, st, m)
  <2>1. PICK same \in BOOLEAN, inner \in BOOLEAN, p \in Nat, q \in Nat, dst \in Seq(Nat) :
          st = CanonizeLocals(same, inner, p, q, dst) /\ m <= p /\ GoesOn(path, same, inner, p, q, dst)
    BY <1>2 DEF CanonizedTo
  <2>2. st.ok = TRUE /\ st.p = p /\ st.inner = inner
    BY <2>1 DEF CanonizeLocals
  <2>3. Unread(path, same, p, q, dst) /\ 1 <= p /\ p <= Len(path) + 1
    BY <2>1 DEF GoesOn, Unread
  <2>4. PICK n \in Nat : n = Len(path)
    OBVIOUS
  <2>5. CASE p > n
    <3>1. CanonizeTurn(path, st) = st
      BY <2>2, <2>4, <2>5 DEF CanonizeTurn, AtEnd
    <3>2. m + 1 <= p
      BY <2>4, <2>5
    <3>3. CanonizedTo(path, st, m + 1)
      BY <2>1, <3>2 DEF CanonizedTo
    <3> QED
      BY <3>1, <3>3 DEF Canonized
  <2>6. CASE p <= n
    <3>1. PICK k \in 1..n : k = p
      BY <2>3, <2>6
    <3>2. CharAt(path, st, p) = path[p]
      <4>1. p \in Nat /\ p >= p
        OBVIOUS
      <4>2. CharAt(path, st, p) = At(path, p)
        BY <2>1, <2>3, <2>4, <4>1, ReadsPath
      <4>3. At(path, k) = path[k]
        BY <2>4 DEF At
      <4> QED
        BY <3>1, <4>2, <4>3
    <3>3. m + 1 \in Nat /\ p + 1 \in Nat /\ m + 1 <= p + 1
      BY <2>1
    <3>4. ~AtEnd(path, st.p)
      BY <2>2, <2>4, <2>6 DEF AtEnd
    <3>5. CASE ~inner /\ path[p] # Slash
      <4>1. CanonizeTurn(path, st) = Onwards(Store(st, path[p]))
        BY <2>2, <3>2, <3>4, <3>5 DEF CanonizeTurn
      <4>2. inner = FALSE
        BY <3>5
      <4>3. CanonizedTo(path, Onwards(Store(CanonizeLocals(same, FALSE, k, q, dst), path[k])), k + 1)
        BY <2>1, <2>4, <3>1, <3>5, <4>2, LetterTurn
      <4>4. CanonizedTo(path, CanonizeTurn(path, st), p + 1)
        BY <2>1, <3>1, <4>1, <4>2, <4>3
      <4>5. CanonizedTo(path, CanonizeTurn(path, st), m + 1)
        BY <3>3, <4>4, CanonizedBefore
      <4> QED
        BY <4>5 DEF Canonized
    <3>6. CASE ~(~inner /\ path[p] # Slash)
      <4>1. CanonizeTurn(path, st) = Component(path, SkipSlashes(path, Store(st, Slash)))
        BY <2>2, <3>2, <3>4, <3>6 DEF CanonizeTurn
      <4>2. path[p] = Slash
        BY <2>1, <3>6 DEF GoesOn, AtSlash
      <4>3. Canonized(path, Component(path, SkipSlashes(path, Store(CanonizeLocals(same, inner, k, q, dst), Slash))), k + 1)
        BY <2>1, <2>4, <3>1, <4>2, SlashTurn
      <4>4. PICK made : made = CanonizeTurn(path, st)
        OBVIOUS
      <4>5. Canonized(path, made, p + 1)
        BY <2>1, <3>1, <4>1, <4>3, <4>4
      <4>6. CASE CanonizedTo(path, made, p + 1)
        <5>1. CanonizedTo(path, made, m + 1)
          BY <3>3, <4>6, CanonizedBefore
        <5> QED
          BY <4>4, <5>1 DEF Canonized
      <4>7. CASE ~made.ok /\ LeavesRoot(path)
        BY <4>4, <4>7 DEF Canonized
      <4> QED
        BY <4>5, <4>6, <4>7 DEF Canonized
    <3> QED
      BY <3>5, <3>6
  <2> QED
    BY <2>4, <2>5, <2>6
<1> QED
  BY <1>1, <1>2 DEF Canonized

(* Before the first turn.                                                  *)
LEMMA StartCanonized ==
  ASSUME NEW path \in Seq(Nat), NEW same \in BOOLEAN
  PROVE  Canonized(path, CanonizeStart(path, same), 1)
<1>1. PICK dst \in Seq(Nat) : dst = IF same THEN path ELSE <<>>
  <2>1. <<>> \in Seq(Nat)
    OBVIOUS
  <2>2. (IF same THEN path ELSE <<>>) \in Seq(Nat)
    BY <2>1
  <2> QED
    BY <2>2
<1>2. CanonizeStart(path, same) = CanonizeLocals(same, FALSE, 1, 1, dst)
  BY <1>1 DEF CanonizeStart, CanonizeLocals
<1>3. PICK n \in Nat, l \in Nat : n = Len(path) /\ l = Len(dst)
  OBVIOUS
<1>4. 1 <= n + 1 /\ 1 <= l + 1 /\ (same => dst = path)
  BY <1>1, <1>3
<1>5. Unread(path, same, 1, 1, dst)
  BY <1>3, <1>4 DEF Unread
<1>6. 1 - 1 = 0 /\ 1..0 = {}
  OBVIOUS
<1>7. SubSeq(dst, 1, 0) = <<>> /\ SubSeq(path, 1, 0) = <<>>
  BY SubSeqEmpty
<1>8. BeforeSlashes(path, 1, SubSeq(dst, 1, 1 - 1))
  BY <1>6, <1>7 DEF BeforeSlashes
<1>9. GoesOn(path, same, FALSE, 1, 1, dst)
  BY <1>5, <1>8 DEF GoesOn
<1>10. 1 \in Nat /\ 1 <= 1 /\ FALSE \in BOOLEAN
  OBVIOUS
<1> QED
  BY <1>2, <1>9, <1>10 DEF CanonizedTo, Canonized

(* By induction, after all turns p is at the end.                          *)
LEMMA TurnsCanonize ==
  ASSUME NEW path \in Seq(Nat), NEW n \in Nat, n = Len(path), NEW same \in BOOLEAN
  PROVE  Canonized(path, CanonizeTurns(path, same)[n], n + 1)
<1> DEFINE S == {k \in Nat : k <= n => Canonized(path, CanonizeTurns(path, same)[k], k + 1)}
<1>1. 0 \in S
  <2>1. CanonizeTurns(path, same)[0] = CanonizeStart(path, same)
    BY CanonizeTurnsAre
  <2>2. 0 + 1 = 1
    OBVIOUS
  <2> QED
    BY <2>1, <2>2, StartCanonized
<1>2. ASSUME NEW k \in Nat, k \in S PROVE k + 1 \in S
  <2> SUFFICES ASSUME k + 1 <= n PROVE Canonized(path, CanonizeTurns(path, same)[k + 1], (k + 1) + 1)
    BY DEF S
  <2>1. PICK m \in Nat : m = k + 1 /\ m - 1 = k /\ m <= Len(path) /\ m \in 1..Len(path)
    <3>1. k + 1 \in Nat /\ (k + 1) - 1 = k /\ k + 1 <= Len(path) /\ k + 1 \in 1..Len(path)
      OBVIOUS
    <3> QED
      BY <3>1
  <2>2. PICK st : st = CanonizeTurns(path, same)[k]
    OBVIOUS
  <2>3. Canonized(path, st, m)
    BY <1>2, <2>1, <2>2
  <2>4. CanonizeTurns(path, same)[m] = CanonizeTurn(path, CanonizeTurns(path, same)[m - 1])
    BY <2>1, CanonizeTurnsAre
  <2>5. Canonized(path, CanonizeTurn(path, st), m + 1)
    BY <2>1, <2>3, TurnCanonizes
  <2> QED
    BY <2>1, <2>2, <2>4, <2>5
<1> HIDE DEF S
<1>3. Nat \subseteq S
  BY <1>1, <1>2, SetInduction
<1>4. n \in S
  BY <1>3
<1> QED
  BY <1>4 DEF S

(* What the text of the whole path is.                                     *)
LEMMA TextOfWhole ==
  ASSUME NEW path \in Seq(Nat), NEW n \in Nat, n = Len(path)
  PROVE  /\ EndsWith(path, {<<>>, <<Dot>>}) => NormalText(path, Normal(path).list) = TextUpTo(path, n) \o <<Slash>>
         /\ ~EndsWith(path, {<<>>, <<Dot>>}) => NormalText(path, Normal(path).list) = TextUpTo(path, n)
<1>1. PICK t \in Seq(Nat) : t = TextUpTo(path, n)
  <2>1. n \in 0..n
    OBVIOUS
  <2> QED
    BY <2>1, TextKnown
<1>2. t = HeadOf(path) \o Rooted(Normal(path).list)
  BY <1>1 DEF TextUpTo, Normal
<1>3. NormalText(path, Normal(path).list) = t \o (IF EndsWith(path, {<<>>, <<Dot>>}) THEN <<Slash>> ELSE <<>>)
  BY <1>2 DEF NormalText
<1>4. t \o <<>> = t
  BY ConcatEmptySeq
<1> QED
  BY <1>1, <1>3, <1>4

(* At the end.                                                             *)
LEMMA EndCanonized ==
  ASSUME NEW path \in Seq(Nat), NEW n \in Nat, n = Len(path), NEW p, p = n + 1, NEW out,
         BeforeSlashes(path, p, out) \/ BehindSlashes(path, p, out)
  PROVE  ~LeavesRoot(path) /\ out = NormalText(path, Normal(path).list)
<1>1. p - 1 = n
  OBVIOUS
<1>2. CASE BeforeSlashes(path, p, out)
  <2>1. (\A i \in 1..n : path[i] # Slash) /\ out = SubSeq(path, 1, n)
    BY <1>1, <1>2 DEF BeforeSlashes
  <2>2. out = path
    BY <2>1, SubSeqFull
  <2>3. HeadOf(path) = path /\ Slashes(path) = {}
    BY <2>1, HeadKnown
  <2>4. Normal(path) = [ok |-> TRUE, list |-> <<>>]
    <3>1. 0 \in 0..n /\ n \in 0..n /\ \A i \in (0 + 1)..n : i \in 1..n
      OBVIOUS
    <3>2. NormalUpTo(path)[n] = NormalUpTo(path)[0]
      BY <2>1, <3>1, NormalStays
    <3>3. NormalUpTo(path)[0] = [ok |-> TRUE, list |-> <<>>]
      BY NormalKnown
    <3> QED
      BY <3>2, <3>3 DEF Normal
  <2>5. \A cs : ~EndsWith(path, cs)
    BY <2>3 DEF EndsWith
  <2>6. NormalText(path, Normal(path).list) = path
    <3>1. NormalText(path, Normal(path).list) = TextUpTo(path, n)
      BY <2>5, TextOfWhole
    <3>2. n \in 0..n /\ NormalUpTo(path)[n].list = <<>>
      BY <2>4 DEF Normal
    <3>3. TextUpTo(path, n) = HeadOf(path)
      BY <3>2, TextKnown
    <3> QED
      BY <2>3, <3>1, <3>3
  <2>7. ~LeavesRoot(path)
    BY <2>4, <2>5 DEF LeavesRoot
  <2> QED
    BY <2>2, <2>6, <2>7
<1>3. CASE BehindSlashes(path, p, out)
  <2>1. PICK s \in 1..n : BehindSlash(path, s, p) /\ (InComponent(path, s, p, out) \/ AtLastSlash(path, s, p, out))
    BY <1>3 DEF BehindSlashes
  <2>2. path[s] = Slash /\ NormalUpTo(path)[s - 1].ok /\ \A i \in (s + 1)..n : path[i] # Slash
    BY <1>1, <2>1 DEF BehindSlash
  <2>3. n \in s..n /\ IsComponent(path, s, n)
    BY <2>2 DEF IsComponent
  <2>4. PICK c : c = SubSeq(path, s + 1, n)
    OBVIOUS
  <2>5. \A cs : EndsWith(path, cs) <=> c \in cs
    BY <2>3, <2>4, LastComponent
  <2>6. CASE InComponent(path, s, p, out)
    <3>1. c \notin {<<>>, <<Dot>>, <<Dot, Dot>>}
      BY <2>3, <2>4, <2>6 DEF InComponent, Staying
    <3>2. NormalUpTo(path)[n].ok /\ TextUpTo(path, n) = TextUpTo(path, s - 1) \o (<<Slash>> \o c)
      BY <2>2, <2>3, <2>4, <3>1, TextNamed
    <3>3. out = TextUpTo(path, s - 1) \o (<<Slash>> \o c)
      BY <1>1, <2>4, <2>6 DEF InComponent
    <3>4. ~EndsWith(path, {<<>>, <<Dot>>}) /\ ~EndsWith(path, {<<Dot, Dot>>})
      BY <2>5, <3>1
    <3>5. NormalText(path, Normal(path).list) = TextUpTo(path, n)
      BY <3>4, TextOfWhole
    <3>6. ~LeavesRoot(path)
      BY <3>2, <3>4 DEF LeavesRoot, Normal
    <3> QED
      BY <3>2, <3>3, <3>5, <3>6
  <2>7. CASE AtLastSlash(path, s, p, out)
    <3>1. c \in {<<>>, <<Dot>>} /\ out = TextUpTo(path, s - 1) \o <<Slash>>
      BY <2>4, <2>7 DEF AtLastSlash
    <3>2. NormalUpTo(path)[n] = NormalUpTo(path)[s - 1] /\ TextUpTo(path, n) = TextUpTo(path, s - 1)
      BY <2>3, <2>4, <3>1, TextSkipped
    <3>3. EndsWith(path, {<<>>, <<Dot>>})
      BY <2>5, <3>1
    <3>4. ~EndsWith(path, {<<Dot, Dot>>})
      <4>1. <<>> # <<Dot, Dot>> /\ <<Dot>> # <<Dot, Dot>>
        BY DEF Dot
      <4> QED
        BY <2>5, <3>1, <4>1
    <3>5. NormalText(path, Normal(path).list) = TextUpTo(path, n) \o <<Slash>>
      BY <3>3, TextOfWhole
    <3>6. ~LeavesRoot(path)
      BY <2>2, <3>2, <3>4 DEF LeavesRoot, Normal
    <3> QED
      BY <3>1, <3>2, <3>5, <3>6
  <2> QED
    BY <2>1, <2>6, <2>7
<1> QED
  BY <1>2, <1>3

(* The path as a whole.                                                    *)
LEMMA PathIsMade ==
  ASSUME NEW path \in Seq(Nat), NEW same \in BOOLEAN
  PROVE  PathMade(path, UriCanonizePath(path, same))
<1>1. PICK n \in Nat : n = Len(path)
  OBVIOUS
<1>2. PICK st : st = CanonizeTurns(path, same)[n]
  OBVIOUS
<1>3. Canonized(path, st, n + 1)
  BY <1>1, <1>2, TurnsCanonize
<1>4. UriCanonizePath(path, same) = CanonizeResult(st)
  BY <1>1, <1>2 DEF UriCanonizePath
<1>5. CASE ~st.ok /\ LeavesRoot(path)
  <2>1. ~CanonizeResult(st).ok
    BY <1>5 DEF CanonizeResult
  <2> QED
    BY <1>4, <1>5, <2>1 DEF PathMade, LeavesRoot
<1>6. CASE CanonizedTo(path, st, n + 1)
  <2>1. PICK is \in BOOLEAN, inner \in BOOLEAN, p \in Nat, q \in Nat, dst \in Seq(Nat) :
          st = CanonizeLocals(is, inner, p, q, dst) /\ n + 1 <= p /\ GoesOn(path, is, inner, p, q, dst)
    BY <1>6 DEF CanonizedTo
  <2>2. p = n + 1
    <3>1. p <= Len(path) + 1
      BY <2>1 DEF GoesOn, Unread
    <3> QED
      BY <1>1, <2>1, <3>1
  <2>3. ~inner
    <3>1. inner => p \in 1..Len(path)
      BY <2>1 DEF GoesOn, AtSlash
    <3> QED
      BY <1>1, <2>2, <3>1
  <2>4. PICK out : out = SubSeq(dst, 1, q - 1)
    OBVIOUS
  <2>5. BeforeSlashes(path, p, out) \/ BehindSlashes(path, p, out)
    BY <2>1, <2>3, <2>4 DEF GoesOn
  <2>6. ~LeavesRoot(path) /\ out = NormalText(path, Normal(path).list)
    BY <1>1, <2>2, <2>5, EndCanonized
  <2>7. CanonizeResult(st) = [ok |-> TRUE, path |-> out]
    BY <2>1, <2>4 DEF CanonizeResult, CanonizeLocals
  <2> QED
    BY <1>4, <2>6, <2>7 DEF PathMade, LeavesRoot
<1> QED
  BY <1>3, <1>5, <1>6 DEF Canonized

(* y is x with j more slashes behind the one at a.                         *)
SlashesAdded(x, y, a, j) ==
  /\ Len(y) = Len(x) + j /\ a \in 1..Len(x) /\ x[a] = Slash
  /\ \A i \in 1..a : y[i] = x[i]
  /\ \A i \in 1..j : y[a + i] = Slash
  /\ \A i \in (a + 1)..Len(x) : y[j + i] = x[i]

(* The next character is kept, or not, by what is in front of it.          *)
Squeeze(so, c, before) == IF c = Slash /\ before = Slash THEN so ELSE Append(so, c)

(* That is what the reference does with each character.                    *)
LEMMA SqueezedTurn ==
  ASSUME NEW path \in Seq(Nat), NEW k \in 1..Len(path)
  PROVE  SqueezedUpTo(path)[k] = Squeeze(SqueezedUpTo(path)[k - 1], path[k], At(path, k - 1))
<1>1. SqueezedUpTo(path)[k] = (IF path[k] = Slash /\ At(path, k - 1) = Slash THEN SqueezedUpTo(path)[k - 1]
                               ELSE Append(SqueezedUpTo(path)[k - 1], path[k]))
  BY SqueezedUpToAre
<1> QED
  BY <1>1 DEF Squeeze

(* Slashes behind a slash make no difference.                              *)
LEMMA SqueezedAlike ==
  ASSUME NEW x \in Seq(Nat), NEW y \in Seq(Nat), NEW a \in Nat, NEW j \in Nat, SlashesAdded(x, y, a, j)
  PROVE  Squeezed(y) = Squeezed(x)
<1>1. PICK n \in Nat : n = Len(x) /\ Len(y) = n + j
  BY DEF SlashesAdded
<1>2. /\ a \in 1..n /\ x[a] = Slash
      /\ \A i \in 1..a : y[i] = x[i]
      /\ \A i \in 1..j : y[a + i] = Slash
      /\ \A i \in (a + 1)..n : y[j + i] = x[i]
  BY <1>1 DEF SlashesAdded
<1> DEFINE P == {k \in Nat : k <= a => SqueezedUpTo(y)[k] = SqueezedUpTo(x)[k]}
           Q == {d \in Nat : d <= j => SqueezedUpTo(y)[a + d] = SqueezedUpTo(x)[a]}
           R == {d \in Nat : a + d <= n => SqueezedUpTo(y)[j + (a + d)] = SqueezedUpTo(x)[a + d]}
<1>3. 0 \in P
  <2>1. SqueezedUpTo(y)[0] = <<>> /\ SqueezedUpTo(x)[0] = <<>>
    BY SqueezedUpToAre
  <2> QED
    BY <2>1
<1>4. ASSUME NEW k \in Nat, k \in P PROVE k + 1 \in P
  <2> SUFFICES ASSUME k + 1 <= a PROVE SqueezedUpTo(y)[k + 1] = SqueezedUpTo(x)[k + 1]
    BY DEF P
  <2>1. PICK m \in Nat : m = k + 1 /\ m - 1 = k /\ m \in 1..Len(x) /\ m \in 1..Len(y) /\ m \in 1..a
    <3>1. k + 1 \in Nat /\ (k + 1) - 1 = k /\ k + 1 \in 1..n /\ k + 1 \in 1..(n + j) /\ k + 1 \in 1..a
      BY <1>2
    <3> QED
      BY <1>1, <3>1
  <2>2. SqueezedUpTo(y)[k] = SqueezedUpTo(x)[k]
    BY <1>4, <2>1
  <2>3. y[m] = x[m]
    BY <1>2, <2>1
  <2>4. At(y, k) = At(x, k)
    <3>1. CASE k = 0
      BY <3>1 DEF At
    <3>2. CASE k # 0
      <4>1. k \in 1..a /\ k \in 1..n /\ k \in 1..(n + j)
        BY <2>1, <3>2, <1>2, SMTT(30)
      <4> QED
        BY <1>1, <1>2, <4>1 DEF At
    <3> QED
      BY <3>1, <3>2
  <2>5. SqueezedUpTo(y)[m] = Squeeze(SqueezedUpTo(y)[m - 1], y[m], At(y, m - 1))
    BY <2>1, SqueezedTurn
  <2>6. SqueezedUpTo(x)[m] = Squeeze(SqueezedUpTo(x)[m - 1], x[m], At(x, m - 1))
    BY <2>1, SqueezedTurn
  <2> QED
    BY <2>1, <2>2, <2>3, <2>4, <2>5, <2>6
<1>5. SqueezedUpTo(y)[a] = SqueezedUpTo(x)[a]
  <2> HIDE DEF P
  <2>1. a \in P
    BY <1>3, <1>4, SetInduction
  <2> QED
    BY <2>1 DEF P
<1>6. 0 \in Q
  <2>1. a + 0 = a
    OBVIOUS
  <2> QED
    BY <1>5, <2>1
<1>7. ASSUME NEW d \in Nat, d \in Q PROVE d + 1 \in Q
  <2> SUFFICES ASSUME d + 1 <= j PROVE SqueezedUpTo(y)[a + (d + 1)] = SqueezedUpTo(x)[a]
    BY DEF Q
  <2>1. PICK m \in Nat : m = a + (d + 1) /\ m - 1 = a + d /\ m \in 1..Len(y) /\ a + d \in 1..Len(y)
    <3>1. a + (d + 1) \in Nat /\ (a + (d + 1)) - 1 = a + d /\ a + (d + 1) \in 1..(n + j) /\ a + d \in 1..(n + j)
      BY <1>2
    <3> QED
      BY <1>1, <3>1
  <2>2. SqueezedUpTo(y)[a + d] = SqueezedUpTo(x)[a]
    BY <1>7, <2>1
  <2>3. y[m] = Slash
    <3>1. d + 1 \in 1..j
      OBVIOUS
    <3> QED
      BY <1>2, <2>1, <3>1
  <2>4. y[a + d] = Slash
    <3>1. CASE d = 0
      <4>1. a + d = a /\ a \in 1..a
        BY <3>1, <1>2
      <4> QED
        BY <1>2, <4>1
    <3>2. CASE d # 0
      <4>1. d \in 1..j
        BY <3>2
      <4> QED
        BY <1>2, <4>1
    <3> QED
      BY <3>1, <3>2
  <2>5. At(y, a + d) = Slash
    BY <2>1, <2>4 DEF At
  <2>6. SqueezedUpTo(y)[m] = Squeeze(SqueezedUpTo(y)[m - 1], y[m], At(y, m - 1))
    BY <2>1, SqueezedTurn
  <2>7. SqueezedUpTo(y)[m] = SqueezedUpTo(y)[m - 1]
    BY <2>1, <2>3, <2>5, <2>6 DEF Squeeze
  <2> QED
    BY <2>1, <2>2, <2>7
<1>8. SqueezedUpTo(y)[a + j] = SqueezedUpTo(x)[a]
  <2> HIDE DEF Q
  <2>1. j \in Q
    BY <1>6, <1>7, SetInduction
  <2> QED
    BY <2>1 DEF Q
<1>9. 0 \in R
  <2>1. a + 0 = a /\ j + a = a + j
    OBVIOUS
  <2> QED
    BY <1>8, <2>1
<1>10. ASSUME NEW d \in Nat, d \in R PROVE d + 1 \in R
  <2> SUFFICES ASSUME a + (d + 1) <= n
               PROVE SqueezedUpTo(y)[j + (a + (d + 1))] = SqueezedUpTo(x)[a + (d + 1)]
    BY DEF R
  <2>1. PICK k \in Nat, m \in Nat, o \in Nat, b \in Nat :
          /\ k = a + d /\ m = a + (d + 1) /\ m - 1 = k /\ k \in 1..n /\ m \in 1..n /\ m \in (a + 1)..n
          /\ b = j + k /\ o = j + m /\ o - 1 = b /\ b \in 1..(n + j) /\ o \in 1..(n + j)
    <3>1. /\ a + d \in Nat /\ a + (d + 1) \in Nat /\ (a + (d + 1)) - 1 = a + d /\ a + d \in 1..n
          /\ a + (d + 1) \in 1..n /\ a + (d + 1) \in (a + 1)..n
      BY <1>2
    <3>2. /\ j + (a + d) \in Nat /\ j + (a + (d + 1)) \in Nat /\ (j + (a + (d + 1))) - 1 = j + (a + d)
          /\ j + (a + d) \in 1..(n + j) /\ j + (a + (d + 1)) \in 1..(n + j)
      BY <1>2
    <3> QED
      BY <3>1, <3>2
  <2>2. SqueezedUpTo(y)[b] = SqueezedUpTo(x)[k]
    BY <1>10, <2>1
  <2>3. y[o] = x[m]
    BY <1>2, <2>1
  <2>4. y[b] = x[k]
    <3>1. CASE d = 0
      <4>1. k = a /\ b = a + j
        BY <2>1, <3>1
      <4>2. CASE j = 0
        <5>1. b = a /\ a \in 1..a
          BY <4>1, <4>2, <1>2
        <5> QED
          BY <1>2, <4>1, <5>1
      <4>3. CASE j # 0
        <5>1. j \in 1..j
          BY <4>3
        <5> QED
          BY <1>2, <4>1, <5>1
      <4> QED
        BY <4>2, <4>3
    <3>2. CASE d # 0
      <4>1. k \in (a + 1)..n
        BY <2>1, <3>2
      <4> QED
        BY <1>2, <2>1, <4>1
    <3> QED
      BY <3>1, <3>2
  <2>5. At(y, b) = At(x, k)
    BY <1>1, <2>1, <2>4 DEF At
  <2>6. SqueezedUpTo(y)[o] = Squeeze(SqueezedUpTo(y)[o - 1], y[o], At(y, o - 1))
    <3>1. o \in 1..Len(y)
      BY <1>1, <2>1
    <3> QED
      BY <3>1, SqueezedTurn
  <2>7. SqueezedUpTo(x)[m] = Squeeze(SqueezedUpTo(x)[m - 1], x[m], At(x, m - 1))
    <3>1. m \in 1..Len(x)
      BY <1>1, <2>1
    <3> QED
      BY <3>1, SqueezedTurn
  <2>8. SqueezedUpTo(y)[o] = SqueezedUpTo(x)[m]
    BY <2>1, <2>2, <2>3, <2>5, <2>6, <2>7
  <2> QED
    BY <2>1, <2>8
<1>11. SqueezedUpTo(y)[n + j] = SqueezedUpTo(x)[n]
  <2> HIDE DEF R
  <2>1. n - a \in Nat /\ a + (n - a) = n /\ j + n = n + j
    BY <1>2
  <2>2. n - a \in R
    BY <1>9, <1>10, <2>1, SetInduction
  <2>3. SqueezedUpTo(y)[j + (a + (n - a))] = SqueezedUpTo(x)[a + (n - a)]
    BY <2>1, <2>2 DEF R
  <2> QED
    BY <2>1, <2>3
<1> QED
  BY <1>1, <1>11 DEF Squeezed

(* The slashes in front of a file name.                                    *)
LEMMA UnrootedIs ==
  ASSUME NEW file \in Seq(Nat), NEW l \in Nat, l = Len(file)
  PROVE  \E c \in 0..l : (\A i \in 1..c : file[i] = Slash) /\ Unrooted(file) = SubSeq(file, c + 1, l)
<1> DEFINE B == {e \in 0..l : e = l \/ file[e + 1] # Slash}
           L == {k \in DOMAIN file : \A i \in 1..k : file[i] = Slash}
<1>1. B \in SUBSET Nat /\ l \in B
  OBVIOUS
<1>2. PICK c : c \in B /\ \A x \in B : c <= x
  BY <1>1, LeastOf
<1>3. c \in 0..l /\ (c = l \/ file[c + 1] # Slash)
  BY <1>2
<1>4. ASSUME NEW i \in 1..c, file[i] # Slash PROVE FALSE
  <2>1. i - 1 \in 0..l /\ (i - 1) + 1 = i /\ ~(c <= i - 1)
    BY <1>3
  <2>2. i - 1 \in B
    BY <1>4, <2>1
  <2> QED
    BY <1>2, <2>1, <2>2
<1>5. DOMAIN file = 1..l
  OBVIOUS
<1> HIDE DEF B
<1>6. L = 1..c
  <2>1. ASSUME NEW k \in 1..c PROVE k \in L
    <3>1. k \in 1..l /\ \A i \in 1..k : i \in 1..c
      BY <1>3
    <3> QED
      BY <1>4, <1>5, <3>1
  <2>2. ASSUME NEW k \in L, k \notin 1..c PROVE FALSE
    <3>1. k \in 1..l /\ k > c
      BY <1>3, <1>5, <2>2
    <3>2. c < l /\ c + 1 \in 1..k
      BY <1>3, <3>1
    <3>3. file[c + 1] = Slash
      BY <2>2, <3>2
    <3> QED
      BY <1>3, <3>2, <3>3
  <2> QED
    BY <2>1, <2>2
<1>7. Cardinality(1..c) = c
  <2>1. Cardinality(1..c) = IF 1 > c THEN 0 ELSE c - 1 + 1
    BY <1>3, FS_Interval
  <2> QED
    BY <1>3, <2>1
<1>8. Cardinality(L) = c
  BY <1>6, <1>7
<1>9. Unrooted(file) = SubSeq(file, 1 + Cardinality(L), l)
  BY DEF Unrooted
<1> HIDE DEF L
<1>10. 1 + c = c + 1
  BY <1>3
<1>11. Unrooted(file) = SubSeq(file, c + 1, l)
  BY <1>8, <1>9, <1>10
<1> QED
  BY <1>3, <1>4, <1>11

(* Two names put together with a slash between them.                       *)
JoinIs(path, file, p, l, z) ==
  /\ z \in Seq(Nat) /\ Len(z) = p + 1 + l
  /\ \A i \in 1..p : z[i] = path[i]
  /\ z[p + 1] = Slash
  /\ \A i \in 1..l : z[p + 1 + i] = file[i]

(* They are, one behind the other, what a reader expects.                  *)
LEMMA JoinKnown ==
  ASSUME NEW path \in Seq(Nat), NEW file \in Seq(Nat), NEW p \in Nat, p = Len(path), NEW l \in Nat, l = Len(file)
  PROVE  JoinIs(path, file, p, l, path \o <<Slash>> \o file)
<1>1. PICK sl \in Seq(Nat) : sl = <<Slash>> /\ Len(sl) = 1 /\ sl[1] = Slash
  <2>1. <<Slash>> \in Seq(Nat) /\ Len(<<Slash>>) = 1 /\ <<Slash>>[1] = Slash
    BY DEF Slash
  <2> QED
    BY <2>1
<1>2. PICK ps \in Seq(Nat) : /\ ps = path \o sl /\ Len(ps) = p + 1
                             /\ \A i \in 1..p : ps[i] = path[i]
                             /\ \A i \in 1..1 : ps[p + i] = sl[i]
  <2>1. /\ path \o sl \in Seq(Nat) /\ Len(path \o sl) = Len(path) + Len(sl)
        /\ \A i \in 1..Len(path) : (path \o sl)[i] = path[i]
        /\ \A i \in 1..Len(sl) : (path \o sl)[Len(path) + i] = sl[i]
    BY JoinedBehind
  <2> QED
    BY <1>1, <2>1
<1>3. PICK z \in Seq(Nat) : /\ z = ps \o file /\ Len(z) = p + 1 + l
                            /\ \A i \in 1..(p + 1) : z[i] = ps[i]
                            /\ \A i \in 1..l : z[p + 1 + i] = file[i]
  <2>1. /\ ps \o file \in Seq(Nat) /\ Len(ps \o file) = Len(ps) + Len(file)
        /\ \A i \in 1..Len(ps) : (ps \o file)[i] = ps[i]
        /\ \A i \in 1..Len(file) : (ps \o file)[Len(ps) + i] = file[i]
    BY JoinedBehind
  <2>2. PICK z \in Seq(Nat) : z = ps \o file
    BY <2>1
  <2>3. PICK b \in Nat : b = p + 1 /\ Len(ps) = b
    BY <1>2
  <2>4. Len(z) = b + l /\ (\A i \in 1..b : z[i] = ps[i])
    BY <2>1, <2>2, <2>3
  <2>5. \A i \in 1..l : z[b + i] = file[i]
    BY <2>1, <2>2, <2>3
  <2>6. Len(z) = p + 1 + l /\ \A i \in 1..(p + 1) : z[i] = ps[i]
    BY <2>3, <2>4
  <2>7. \A i \in 1..l : z[p + 1 + i] = file[i]
    BY <2>3, <2>5
  <2> QED
    BY <2>2, <2>6, <2>7
<1>4. z = path \o <<Slash>> \o file
  BY <1>1, <1>2, <1>3
<1>5. p + 1 \in 1..(p + 1) /\ 1 \in 1..1 /\ \A i \in 1..p : i \in 1..(p + 1)
  OBVIOUS
<1>6. z[p + 1] = Slash
  BY <1>1, <1>2, <1>3, <1>5
<1>7. \A i \in 1..p : z[i] = path[i]
  BY <1>2, <1>3, <1>5
<1> QED
  BY <1>3, <1>4, <1>6, <1>7 DEF JoinIs

(* One put behind the other.                                               *)
FollowedBy(path, file, p, l, x) ==
  /\ x \in Seq(Nat) /\ Len(x) = p + l
  /\ \A i \in 1..p : x[i] = path[i]
  /\ \A i \in 1..l : x[p + i] = file[i]

(* Nothing is lost.                                                        *)
LEMMA FollowedKnown ==
  ASSUME NEW path \in Seq(Nat), NEW file \in Seq(Nat), NEW p \in Nat, p = Len(path), NEW l \in Nat, l = Len(file)
  PROVE  FollowedBy(path, file, p, l, path \o file)
<1>1. /\ path \o file \in Seq(Nat) /\ Len(path \o file) = Len(path) + Len(file)
      /\ \A i \in 1..Len(path) : (path \o file)[i] = path[i]
      /\ \A i \in 1..Len(file) : (path \o file)[Len(path) + i] = file[i]
  BY JoinedBehind
<1> QED
  BY <1>1 DEF FollowedBy

(* What create_pathname makes.                                             *)
LEMMA PathnameJoined ==
  ASSUME NEW path \in Seq(Nat), NEW file \in Seq(Nat), path # <<>>
  PROVE  /\ Squeezed(CreatePathname(path, file)) = Squeezed(path \o <<Slash>> \o file)
         /\ Len(CreatePathname(path, file)) + 1 <= 2 + Len(path) + Len(file)
<1>1. PICK p \in Nat, l \in Nat : p = Len(path) /\ l = Len(file) /\ p >= 1
  <2>1. Len(path) # 0
    BY EmptySeq
  <2> QED
    BY <2>1
<1>2. PICK z : z = path \o <<Slash>> \o file
  OBVIOUS
<1>3. JoinIs(path, file, p, l, z)
  BY <1>1, <1>2, JoinKnown
<1>4. /\ z \in Seq(Nat) /\ Len(z) = p + 1 + l
      /\ \A i \in 1..p : z[i] = path[i]
      /\ z[p + 1] = Slash
      /\ \A i \in 1..l : z[p + 1 + i] = file[i]
  BY <1>3 DEF JoinIs
<1>5. CASE Last(path) = Slash
  <2>1. path[p] = Slash
    BY <1>1, <1>5 DEF Last
  <2>2. PICK c \in 0..l : (\A i \in 1..c : file[i] = Slash) /\ Unrooted(file) = SubSeq(file, c + 1, l)
    BY <1>1, UnrootedIs
  <2>3. PICK u \in Seq(Nat), r \in Nat : /\ u = Unrooted(file) /\ r = l - c /\ Len(u) = r
                                         /\ \A i \in 1..r : u[i] = file[c + i]
    <3>1. c + 1 \in 1..(l + 1) /\ l \in ((c + 1) - 1)..l /\ l - (c + 1) + 1 = l - c /\ l - c \in Nat
      OBVIOUS
    <3>2. /\ SubSeq(file, c + 1, l) \in Seq(Nat) /\ Len(SubSeq(file, c + 1, l)) = l - (c + 1) + 1
          /\ \A i \in 1..(l - (c + 1) + 1) : SubSeq(file, c + 1, l)[i] = file[(c + 1) + i - 1]
      BY <1>1, <3>1, PartOf
    <3>3. \A i \in 1..(l - c) : (c + 1) + i - 1 = c + i
      OBVIOUS
    <3>4. PICK u \in Seq(Nat) : u = SubSeq(file, c + 1, l)
      BY <3>2
    <3>5. PICK r \in Nat : r = l - c
      BY <3>1
    <3>6. Len(u) = r /\ \A i \in 1..r : u[i] = file[(c + 1) + i - 1]
      BY <3>1, <3>2, <3>4, <3>5
    <3>7. \A i \in 1..r : u[i] = file[c + i]
      BY <3>3, <3>5, <3>6
    <3> QED
      BY <2>2, <3>4, <3>5, <3>6, <3>7
  <2>4. PICK x : x = path \o u
    OBVIOUS
  <2>5. FollowedBy(path, u, p, r, x)
    BY <1>1, <2>3, <2>4, FollowedKnown
  <2>6. /\ x \in Seq(Nat) /\ Len(x) = p + r
        /\ \A i \in 1..p : x[i] = path[i]
        /\ \A i \in 1..r : x[p + i] = u[i]
    BY <2>5 DEF FollowedBy
  <2>7. PICK j \in Nat : j = c + 1
    OBVIOUS
  <2>8. SlashesAdded(x, z, p, j)
    <3>1. p + 1 + l = (p + r) + j /\ p \in 1..(p + r) /\ p \in 1..p
      BY <1>1, <2>3, <2>7
    <3>2. x[p] = Slash
      BY <2>1, <2>6, <3>1
    <3>3. \A i \in 1..p : z[i] = x[i]
      BY <1>4, <2>6
    <3>4. ASSUME NEW i \in 1..j PROVE z[p + i] = Slash
      <4>1. CASE i = 1
        BY <1>4, <4>1
      <4>2. CASE i # 1
        <5>1. PICK h \in 1..c : h = i - 1 /\ p + 1 + h = p + i /\ h \in 1..l
          <6>1. i - 1 \in 1..c /\ p + 1 + (i - 1) = p + i /\ i - 1 \in 1..l
            BY <2>7, <4>2
          <6> QED
            BY <6>1
        <5>2. z[p + 1 + h] = file[h]
          BY <1>4, <5>1
        <5> QED
          BY <2>2, <5>1, <5>2
      <4> QED
        BY <4>1, <4>2
    <3>5. ASSUME NEW i \in (p + 1)..(p + r) PROVE z[j + i] = x[i]
      <4>1. PICK h \in 1..r, g \in 1..l : h = i - p /\ p + h = i /\ g = c + h /\ p + 1 + g = j + i
        <5>1. i - p \in 1..r /\ c + (i - p) \in 1..l /\ p + (i - p) = i /\ p + 1 + (c + (i - p)) = j + i
          BY <2>3, <2>7
        <5> QED
          BY <5>1
      <4>2. x[i] = u[h] /\ u[h] = file[g] /\ z[j + i] = file[g]
        BY <1>4, <2>3, <2>6, <4>1
      <4> QED
        BY <4>2
    <3> QED
      BY <1>4, <2>6, <3>1, <3>2, <3>3, <3>4, <3>5 DEF SlashesAdded
  <2>9. Squeezed(z) = Squeezed(x)
    BY <1>4, <2>6, <2>8, SqueezedAlike
  <2>10. CreatePathname(path, file) = x
    BY <1>5, <2>3, <2>4 DEF CreatePathname
  <2>11. (p + r) + 1 <= 2 + p + l
    BY <2>3
  <2> QED
    BY <1>1, <1>2, <2>6, <2>9, <2>10, <2>11
<1>6. CASE Last(path) # Slash /\ At(file, 1) = Slash
  <2>1. 1 \in 1..l /\ file[1] = Slash
    <3>1. 1 \notin 1..l => At(file, 1) = Other
      BY <1>1 DEF At
    <3>2. 1 \in 1..l
      BY <1>6, <3>1 DEF Other, Slash
    <3> QED
      BY <1>1, <1>6, <3>2 DEF At
  <2>2. PICK x : x = path \o file
    OBVIOUS
  <2>3. FollowedBy(path, file, p, l, x)
    BY <1>1, <2>2, FollowedKnown
  <2>4. /\ x \in Seq(Nat) /\ Len(x) = p + l
        /\ \A i \in 1..p : x[i] = path[i]
        /\ \A i \in 1..l : x[p + i] = file[i]
    BY <2>3 DEF FollowedBy
  <2>5. PICK a \in Nat : a = p + 1
    OBVIOUS
  <2>6. SlashesAdded(x, z, a, 1)
    <3>1. p + 1 + l = (p + l) + 1 /\ a \in 1..(p + l)
      BY <2>1, <2>5
    <3>2. x[a] = Slash
      BY <2>1, <2>4, <2>5
    <3>3. ASSUME NEW i \in 1..a PROVE z[i] = x[i]
      <4>1. CASE i = a
        BY <1>4, <2>5, <3>2, <4>1
      <4>2. CASE i # a
        <5>1. i \in 1..p
          BY <2>5, <4>2
        <5> QED
          BY <1>4, <2>4, <5>1
      <4> QED
        BY <4>1, <4>2
    <3>4. ASSUME NEW i \in 1..1 PROVE z[a + i] = Slash
      BY <1>4, <2>1, <2>5
    <3>5. ASSUME NEW i \in (a + 1)..(p + l) PROVE z[1 + i] = x[i]
      <4>1. PICK h \in 1..l : p + h = i /\ p + 1 + h = 1 + i
        <5>1. i - p \in 1..l /\ p + (i - p) = i /\ p + 1 + (i - p) = 1 + i
          BY <2>5
        <5> QED
          BY <5>1
      <4>2. x[i] = file[h] /\ z[1 + i] = file[h]
        BY <1>4, <2>4, <4>1
      <4> QED
        BY <4>2
    <3> QED
      BY <1>4, <2>4, <3>1, <3>2, <3>3, <3>4, <3>5 DEF SlashesAdded
  <2>7. Squeezed(z) = Squeezed(x)
    <3>1. 1 \in Nat
      OBVIOUS
    <3> QED
      BY <1>4, <2>4, <2>6, <3>1, SqueezedAlike
  <2>8. CreatePathname(path, file) = x
    BY <1>6, <2>2 DEF CreatePathname
  <2>9. (p + l) + 1 <= 2 + p + l
    OBVIOUS
  <2> QED
    BY <1>1, <1>2, <2>4, <2>7, <2>8, <2>9
<1>7. CASE Last(path) # Slash /\ At(file, 1) # Slash
  <2>1. CreatePathname(path, file) = z
    BY <1>2, <1>7 DEF CreatePathname
  <2>2. (p + 1 + l) + 1 <= 2 + p + l
    OBVIOUS
  <2> QED
    BY <1>1, <1>2, <1>4, <2>1, <2>2
<1> QED
  BY <1>5, <1>6, <1>7

(* A set of jobs has sequences of the characters of a set.                 *)
LEMMA BoundedSequences ==
  ASSUME NEW C \in SUBSET Nat, NEW m
  PROVE  BoundedSeq(C, m) \subseteq Seq(Nat)
<1>1. \A S, n : BoundedSeq(S, n) \subseteq Seq(S)
  BY DEF BoundedSeq, SeqOf
<1>2. BoundedSeq(C, m) \subseteq Seq(C)
  BY <1>1, Zenon
<1>3. Seq(C) \subseteq Seq(Nat)
  BY SeqMonotonic, Zenon
<1> QED
  BY <1>2, <1>3

(* Canonizing a path gives the text of its components with dots, empty     *)
(* components and `..' resolved, also where the path is overwritten by the *)
(* result, or refuses the path if it leaves its root or ends with `/..';   *)
(* and a path and a file name are joined by a slash, in the room that is   *)
(* allocated.                                                              *)
THEOREM PathsMadeCanonical == Spec => []PathsCanonical
<1>0. {Letter, Dot, Slash} \in SUBSET Nat /\ {Letter, Slash} \in SUBSET Nat
  BY DEF Letter, Dot, Slash
<1>1. ASSUME FormatsInv, job.kind = "path", pc = "done"
      PROVE  PathMade(job.path, back)
  <2>1. job \in PathJobs
    BY <1>1, JobsKnown DEF FormatsInv
  <2>2. job.path \in BoundedSeq({Letter, Dot, Slash}, MaxPath) /\ job.same \in BOOLEAN
    BY <2>1 DEF PathJobs
  <2>3. BoundedSeq({Letter, Dot, Slash}, MaxPath) \subseteq Seq(Nat)
    BY <1>0, BoundedSequences, Zenon
  <2>4. back = UriCanonizePath(job.path, job.same)
    BY <1>1 DEF FormatsInv, Parsed
  <2> QED
    BY <2>2, <2>3, <2>4, PathIsMade
<1>2. ASSUME FormatsInv, job.kind = "join", pc = "done"
      PROVE  /\ Squeezed(back) = Squeezed(job.path \o <<Slash>> \o job.file)
             /\ Len(back) + 1 <= 2 + Len(job.path) + Len(job.file)
  <2>1. job \in JoinJobs
    BY <1>2, JobsKnown DEF FormatsInv
  <2>2. job.path \in BoundedSeq({Letter, Slash}, 3) \ {<<>>} /\ job.file \in BoundedSeq({Letter, Slash}, 3)
    BY <2>1 DEF JoinJobs
  <2>3. BoundedSeq({Letter, Slash}, 3) \subseteq Seq(Nat)
    BY <1>0, BoundedSequences, Zenon
  <2>4. job.path \in Seq(Nat) /\ job.path # <<>> /\ job.file \in Seq(Nat)
    BY <2>2, <2>3
  <2>5. back = CreatePathname(job.path, job.file)
    BY <1>2 DEF FormatsInv, Parsed
  <2> QED
    BY <2>4, <2>5, PathnameJoined
<1>3. FormatsInv => PathsCanonical
  BY <1>1, <1>2 DEF PathsCanonical
<1> QED
  BY <1>3, FormatsKnown, PTL
=============================================================================

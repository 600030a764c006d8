-------------------------------- MODULE Text --------------------------------
(***************************************************************************)
(* The characters of the texts that lib/nettools.c prints and parses, and  *)
(* what is common to their parsers.  A character is the value of a         *)
(* hexadecimal digit or one of the constants below; a name that is only    *)
(* looked for as a whole, and the tail that makes a short name a long one, *)
(* is one character.  Behind the end of a text there are only characters   *)
(* that fit nowhere, as NUL is.                                            *)
(***************************************************************************)
EXTENDS Integers, SequencesExt, FiniteSetsExt

Colon == 16
Dot == 17
Open == 18
Close == 19
Other == 20
Space == 21
Comma == 22
Hyphen == 23
Slash == 24
Plus == 25
Percent == 26
Newline == 27
Illegal == 28    \* not a printable ASCII character
Letter == 29     \* a letter that is not a hexadecimal digit
T == 30
Z == 31
GMT == 34
UTC == 35
Http == 36       \* "http://"
Day(i) == 40 + i        \* "Sun" is Day(0)
DayTail(i) == 50 + i    \* "Sunday" is <<Day(0), DayTail(0)>>
Month(i) == 60 + i      \* "Jan" is Month(0)

(* How many bytes such a character has.                                    *)
Width(c) == IF c \in {GMT, UTC} \cup {Day(i) : i \in 0..6} \cup {Month(i) : i \in 0..11} THEN 3
            ELSE IF c = Http THEN 7 ELSE 1

At(text, k) == IF k \in 1..Len(text) THEN text[k] ELSE Other

IsSpace(c) == c \in {Space, Newline}
IsDigit(c) == c \in 0..9

(* What skip_spaces returns.                                               *)
BehindSpaces(text, k) ==
  CHOOSE n \in k..(k + Len(text)) : ~IsSpace(At(text, n)) /\ \A i \in k..(n - 1) : IsSpace(At(text, i))

(* The digits of text from position k on, and the number they are.         *)
Digits(text, k, base, most) ==
  LET n == CHOOSE n \in 0..most :
             /\ \A j \in 0..(n - 1) : At(text, k + j) < base
             /\ n = most \/ At(text, k + n) >= base
  IN  [len |-> n, value |-> FoldLeft(LAMBDA v, d : v * base + d, 0, SubSeq(text, k, k + n - 1))]

(* The digits of a number without zeros in front.                          *)
Decimal[n \in Nat] == IF n < 10 THEN <<n>> ELSE Append(Decimal[n \div 10], n % 10)
=============================================================================

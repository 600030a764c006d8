------------------------------- MODULE Codec --------------------------------
(***************************************************************************)
(* lib/base32.c and lib/base16.c: what the encoders and decoders return    *)
(* and store.  A character is its value in the alphabet (in either case,   *)
(* as the maps are), Pad or Bad; the maps themselves are not modelled.     *)
(***************************************************************************)
EXTENDS Integers, SequencesExt, FiniteSetsExt

Byte == 0..255
Pad == 32    \* '='
Bad == 33    \* a character of neither alphabet
Past == 34   \* the byte 255, for which the maps have no entry
Nul == 16    \* in base 16, the NUL behind base16_alphabet: memchr finds it too

(* The maps are as long as the largest byte, so that 255 is looked up      *)
(* behind their end.                                                       *)
LookedUp(text, behind) == [k \in DOMAIN text |-> IF text[k] = Past THEN behind ELSE text[k]]

CeilDiv(m, n) == (m + n - 1) \div n

-----------------------------------------------------------------------------
(* base32_encode: groups of five bytes to eight characters, the last group *)
(* cut to the characters its bytes need; an empty input makes a group too. *)

(* The shifts and masks of the loop, x being the five bytes of a group.    *)
Symbols(x) == <<
  x[1] \div 8,
  (x[1] % 8) * 4 + (x[2] \div 64),
  (x[2] \div 2) % 32,
  (x[2] % 2) * 16 + (x[3] \div 16),
  (x[3] % 16) * 2 + (x[4] \div 128),
  (x[4] \div 4) % 32,
  (x[4] % 4) * 8 + (x[5] \div 32),
  x[5] % 32 >>

(* Mutant: a last group of one byte is cut to its whole symbols.           *)
ShortSymbolCount(left) == IF left \in 1..4 THEN <<1, 3, 5, 7>>[left] ELSE 8

(* Characters for `left' remaining bytes.                                  *)
SymbolCount(left) == IF left \in 1..4 THEN <<2, 3, 5, 7>>[left] ELSE 8

(* The five bytes of a group, zeros behind the last byte.                  *)
Group(bytes, g) ==
  [j \in 1..5 |-> IF 5 * (g - 1) + j <= Len(bytes) THEN bytes[5 * (g - 1) + j] ELSE 0]

GroupCount(len) == IF len = 0 THEN 1 ELSE CeilDiv(len, 5)
Base32Length(len) == 8 * (GroupCount(len) - 1) + SymbolCount(len - 5 * (GroupCount(len) - 1))

Base32Encode(size, bytes) ==
  [k \in 1..Min({size, Base32Length(Len(bytes))}) |->
     Symbols(Group(bytes, CeilDiv(k, 8)))[1 + ((k - 1) % 8)]]

(* Mutant: the shift of the second octet's last bit is forgotten.          *)
UnshiftedOctets(s) == <<
  s[1] * 8 + (s[2] \div 4),
  (s[2] % 4) * 64 + (s[3] * 2) + (s[4] % 2),
  (s[4] % 16) * 16 + (s[5] \div 2),
  (s[5] % 2) * 128 + (s[6] * 4) + (s[7] \div 8),
  (s[7] % 8) * 32 + s[8] >>

(* The five bytes that eight symbols stand for.                            *)
Octets(s) == <<
  s[1] * 8 + (s[2] \div 4),
  (s[2] % 4) * 64 + (s[3] * 2) + (s[4] \div 16),
  (s[4] % 16) * 16 + (s[5] \div 2),
  (s[5] % 2) * 128 + (s[6] * 4) + (s[7] \div 8),
  (s[7] % 8) * 32 + s[8] >>

(* Mutant: a bad character is skipped.                                     *)
LenientBase32Decode(size, text) ==
  LET good == SelectSeq(text, LAMBDA c : c < Pad)
      whole == Len(good) \div 8
      dst == FlattenSeq([g \in 1..whole |-> Octets(SubSeq(good, 8 * g - 7, 8 * g))])
      kept == SubSeq(dst, 1, Min({size, Len(dst)}))
  IN  [dst |-> kept, ret |-> Len(kept)]

Symbol(c) == IF c = Pad THEN 0 ELSE c

(* What fits of the octets is stored.                                      *)
CopyOut(dst, octets, size) == dst \o SubSeq(octets, 1, Min({5, size - Len(dst)}))

(* base32_decode: the turn of its loop for character k.  The third '='     *)
(* ends the loop, as does a full destination; a bad character makes it     *)
(* return -1 with what was stored so far left in place; a last group of    *)
(* fewer than eight characters is dropped.                                 *)
Base32Turn(size, text, st, k) ==
  IF st.end THEN st
  ELSE IF text[k] = Bad THEN [st EXCEPT !.ret = -1, !.end = TRUE]
  ELSE LET pads == IF text[k] = Pad THEN st.pads - 1 ELSE st.pads
           symbols == [j \in 1..8 |-> Symbol(text[k - 8 + j])]
           dst == IF k % 8 = 0 THEN CopyOut(st.dst, Octets(symbols), size) ELSE st.dst
       IN  [pads |-> pads, dst |-> dst, ret |-> Len(dst), end |-> pads = 0 \/ Len(dst) = size]

Base32Turns(size, text) ==
  LET turn[k \in 0..Len(text)] ==
        IF k = 0 THEN [pads |-> 3, dst |-> <<>>, ret |-> 0, end |-> FALSE]
        ELSE Base32Turn(size, text, turn[k - 1], k)
  IN  turn

Base32Decode(size, text) == Base32Turns(size, text)[Len(text)]

-----------------------------------------------------------------------------
(* Mutant: the digits of a byte are swapped.                               *)
SwappedBase16Encode(bytes) ==
  [k \in 1..(2 * Len(bytes)) |->
     LET c == bytes[CeilDiv(k, 2)] IN IF k % 2 = 1 THEN c % 16 ELSE c \div 16]

(* base16_encode: how many bytes are taken.  A destination that is too     *)
(* small makes them size * 2, not size / 2.                                *)
Base16Taken(size, len) == IF size \div 2 < len THEN size * 2 ELSE len

(* base16_encode: the characters of the bytes that are taken.              *)
Base16Encode(bytes) ==
  [k \in 1..(2 * Len(bytes)) |->
     LET c == bytes[CeilDiv(k, 2)] IN IF k % 2 = 1 THEN c \div 16 ELSE c % 16]

(* The four bits of a high digit in a byte, and a low digit or-ed to them: *)
(* of the value of a NUL, the one is empty and the other a single bit.     *)
HighBits(c) == (c % 16) * 16
WithLow(high, c) == IF c = Nul /\ (high \div 16) % 2 = 1 THEN high ELSE high + c

(* base16_decode: the high digit is stored, the low one or-ed; a byte of   *)
(* which only the high digit came is stored but not counted.               *)
Base16Decode(size, text) ==
  LET len == IF size < Len(text) \div 2 THEN size * 2 ELSE Len(text)
      bad == {k \in 1..len : text[k] \notin 0..Nul}
      good == IF bad = {} THEN len ELSE Min(bad) - 1
  IN  [dst |-> [k \in 1..CeilDiv(good, 2) |->
                 IF 2 * k <= good THEN WithLow(HighBits(text[2 * k - 1]), text[2 * k])
                 ELSE HighBits(text[2 * k - 1])],
       ret |-> IF bad = {} THEN len \div 2 ELSE -1]

-----------------------------------------------------------------------------
(* Reference: a sequence of numbers of w bits each as one string of bits,  *)
(* the highest one of each number first.                                   *)
Weight == <<1, 2, 4, 8, 16, 32, 64, 128>>
Bit(w, s, k) == (s[CeilDiv(k, w)] \div Weight[w - ((k - 1) % w)]) % 2
BitString(w, s) == [k \in 1..(w * Len(s)) |-> Bit(w, s, k)]
=============================================================================

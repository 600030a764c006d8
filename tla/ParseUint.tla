----------------------------- MODULE ParseUint ------------------------------
(***************************************************************************)
(* parse_uint16, parse_uint32 and parse_uint64 of lib/nettools.c, a step   *)
(* per character, and the digits their counterparts print.                 *)
(*                                                                         *)
(* A character is the value its digit or letter has, or Other.  The three  *)
(* functions differ in the type the product is calculated in and in a      *)
(* short cut of the 64-bit one, so that one module stands for them all.    *)
(***************************************************************************)
EXTENDS Integers, Sequences

CONSTANTS
  Modulus,  \* 2^16, 2^32 or 2^64 in the code
  Bases,    \* number systems a caller asks for
  Texts,    \* strings to be parsed
  Other     \* a character that is no digit and no letter, or the NUL

ASSUME BaseAssumption == Bases \subseteq 2..36
ASSUME ModulusAssumption == Modulus \in Nat /\ Modulus >= 36
ASSUME TextAssumption == Texts \subseteq Seq((0..35) \cup {Other}) /\ Other \notin Int

VARIABLES
  kind,   \* the function that was called
  base,   \* its argument
  src,    \* its argument: characters not looked at yet
  p,      \* local p: digits accepted
  v,      \* local v
  error,  \* local error, then *errorptr
  pc,     \* "loop", "end" behind the loop, or "done"
  value,  \* history: the number the digits looked at so far stand for
  text    \* history: the whole argument

vars == <<kind, base, src, p, v, error, pc, value, text>>

Init ==
  /\ kind \in {"uint16", "uint32", "uint64"}
  /\ base \in Bases
  /\ src \in Texts
  /\ p = 0 /\ v = 0 /\ error = "none" /\ pc = "loop"
  /\ value = 0 /\ text = src

(* The next character is a digit of the number system.                     *)
AtDigit == src # <<>> /\ Head(src) # Other /\ Head(src) < base

(* w = v * base.  With uint16_t it is calculated in 32 bits.               *)
Product == IF kind = "uint16" THEN v * base ELSE (v * base) % Modulus

(* ov: below this value no product overflows.                              *)
Safe == (Modulus - 1) \div base

(* Mutant: the short cut is off by one.                                    *)
LateProductOverflows ==
  /\ kind = "uint64" => v > Safe + 1
  /\ Product \div base # v

ProductOverflows ==
  /\ kind = "uint64" => v >= Safe
  /\ Product \div base # v

Sum == (Product + Head(src)) % Modulus

(* The two tests of the loop.                                              *)
TooLarge == ProductOverflows \/ Sum < Product

LookAt == value' = value * base + Head(src) /\ src' = Tail(src)

Add ==
  /\ pc = "loop" /\ AtDigit
  /\ ~TooLarge
  /\ v' = Sum
  /\ p' = p + 1
  /\ LookAt
  /\ UNCHANGED <<kind, base, error, pc, text>>

Overflow ==
  /\ pc = "loop" /\ AtDigit
  /\ TooLarge
  /\ v' = IF ProductOverflows THEN v ELSE Sum
  /\ error' = "ERANGE"
  /\ pc' = "end"
  /\ LookAt
  /\ UNCHANGED <<kind, base, p, text>>

Stop ==
  /\ pc = "loop" /\ ~AtDigit
  /\ pc' = "end"
  /\ UNCHANGED <<kind, base, src, p, v, error, value, text>>

(* Mutant: a text without a digit is zero.                                 *)
LenientReturn ==
  /\ pc = "end"
  /\ v' = IF error # "none" THEN 0 ELSE v
  /\ pc' = "done"
  /\ UNCHANGED <<kind, base, src, p, error, value, text>>

Return ==
  /\ pc = "end"
  /\ error' = IF error = "none" /\ p = 0 THEN "EINVAL" ELSE error
  /\ v' = IF error' # "none" THEN 0 ELSE v
  /\ pc' = "done"
  /\ UNCHANGED <<kind, base, src, p, value, text>>

Next == Add \/ Overflow \/ Stop \/ Return

Spec == Init /\ [][Next]_vars

-----------------------------------------------------------------------------
(* Mutant: the loop goes on until nothing is left, for 0 as well.          *)
EmptyZeroPrinted(n) ==
  LET digits[k \in Nat] == IF k = 0 THEN <<>> ELSE Append(digits[k \div 10], k % 10)
  IN  digits[n]

(* The digits that print_uint16, print_uint32 and print_uint64 collect.    *)
Printed(n) ==
  LET digits[k \in Nat] == IF k < 10 THEN <<k>> ELSE Append(digits[k \div 10], k % 10)
  IN  digits[n]

-----------------------------------------------------------------------------
(* Types and ranges; the accumulator always fits the type.                 *)
TypeOK ==
  /\ kind \in {"uint16", "uint32", "uint64"}
  /\ base \in Bases
  /\ src \in Seq((0..35) \cup {Other})
  /\ p \in Nat /\ v \in 0..(Modulus - 1) /\ value \in Nat
  /\ error \in {"none", "ERANGE", "EINVAL"}
  /\ pc \in {"loop", "end", "done"}

(* nettools.c:522, "EINVAL means there was no number [...] at all. ERANGE  *)
(* means the number would exceed (2^64)-1.  On success it's set to zero."  *)
(* An overflow is detected whenever there is one and never without one,    *)
(* in every number system, by the test of the product or by that of the    *)
(* sum; otherwise the value is that of the digits.                         *)
ExactRange ==
  /\ pc = "loop" => error = "none" /\ v = value
  /\ pc # "loop" => (error = "ERANGE") = (value >= Modulus)
  /\ pc = "done" =>
       /\ error = "none" => v = value /\ p > 0
       /\ error # "none" => v = 0
       /\ error = "EINVAL" => p = 0

(* What makes ExactRange inductive.                                        *)
IndInv ==
  /\ TypeOK
  /\ ExactRange
  /\ pc = "end" => error \in {"none", "ERANGE"}
  /\ pc = "end" /\ error = "none" => v = value

(* A decimal number without leading zeros that was parsed to its end is    *)
(* printed as it was written.                                              *)
PrintsBack ==
  pc = "done" /\ base = 10 /\ error = "none" /\ p = Len(text) /\ (text[1] = 0 => p = 1) =>
    Printed(v) = text
=============================================================================

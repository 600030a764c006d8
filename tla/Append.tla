------------------------------- MODULE Append -------------------------------
(***************************************************************************)
(* The append functions of lib/append.h, with the print_uint functions of  *)
(* lib/nettools.c they call: a caller holds a pointer into a buffer and    *)
(* the number of bytes left there, and hands both from call to call.       *)
(*                                                                         *)
(* The pointer is a number of bytes from the start of the buffer.  A       *)
(* character is a model value; what matters is how many bytes its escaped  *)
(* form has.  A number is the sequence of its digits, no more than the     *)
(* local buffers of the print_uint functions hold.                         *)
(***************************************************************************)
EXTENDS Integers, Sequences, SequencesExt

CONSTANTS
  Capacities,  \* sizes of the buffer
  MaxCalls,    \* calls made by one caller
  Chars,       \* characters of these
  Texts,       \* strings that are appended
  Numbers,     \* digits of the numbers that are appended
  Wide,        \* those that do not fit 32 bits
  Scaled,      \* results of humanize_value: [i, f: digits, suf: text]
  DateText,    \* a date as print_rfc1123_date prints it
  Octal,       \* characters that are escaped by three octal digits
  Quoted,      \* characters that are escaped by a backslash
  NUL, Backslash, Digit, Blank, Dot, Unit,   \* characters the functions store themselves
  Unset,       \* contents of a byte nothing was stored in
  Null,        \* the NULL pointer
  Base         \* address of the buffer

ASSUME CapacityAssumption == Capacities \subseteq Nat
ASSUME TextAssumption ==
  /\ {Blank, Dot, Unit} \subseteq Chars
  /\ Texts \cup Numbers \cup {DateText} \subseteq Seq(Chars)
  /\ \A s \in Scaled : {s.i, s.f, s.suf} \subseteq Seq(Chars)
ASSUME NullAssumption == Null \notin Int
ASSUME BaseAssumption == Base \in Nat

VARIABLES
  cap,    \* size of the whole buffer
  dst,    \* the caller's pointer
  size,   \* the caller's count of bytes left
  mem,    \* contents of the buffer
  plan,   \* calls that append_size has still to make
  src,    \* loops over a string to be escaped: the rest of it
  left,   \* their local left
  pc,     \* "call", or which of these loops is running
  calls,  \* calls made so far
  high,   \* history: the last byte that was stored to
  want,   \* history: the text all calls together should have made
  kinds   \* history: the kinds of functions called

local == <<plan, src, left, pc>>
history == <<calls, want, kinds>>
vars == <<cap, dst, size, mem, local, high, history>>

-----------------------------------------------------------------------------
Init ==
  /\ cap \in Capacities
  /\ dst = 0 /\ size = cap
  /\ mem = [k \in 1..cap |-> Unset]
  /\ plan = <<>> /\ src = <<>> /\ left = 0 /\ pc = "call"
  /\ calls = 0 /\ high = 0 /\ want = <<>> /\ kinds = {}

(* Store text at the pointer, and a NUL behind it if there is to be one;   *)
(* the pointer moves to the end of the text.                               *)
Store(text, nul) ==
  LET end == dst + Len(text) IN
  /\ mem' = [k \in 1..cap |-> IF dst < k /\ k <= end THEN text[k - dst]
                              ELSE IF nul /\ k = end + 1 THEN NUL ELSE mem[k]]
  /\ high' = LET last == IF nul THEN end + 1 ELSE end IN IF last > high THEN last ELSE high
  /\ dst' = end

Nothing == UNCHANGED <<dst, size, mem, high>>

Least(m, n) == IF m < n THEN m ELSE n

(* Mutant: the room for the NUL is forgotten.                              *)
UnterminatedPutString(t) ==
  IF size = 0 THEN Nothing
  ELSE /\ Store(SubSeq(t, 1, Least(Len(t), size)), TRUE)
       /\ size' = IF Len(t) < size THEN size - Len(t) ELSE 0

(* Mutant: a full buffer is terminated all the same, at its last byte.     *)
OverwritingPutString(t) ==
  IF size = 0 THEN mem' = [k \in 1..cap |-> IF k = dst THEN NUL ELSE mem[k]] /\ UNCHANGED <<dst, size, high>>
  ELSE /\ Store(SubSeq(t, 1, Least(Len(t), size - 1)), TRUE)
       /\ size' = IF Len(t) < size THEN size - Len(t) ELSE 0

(* append_string.                                                          *)
PutString(t) ==
  IF size = 0 THEN Nothing
  ELSE /\ Store(SubSeq(t, 1, Least(Len(t), size - 1)), TRUE)
       /\ size' = IF Len(t) < size THEN size - Len(t) ELSE 0

(* Mutant: the size is not reduced by what was copied.                     *)
RepeatingPutChars(t) ==
  IF Len(t) = 0 \/ size = 0 THEN Nothing
  ELSE Store(SubSeq(t, 1, Least(Len(t), size)), FALSE) /\ size' = size - 1

(* append_chars, and append_char for a text of one character.              *)
PutChars(t) ==
  LET n == Least(Len(t), size) IN
  Store(SubSeq(t, 1, n), FALSE) /\ size' = size - n

(* Mutant: the trailing digits are kept, as print_uint32 does.             *)
TrailingPutUint(d) ==
  IF size < 1 THEN Nothing
  ELSE LET n == Least(Len(d), size - 1) IN
       Store(SubSeq(d, Len(d) - n + 1, Len(d)), TRUE) /\ size' = size - n

(* append_uint, by print_uint: a number that does not fit loses its last   *)
(* digits.                                                                 *)
PutUint(d) ==
  IF size < 1 THEN Nothing
  ELSE LET n == Least(Len(d), size - 1) IN
       Store(SubSeq(d, 1, n), TRUE) /\ size' = size - n

(* append_uint16 and append_uint32, by functions of the same names: the    *)
(* first digits are lost.                                                  *)
PutUint32(d) ==
  IF size < 1 THEN Nothing
  ELSE LET n == Least(Len(d), size - 1) IN
       Store(SubSeq(d, Len(d) - n + 1, Len(d)), TRUE) /\ size' = size - n

(* append_uint64: print_uint64 calls print_uint32 for what fits 32 bits    *)
(* and does as print_uint for the rest.                                    *)
PutUint64(d) == IF d \in Wide THEN PutUint(d) ELSE PutUint32(d)

(* append_date: print_rfc1123_date returns NULL if the buffer is too       *)
(* small, and `p - dst' is subtracted from the size, which so grows by the *)
(* address in dst.                                                         *)
PutDate ==
  IF size > Len(DateText) THEN Store(DateText, TRUE) /\ size' = size - Len(DateText)
  ELSE /\ mem' = [k \in 1..cap |-> IF size > 0 /\ k = dst + 1 THEN NUL ELSE mem[k]]
       /\ high' = IF size > 0 /\ dst + 1 > high THEN dst + 1 ELSE high
       /\ dst' = Null /\ size' = size + Base + dst

(* What append_escaped_char makes of a character.                          *)
Escape(c) ==
  IF c \in Octal THEN <<Backslash, Digit, Digit, Digit>>
  ELSE IF c \in Quoted THEN <<Backslash, c>>
  ELSE <<c>>

-----------------------------------------------------------------------------
(* One call, of a function that has no loop of its own here.               *)
Do(op, t) ==
  /\ \/ op = "string" /\ PutString(t)
     \/ op = "chars" /\ PutChars(t)
     \/ op = "uint" /\ PutUint(t)
     \/ op = "uint32" /\ PutUint32(t)
     \/ op = "uint64" /\ PutUint64(t)
  /\ want' = want \o t
  /\ kinds' = kinds \cup {op}
  /\ UNCHANGED <<cap, src, left, pc>>

Ready == pc = "call" /\ plan = <<>> /\ dst # Null /\ calls < MaxCalls

Call ==
  /\ Ready
  /\ \/ \E t \in Texts : Do("string", t) \/ Do("chars", t)
     \/ \E d \in Numbers : Do("uint64", d)
     \/ \E d \in Numbers \ Wide : Do("uint", d) \/ Do("uint32", d)
  /\ calls' = calls + 1
  /\ UNCHANGED plan

Date ==
  /\ Ready
  /\ PutDate
  /\ want' = want \o DateText
  /\ kinds' = kinds \cup {"date"}
  /\ calls' = calls + 1
  /\ UNCHANGED <<cap, local>>

(* append_size makes two or six calls.                                     *)
Size ==
  /\ Ready
  /\ \E s \in Scaled :
       LET call(op, t) == [op |-> op, text |-> t]
       IN plan' = IF s.suf = <<>>
                  THEN <<call("uint64", s.i), call("chars", <<Blank, Unit>>)>>
                  ELSE <<call("uint64", s.i), call("chars", <<Dot>>), call("uint64", s.f),
                         call("chars", <<Blank>>), call("chars", s.suf), call("chars", <<Unit>>)>>
  /\ calls' = calls + 1
  /\ UNCHANGED <<cap, dst, size, mem, src, left, pc, high, want, kinds>>

SizeCall ==
  /\ pc = "call" /\ plan # <<>>
  /\ \E c \in {Head(plan)} : Do(c.op, c.text)
  /\ plan' = Tail(plan)
  /\ UNCHANGED calls

-----------------------------------------------------------------------------
(* append_escaped_string and append_escaped_chars, a step per character;   *)
(* the one reserves a byte for the NUL, the other does not.  A call of     *)
(* append_escaped_char is append_escaped_chars with one character.         *)
Reserve == IF pc = "escape" THEN 1 ELSE 0

(* Mutant: no byte is reserved.                                            *)
UnreservedEscapeBegin ==
  /\ Ready
  /\ \E t \in Texts, loop \in {"escape", "escape_chars"} :
       /\ kinds' = kinds \cup {loop}
       /\ want' = want \o FlattenSeq([k \in DOMAIN t |-> Escape(t[k])])
       /\ IF size = 0 THEN UNCHANGED <<src, left, pc>>
          ELSE pc' = loop /\ src' = t /\ left' = size
  /\ calls' = calls + 1
  /\ UNCHANGED <<cap, dst, size, mem, plan, high>>

EscapeBegin ==
  /\ Ready
  /\ \E t \in Texts, loop \in {"escape", "escape_chars"} :
       /\ kinds' = kinds \cup {loop}
       /\ want' = want \o FlattenSeq([k \in DOMAIN t |-> Escape(t[k])])
       /\ IF size = 0 THEN UNCHANGED <<src, left, pc>>
          ELSE /\ pc' = loop /\ src' = t
               /\ left' = IF loop = "escape" THEN size - 1 ELSE size
  /\ calls' = calls + 1
  /\ UNCHANGED <<cap, dst, size, mem, plan, high>>

(* The condition of the loop, with the break if nothing was stored.        *)
EscapeMore ==
  /\ src # <<>>
  /\ pc = "escape" => left > 1
  /\ Len(Escape(Head(src))) <= left

(* Mutant: as much of an escape sequence is stored as there is room for.   *)
CutEscapeChar ==
  LET e == Escape(Head(src)) IN
  /\ pc # "call" /\ src # <<>> /\ left > 0
  /\ Store(SubSeq(e, 1, Least(left, Len(e))), FALSE)
  /\ left' = left - Least(left, Len(e))
  /\ src' = Tail(src)
  /\ UNCHANGED <<cap, size, plan, pc, history>>

EscapeChar ==
  /\ pc # "call" /\ EscapeMore
  /\ Store(Escape(Head(src)), FALSE)
  /\ left' = left - Len(Escape(Head(src)))
  /\ src' = Tail(src)
  /\ UNCHANGED <<cap, size, plan, pc, history>>

EscapeEnd ==
  /\ pc # "call" /\ ~EscapeMore
  /\ Store(<<>>, pc = "escape")
  /\ size' = left
  /\ pc' = "call"
  /\ UNCHANGED <<cap, plan, src, left, history>>

Next ==
  \/ Call \/ Date \/ Size \/ SizeCall
  \/ EscapeBegin \/ EscapeChar \/ EscapeEnd

Spec == Init /\ [][Next]_vars

-----------------------------------------------------------------------------
Text == SubSeq(mem, 1, dst)

(* What is still to be appended is text.                                   *)
PendingOK ==
  /\ src \in Seq(Chars)
  /\ plan \in Seq([op : {"uint64", "chars"}, text : Seq(Chars)])

(* Types and ranges of what a caller holds; with the NULL pointer it makes *)
(* no call.                                                                *)
TypeOK ==
  /\ cap \in Nat /\ dst \in Nat \cup {Null} /\ size \in Nat /\ left \in Nat
  /\ high \in Nat
  /\ DOMAIN mem = 1..cap
  /\ PendingOK
  /\ pc \in {"call", "escape", "escape_chars"}
  /\ dst = Null => pc = "call" /\ plan = <<>>

(* append.h:36, "They should protect against buffer overflows": whatever   *)
(* is appended, no function stores beyond the buffer, not even a NUL, and  *)
(* what the caller believes to be left is there.                           *)
InBounds ==
  /\ high <= cap
  /\ dst # Null =>
       /\ pc = "call" => dst + size <= cap
       /\ pc # "call" => dst + left + Reserve <= cap

(* Text that was appended stays: a call stores behind the pointer only.    *)
TextStays == [][dst # Null => \A k \in 1..dst : mem'[k] = mem[k]]_vars

(* What print_iso8601_date, print_net_addr_port and create_pathname rely   *)
(* on: in a buffer that strings and numbers of append_uint are appended    *)
(* to, there is a prefix of the text at any time, and a NUL behind it.     *)
(* That is not what append.h:44 says, "only the ``string'' functions add a *)
(* terminating NUL": the functions for numbers keep a byte for it, too.    *)
TerminatedPrefix ==
  kinds # {} /\ kinds \subseteq {"string", "uint"} /\ cap > 0 =>
    /\ dst < cap /\ mem[dst + 1] = NUL
    /\ IsPrefix(Text, want)

(* The same without the NUL for characters alone; and all of the buffer is *)
(* used before anything is lost.  append.h:45 says "DO NOT reserve a       *)
(* single byte for a NUL" of all functions that are not for strings, but   *)
(* it is so of those for characters only.                                  *)
FilledPrefix ==
  kinds \subseteq {"chars"} =>
    /\ Text = SubSeq(want, 1, Least(cap, Len(want)))
    /\ dst + size = cap

(* The functions for strings leave a NUL behind the text in any order.     *)
StringsTerminated ==
  kinds \subseteq {"string", "escape", "uint", "uint32"} /\ pc = "call" /\ cap > 0 =>
    (kinds # {} => dst < cap /\ mem[dst + 1] = NUL)

(* Escape sequences are never cut: the text can be divided into characters *)
(* as append_escaped_char writes them, each of them whole, a backslash and *)
(* a digit that were escaped or not included.                              *)
EscapesWhole ==
  kinds \subseteq {"escape", "escape_chars"} =>
    \E ends \in SUBSET (0..dst) :
      /\ {0, dst} \subseteq ends
      /\ \A b \in ends \ {dst} : \E c \in Chars :
           LET e == Escape(c)
           IN  b + Len(e) \in ends /\ SubSeq(mem, b + 1, b + Len(e)) = e

(* append.h:41, "the idea to return a pointer to the end of the string":   *)
(* the pointer a function returns is in the buffer.                        *)
PointerInBuffer == dst # Null
=============================================================================

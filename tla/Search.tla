------------------------------- MODULE Search -------------------------------
(***************************************************************************)
(* compat_memmem of lib/compat.c and prime_up of lib/nettools.c.           *)
(***************************************************************************)
EXTENDS Integers, SequencesExt, FiniteSetsExt

(* Mutant: the search begins behind the place where it began before.       *)
Skipping(candidates, start) == {p \in candidates : p > start}

(* What memchr looks through.                                              *)
From(candidates, start) == {p \in candidates : p >= start}

(* compat_memmem: memory holds the data and what is behind it.  Zero is    *)
(* the NULL pointer; a turn looks for the first byte of the pattern from   *)
(* start on, in the data, and compares at what it finds.                   *)
MemmemTurn(st, memory, size, pattern) ==
  LET found == From({p \in 1..size : memory[p] = pattern[1]}, st.start)
  IN  IF st.done THEN st
      ELSE IF size - st.start + 1 < Len(pattern) \/ found = {} THEN [st EXCEPT !.done = TRUE]
      ELSE IF SubSeq(memory, Min(found), Min(found) + Len(pattern) - 1) = pattern
        THEN [st EXCEPT !.done = TRUE, !.at = Min(found)]
      ELSE [st EXCEPT !.start = Min(found) + 1]

(* The locals after each turn of the loop.                                 *)
MemmemTurns(memory, size, pattern) ==
  LET turn[k \in 0..(size + 1)] ==
        IF k = 0 THEN [start |-> 1, done |-> FALSE, at |-> 0]
        ELSE MemmemTurn(turn[k - 1], memory, size, pattern)
  IN  turn

Memmem(memory, size, pattern) ==
  IF pattern = <<>> THEN 1 ELSE MemmemTurns(memory, size, pattern)[size + 1].at

-----------------------------------------------------------------------------
(* prime_up: the sieve is searched only as far as it has bytes (i < size), *)
(* although it has bits up to m; when no prime is found there, m is        *)
(* doubled and the marks are kept.  calloc and realloc succeed.  m stays   *)
(* below 2^32: it is at most 89 * 2^Doublings.                             *)
(* The marks are in words of four bytes, so that a word at the end may     *)
(* reach beyond the size bytes; its bits there are not used.               *)

ArraySize(m) == (m \div 8) + 1

Multiples(i, m) == {j \in (2 * i)..(m - 1) : j % i = 0}

(* A turn of the for loop; st.k is the result.                             *)
Sieve(st, i, n) ==
  IF st.k # 0 \/ i \in st.marked THEN st
  ELSE [marked |-> st.marked \cup Multiples(i, st.m), k |-> IF i >= n THEN i ELSE 0, m |-> st.m]

(* The locals after each i of the for loop, which begins with 2.           *)
SieveTurns(st, n) ==
  LET turn[i \in 1..ArraySize(st.m)] == IF i = 1 THEN st ELSE Sieve(turn[i - 1], i, n)
  IN  turn

SieveAll(st, n) == SieveTurns(st, n)[Max({1, ArraySize(st.m) - 1})]

(* A turn of the do loop: m is doubled if there is no result.              *)
PrimeTurn(st, n) ==
  LET end == SieveAll(st, n)
  IN  IF st.k # 0 THEN st
      ELSE IF end.k # 0 THEN end
      ELSE [marked |-> end.marked, k |-> 0, m |-> 2 * end.m]

(* The turns of the outer loop: enough that ArraySize(m) passes a prime.   *)
Doublings == 12

PrimeTurns(n) ==
  LET turn[d \in 0..(Doublings + 1)] ==
        IF d = 0 THEN [marked |-> {}, k |-> 0, m |-> Min({n, 89})] ELSE PrimeTurn(turn[d - 1], n)
  IN  turn

PrimeUp(n) == PrimeTurns(n)[Doublings + 1].k
=============================================================================

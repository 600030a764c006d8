------------------------------ MODULE TreeHash ------------------------------
(***************************************************************************)
(* What the tree hash of lib/tigertree.c promises its caller, without the  *)
(* way it gets there: bytes are absorbed in pieces of any size, and the    *)
(* digest is the root of the THEX tree over all of them.                   *)
(*                                                                         *)
(* The code never looks at the value of a byte, so the k-th byte of the    *)
(* stream is represented by its position k: a byte that is lost, repeated  *)
(* or moved gives a different tree.                                        *)
(***************************************************************************)
EXTENDS Naturals, Sequences

CONSTANTS
  BlockSize,  \* bytes per leaf (TTH_BLOCKSIZE)
  MaxBytes,   \* longest stream considered
  Tiger(_),   \* the hash function, applied to a tagged leaf or pair
  NoHash      \* the caller's buffer before a digest is stored in it

VARIABLES
  absorbed,   \* number of bytes absorbed so far
  digest      \* the digest handed out, or NoHash

-----------------------------------------------------------------------------
(* The reference tree of the THEX draft, level by level: leaves first,     *)
(* neighbours joined in pairs, a node without a neighbour promoted.        *)

Leaf(bytes) == Tiger(<<0, bytes>>)
Inner(l, r) == Tiger(<<1, l, r>>)

LeafCount(n) == IF n = 0 THEN 1 ELSE (n + BlockSize - 1) \div BlockSize

Leaves(n) ==
  [i \in 1..LeafCount(n) |->
     LET from == (i - 1) * BlockSize
         size == IF n - from < BlockSize THEN n - from ELSE BlockSize
     IN  Leaf([k \in 1..size |-> from + k])]

LevelAbove(row) ==
  [i \in 1..((Len(row) + 1) \div 2) |->
     IF 2 * i <= Len(row) THEN Inner(row[2 * i - 1], row[2 * i]) ELSE row[2 * i - 1]]

(* All rows over n bytes, the leaves first.                                *)
Rows(n) ==
  LET row[k \in Nat] == IF k = 0 THEN Leaves(n) ELSE LevelAbove(row[k - 1])
  IN  row

(* The node of the first row that has only one.                            *)
Root(n) ==
  LET rows == Rows(n)
      top == CHOOSE k \in 0..LeafCount(n) : Len(rows[k]) = 1
  IN  rows[top][1]

-----------------------------------------------------------------------------
Init == absorbed = 0 /\ digest = NoHash

Absorb(n) ==
  /\ digest = NoHash
  /\ absorbed + n <= MaxBytes
  /\ absorbed' = absorbed + n
  /\ UNCHANGED digest

Finish ==
  /\ digest = NoHash
  /\ digest' = Root(absorbed)
  /\ UNCHANGED absorbed

Next == (\E n \in 0..MaxBytes : Absorb(n)) \/ Finish

Spec == Init /\ [][Next]_<<absorbed, digest>>
=============================================================================

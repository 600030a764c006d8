------------------------------ MODULE TigerTree -----------------------------
(***************************************************************************)
(* The incremental tree hash of lib/tigertree.c: TT_CONTEXT and the        *)
(* functions tt_init, tt_update, tt_block, tt_compose, tt_final and        *)
(* tt_digest.                                                              *)
(*                                                                         *)
(* The functions run to completion, but the stack of interim nodes is      *)
(* written in the middle of their loops, so a step here is one iteration   *)
(* of a loop and pc says which loop is running.  A node of the stack is a  *)
(* record: `hash' is what the code stores, `first' and `size' are history  *)
(* that says which leaves the hash covers and that no guard reads.         *)
(***************************************************************************)
EXTENDS Naturals, Sequences, Functions

CONSTANTS
  BlockSize,  \* TTH_BLOCKSIZE, 1024 in the code
  StackSize,  \* slots of TTH_STACKSIZE, 56 in the code
  MaxBlocks,  \* leaves of the longest stream: 2^54 for 2^64 bytes
  MaxBytes,   \* bytes of the longest stream
  Chunks,     \* the lengths a caller may pass to tt_update
  Tiger(_),   \* tiger(), applied to a tagged leaf or pair
  NoHash      \* the caller's hash buffer before tt_digest

ASSUME BlockAssumption == BlockSize \in Nat \ {0}
ASSUME BoundAssumption ==
  /\ MaxBlocks \in Nat \ {0}
  /\ MaxBytes \in Nat
  /\ MaxBytes <= BlockSize * MaxBlocks
ASSUME StackAssumption == StackSize \in Nat \ {0} /\ MaxBlocks < 2^(StackSize - 1)
ASSUME ChunkAssumption == Chunks \subseteq Nat

VARIABLES
  count,  \* ctx->count, leaves hashed
  block,  \* ctx->block, the leaf in progress (0: not written yet)
  index,  \* ctx->index, bytes of block in use
  nodes,  \* ctx->nodes up to ctx->top
  hash,   \* the caller's digest buffer
  pc,     \* the loop that is running
  final,  \* tt_block was called by tt_final, not by tt_update
  b,      \* local b of tt_block
  len,    \* local len of tt_update: bytes not consumed yet
  fed,    \* history: bytes handed to tt_update so far
  used    \* history: the highest slot of ctx->nodes written so far

vars == <<count, block, index, nodes, hash, pc, final, b, len, fed, used>>

Leaf(bytes) == Tiger(<<0, bytes>>)
Inner(l, r) == Tiger(<<1, l, r>>)

-----------------------------------------------------------------------------
(* tt_init: the context is a local variable of get_sums, its block holds   *)
(* whatever was on the stack.                                              *)
Init ==
  /\ count = 0
  /\ block = [i \in 1..BlockSize |-> 0]
  /\ index = 0
  /\ nodes = <<>>
  /\ hash = NoHash
  /\ pc = "ready"
  /\ final = FALSE
  /\ b = 0
  /\ len = 0
  /\ fed = 0
  /\ used = 0

(* memmove(ctx->block + at, buffer, n), buffer being the first byte not    *)
(* consumed yet.                                                           *)
Copied(at, n, consumed) ==
  [i \in 1..BlockSize |-> IF at < i /\ i <= at + n THEN consumed + i - at ELSE block[i]]

(* tiger() stores its result in the free slot that top points at.          *)
WriteAtTop == used' = IF used > Len(nodes) THEN used ELSE Len(nodes) + 1

(* Mutant: the two halves of the pair swapped.                             *)
SwappedJoined(l, r) ==
  [first |-> l.first, size |-> l.size + r.size, hash |-> Inner(r.hash, l.hash)]

Joined(l, r) ==
  [first |-> l.first, size |-> l.size + r.size, hash |-> Inner(l.hash, r.hash)]

(* Mutant: top moves up, as after a leaf, instead of down.                 *)
UpwardCompose ==
  LET d == Len(nodes) IN
  /\ WriteAtTop
  /\ nodes' = Append(nodes, Joined(nodes[d - 1], nodes[d]))

(* tt_compose: the two topmost nodes become one, by way of the free slot.  *)
Compose ==
  LET d == Len(nodes) IN
  /\ WriteAtTop
  /\ nodes' = Append(SubSeq(nodes, 1, d - 2), Joined(nodes[d - 1], nodes[d]))

(* Mutant: b is taken before count is incremented.                         *)
EarlyHashBlock ==
  /\ pc = "block"
  /\ WriteAtTop
  /\ nodes' = Append(nodes,
       [first |-> count, size |-> 1, hash |-> Leaf([i \in 1..index |-> block[i]])])
  /\ count' = count + 1
  /\ b' = count
  /\ pc' = "carry"
  /\ UNCHANGED <<block, index, hash, final, len, fed>>

(* tt_block, up to its loop: hash the leaf onto the stack and count it.    *)
HashBlock ==
  /\ pc = "block"
  /\ WriteAtTop
  /\ nodes' = Append(nodes,
       [first |-> count, size |-> 1, hash |-> Leaf([i \in 1..index |-> block[i]])])
  /\ count' = count + 1
  /\ b' = count + 1
  /\ pc' = "carry"
  /\ UNCHANGED <<block, index, hash, final, len, fed>>

(* One iteration of the loop of tt_block: while (0 == (b & 1)).            *)
Carry ==
  /\ pc = "carry" /\ b % 2 = 0
  /\ Compose
  /\ b' = b \div 2
  /\ UNCHANGED <<count, block, index, hash, pc, final, len, fed>>

(* Mutant: the loop may be left early.                                     *)
EarlyCarryEnd ==
  /\ pc = "carry"
  /\ pc' = IF final THEN "fold" ELSE "chunks"
  /\ UNCHANGED <<count, block, index, nodes, hash, final, b, len, fed, used>>

(* tt_block returns to tt_final or to tt_update.                           *)
CarryEnd ==
  /\ pc = "carry" /\ b % 2 = 1
  /\ pc' = IF final THEN "fold" ELSE "chunks"
  /\ UNCHANGED <<count, block, index, nodes, hash, final, b, len, fed, used>>

-----------------------------------------------------------------------------
(* tt_update with a partial leaf that n more bytes do not fill.            *)
UpdatePartial(n) ==
  /\ pc = "ready" /\ index > 0
  /\ fed + n <= MaxBytes
  /\ n < BlockSize - index
  /\ block' = Copied(index, n, fed)
  /\ index' = index + n
  /\ fed' = fed + n
  /\ UNCHANGED <<count, nodes, hash, pc, final, b, len, used>>

(* tt_update with a partial leaf that n more bytes complete.               *)
UpdateFill(n) ==
  /\ pc = "ready" /\ index > 0
  /\ fed + n <= MaxBytes
  /\ n >= BlockSize - index
  /\ block' = Copied(index, BlockSize - index, fed)
  /\ index' = BlockSize
  /\ len' = n - (BlockSize - index)
  /\ fed' = fed + n
  /\ pc' = "block"
  /\ UNCHANGED <<count, nodes, hash, final, b, used>>

(* tt_update without a partial leaf.                                       *)
UpdateAligned(n) ==
  /\ pc = "ready" /\ index = 0
  /\ fed + n <= MaxBytes
  /\ len' = n
  /\ fed' = fed + n
  /\ pc' = "chunks"
  /\ UNCHANGED <<count, block, index, nodes, hash, final, b, used>>

(* One iteration of the loop of tt_update over whole leaves.               *)
WholeBlock ==
  /\ pc = "chunks" /\ len >= BlockSize
  /\ block' = Copied(0, BlockSize, fed - len)
  /\ index' = BlockSize
  /\ len' = len - BlockSize
  /\ pc' = "block"
  /\ UNCHANGED <<count, nodes, hash, final, b, fed, used>>

(* The end of tt_update: the leftover is buffered.                         *)
Leftover ==
  /\ pc = "chunks" /\ len < BlockSize
  /\ block' = Copied(0, len, fed - len)
  /\ index' = len
  /\ len' = 0
  /\ pc' = "ready"
  /\ UNCHANGED <<count, nodes, hash, final, b, fed, used>>

-----------------------------------------------------------------------------
(* tt_digest calls tt_final: hash the last partial leaf, or the empty leaf *)
(* of an empty stream.                                                     *)
Final ==
  /\ pc = "ready"
  /\ final' = TRUE
  /\ pc' = IF index > 0 \/ nodes = <<>> THEN "block" ELSE "fold"
  /\ UNCHANGED <<count, block, index, nodes, hash, b, len, fed, used>>

(* One iteration of the loop of tt_digest.                                 *)
Fold ==
  /\ pc = "fold" /\ Len(nodes) > 1
  /\ Compose
  /\ UNCHANGED <<count, block, index, hash, pc, final, b, len, fed>>

(* Mutant: the digest is not stored.                                       *)
LostDigest ==
  /\ pc = "fold" /\ Len(nodes) <= 1
  /\ pc' = "done"
  /\ UNCHANGED <<count, block, index, nodes, hash, final, b, len, fed, used>>

(* The end of tt_digest: the only node left is the digest.                 *)
Digest ==
  /\ pc = "fold" /\ Len(nodes) <= 1
  /\ hash' = nodes[1].hash
  /\ pc' = "done"
  /\ UNCHANGED <<count, block, index, nodes, final, b, len, fed, used>>

Update == \E n \in Chunks : UpdatePartial(n) \/ UpdateFill(n) \/ UpdateAligned(n)

Next ==
  \/ Update \/ WholeBlock \/ Leftover
  \/ HashBlock \/ Carry \/ CarryEnd
  \/ Final \/ Fold \/ Digest

(* A call runs to its end: nothing in these functions waits.               *)
Fairness == WF_vars(Next /\ pc # "ready")

Spec == Init /\ [][Next]_vars
FairSpec == Spec /\ Fairness

-----------------------------------------------------------------------------
(* One bit of n per node: the trees a stack of n leaves is made of.        *)
ones[n \in Nat] == IF n = 0 THEN 0 ELSE ones[n \div 2] + (n % 2)

(* The stack is a sequence of trees with at least one leaf.                *)
NodesOK ==
  /\ nodes \in Seq(Range(nodes))
  /\ \A i \in DOMAIN nodes : nodes[i].first \in Nat /\ nodes[i].size \in Nat \ {0}

(* Types and ranges of TT_CONTEXT and of the locals of the two loops.      *)
TypeOK ==
  /\ count \in Nat /\ b \in Nat /\ len \in Nat /\ fed \in Nat /\ used \in Nat
  /\ index \in 0..BlockSize
  /\ block \in [1..BlockSize -> Nat]
  /\ NodesOK
  /\ pc \in {"ready", "chunks", "block", "carry", "fold", "done"}
  /\ final \in BOOLEAN

(* tigertree.h:22 and tigertree.c:7: 56 slots are enough for an input of   *)
(* 2^64 bytes.  No store to ctx->nodes, the scratch store of tt_compose    *)
(* above the top included, is outside the array.                           *)
StackFits == used <= StackSize

(* tt_compose reads two nodes: it is never called with fewer, and the      *)
(* carry loop of tt_block joins neighbours of equal size only, so that     *)
(* every node it leaves is a complete binary tree.                         *)
JoinsNeighbours ==
  LET d == Len(nodes) IN
  pc = "carry" /\ b % 2 = 0 =>
    /\ d >= 2
    /\ nodes[d - 1].size = nodes[d].size

(* The nodes on the stack cover the leaves hashed so far: each leaf once,  *)
(* in order, and nothing else, at every moment of the loops.               *)
Tiling ==
  LET d == Len(nodes) IN
  /\ (d = 0) = (count = 0)
  /\ d > 0 => nodes[1].first = 0 /\ nodes[d].first + nodes[d].size = count
  /\ \A i \in 1..(d - 1) : nodes[i + 1].first = nodes[i].first + nodes[i].size

(* No byte is lost or hashed twice between calls: what tt_update was given *)
(* is in a leaf that was hashed, in the partial leaf, or still to be read. *)
Accounted ==
  /\ pc = "ready" => fed = count * BlockSize + index /\ index < BlockSize
  /\ pc = "chunks" => fed = count * BlockSize + len
  /\ pc = "block" /\ ~final => fed = count * BlockSize + index + len /\ index = BlockSize
  /\ pc = "block" /\ final =>
       /\ fed = count * BlockSize + index /\ index < BlockSize
       /\ index = 0 => count = 0
  /\ pc = "carry" /\ ~final => fed = count * BlockSize + len

(* The depth of the stack is that of a binary counter: between two calls   *)
(* one node per one-bit of count, and in the carry loop one node more than *)
(* the one-bits of b - 1, the bits of b that are gone having been zeros.   *)
Depth ==
  /\ pc \in {"ready", "chunks", "block"} => Len(nodes) = ones[count]
  /\ pc = "carry" => b > 0 /\ b <= count /\ ones[b] = ones[count] /\ Len(nodes) = ones[b - 1] + 1
  /\ pc \in {"fold", "done"} => Len(nodes) \in 1..ones[count]

(* What makes StackFits inductive: the leaves counted never exceed         *)
(* MaxBlocks, and the depth follows from their number.                     *)
IndInv ==
  /\ TypeOK
  /\ StackFits
  /\ Tiling
  /\ Accounted
  /\ Depth
  /\ fed <= MaxBytes
  /\ count <= MaxBlocks
  /\ pc = "block" => count < MaxBlocks
  /\ pc \in {"ready", "chunks"} => ~final
  /\ pc \in {"fold", "done"} => final

(* The digest handed out is the root of the THEX tree over the bytes fed,  *)
(* however the caller cut them into calls of tt_update.                    *)
Abstract == INSTANCE TreeHash WITH absorbed <- fed, digest <- hash
ImplementsTreeHash == Abstract!Spec

(* tt_digest, once called, delivers.                                       *)
DigestDelivered == final ~> hash # NoHash
=============================================================================

------------------------------- MODULE Tiger --------------------------------
(***************************************************************************)
(* tiger of lib/tiger.c: how the bytes of a message get to tiger_compress, *)
(* in each of the three ways the function is compiled or branches to.  The *)
(* compression itself is not modelled: what it sees of a block is.         *)
(*                                                                         *)
(* A byte is a pair that says where it comes from, so that a byte of an    *)
(* earlier block that is left in the local buffer is not taken for one of  *)
(* this one.  A length is not limited to 64 bits here.                     *)
(*                                                                         *)
(* An operator takes the locals and what they were used for as a record:   *)
(*   taken   data_u8 - data                                                *)
(*   temp    the local union, byte by byte                                 *)
(*   j       bytes of temp that are set for the block in progress          *)
(*   seen    what tiger_compress was given: the bytes of each word, lowest *)
(*           first                                                         *)
(* The layout is "big" endian, or little endian and data "aligned" or      *)
(* "unaligned".                                                            *)
(***************************************************************************)
EXTENDS Integers, Sequences

WordSize == 8
BlockSize == 8 * WordSize

Data(k) == <<"data", k>>
One == <<"one", 0>>
Zero == <<"zero", 0>>
LengthByte(k) == <<"length", k>>
Unset == <<"unset", 0>>

Start == [taken |-> 0, temp |-> [k \in 0..(BlockSize - 1) |-> Unset], j |-> 0, seen |-> <<>>]

(* j ^ 7 in the big-endian build: byte j of a word counted from its lowest *)
(* one is this byte in memory.                                             *)
Memory(layout, k) == IF layout = "big" THEN k + (WordSize - 1) - 2 * (k % WordSize) ELSE k

(* The bytes of a block as the words have them.                            *)
Compress(st, layout, block) ==
  [st EXCEPT !.seen = @ \o [k \in 1..BlockSize |-> block[Memory(layout, k - 1)]]]

(* A turn of the loops over whole blocks; aligned data is not copied.      *)
WholeBlock(st, layout) ==
  LET block == [k \in 0..(BlockSize - 1) |-> Data(st.taken + Memory(layout, k))]
  IN  Compress([st EXCEPT !.temp = IF layout = "aligned" THEN @ ELSE block,
                          !.taken = @ + BlockSize], layout, block)

(* The locals after each of the first n blocks.                            *)
BlockTurns(layout, n) ==
  LET turn[b \in 0..n] == IF b = 0 THEN Start ELSE WholeBlock(turn[b - 1], layout)
  IN  turn

WholeBlocks(layout, length) == BlockTurns(layout, length \div BlockSize)[length \div BlockSize]

(* The rest of the message, j being its length now.                        *)
Rest(st, layout, j) ==
  [st EXCEPT !.j = j,
             !.temp = [k \in 0..(BlockSize - 1) |->
                         IF Memory(layout, k) < j THEN Data(st.taken + Memory(layout, k)) ELSE @[k]]]

(* The byte 1 behind it, and zeros up to the end of the word.              *)
Mark(st, layout) ==
  [st EXCEPT !.j = st.j + WordSize - (st.j % WordSize),
             !.temp = [k \in 0..(BlockSize - 1) |->
                         IF Memory(layout, k) = st.j THEN One
                         ELSE IF Memory(layout, k) \in
                                   (st.j + 1)..(st.j + WordSize - (st.j % WordSize) - 1) THEN Zero
                         ELSE @[k]]]

(* Zeros from j on, stored without regard to the layout.                   *)
ZeroFrom(st, limit) ==
  [st EXCEPT !.temp = [k \in 0..(BlockSize - 1) |-> IF k >= st.j /\ k < limit THEN Zero ELSE @[k]]]

(* No room for the length: one block more.                                 *)
SpillBlock(st, layout) == [Compress(st, layout, st.temp) EXCEPT !.j = 0]
Spill(st, layout) ==
  IF st.j > BlockSize - WordSize THEN SpillBlock(ZeroFrom(st, BlockSize), layout) ELSE st

PutLength(st, layout) ==
  [st EXCEPT !.temp = [k \in 0..(BlockSize - 1) |->
     IF k >= BlockSize - WordSize THEN LengthByte(Memory(layout, k) % WordSize) ELSE @[k]]]
LastBlock(st, layout) == Compress(st, layout, st.temp)

(* Mutant: the zeros in front of the length are left out.                  *)
StaleFinish(st, layout) == LastBlock(PutLength(st, layout), layout)

(* The last word is the length in bits.                                    *)
Finish(st, layout) == LastBlock(PutLength(ZeroFrom(st, BlockSize - WordSize), layout), layout)

(* What the compression gets to see of a message.                          *)
TigerInput(length, layout) ==
  Finish(Spill(Mark(Rest(WholeBlocks(layout, length), layout, length % BlockSize), layout),
               layout), layout).seen

-----------------------------------------------------------------------------
(* Reference: the message, a byte 1, the fewest zeros that leave room for  *)
(* the length at the end of a block, and the length.                       *)
Padded(n) ==
  LET zeros == CHOOSE z \in 0..(BlockSize - 1) : (n + 1 + z) % BlockSize = BlockSize - WordSize
  IN  [k \in 1..n |-> Data(k - 1)] \o <<One>> \o [k \in 1..zeros |-> Zero]
        \o [k \in 1..WordSize |-> LengthByte(k - 1)]
=============================================================================

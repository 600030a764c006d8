---------------------------- MODULE MCParseUint -----------------------------
(***************************************************************************)
(* ParseUint with six bits in place of 16, 32 or 64, all texts of up to    *)
(* three of the Characters and all binary ones of up to seven: overflows   *)
(* of the product and of the sum, at the limit and beyond it.              *)
(***************************************************************************)
EXTENDS ParseUint, SequencesExt

CONSTANTS Characters, MaxLen

MCTexts == BoundedSeq(Characters \cup {Other}, MaxLen)
              \cup BoundedSeq({0, 1}, 7)
=============================================================================

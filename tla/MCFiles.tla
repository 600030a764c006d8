------------------------------ MODULE MCFiles -------------------------------
(***************************************************************************)
(* Files with two inode numbers, so that a number is soon given again.     *)
(***************************************************************************)
EXTENDS Files
=============================================================================

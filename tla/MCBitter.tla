------------------------------ MODULE MCBitter ------------------------------
(***************************************************************************)
(* Bitter with two file names, every command line of at most MaxOptions    *)
(* options and MaxArgs names, and one descriptor besides the standard      *)
(* ones, so that a descriptor that is not closed is missed at once.  The   *)
(* names are not a symmetry set, because a liveness property is checked.   *)
(***************************************************************************)
EXTENDS Bitter

CONSTANTS f1, f2

MCFiles == {f1, f2}
=============================================================================

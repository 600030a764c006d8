------------------------------ MODULE MCClock -------------------------------
(***************************************************************************)
(* Clock with two ticks in a microsecond and two microseconds in a second, *)
(* so that a few ticks cross the limits of both, and a limit of two        *)
(* microseconds for a clock that was set back.                             *)
(***************************************************************************)
EXTENDS Clock
=============================================================================

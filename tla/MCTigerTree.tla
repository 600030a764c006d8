---------------------------- MODULE MCTigerTree -----------------------------
(***************************************************************************)
(* TigerTree with hashes that are the terms they were computed from: two   *)
(* of them are equal only if the trees and the bytes below them are.       *)
(***************************************************************************)
EXTENDS TigerTree

MCTiger(x) == x
MCNoHash == <<>>
MCChunks == 0..7
=============================================================================

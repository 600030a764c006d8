---------------------------- MODULE MCDaemonize -----------------------------
(***************************************************************************)
(* Daemonize with processes for two forks in each of two calls.            *)
(***************************************************************************)
EXTENDS Daemonize
=============================================================================

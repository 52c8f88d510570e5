---------------------------- MODULE MCKeyCleanup ----------------------------
(* Small instances of KeyCleanup for TLC. *)
EXTENDS KeyCleanup

MCTimes == 1..MaxClock
OneFormat == {PIDs}
=============================================================================

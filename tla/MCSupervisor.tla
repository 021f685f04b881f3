----------------------------- MODULE MCSupervisor -----------------------------
(***************************************************************************)
(* Supervisor with two tasks.                                              *)
(***************************************************************************)
EXTENDS Supervisor

CONSTANTS processor, sync
=============================================================================

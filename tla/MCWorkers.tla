------------------------------ MODULE MCWorkers ------------------------------
(***************************************************************************)
(* Workers with two servers, so that one waits for its turn while the      *)
(* synchronization announces the other, and two addresses to move between. *)
(***************************************************************************)
EXTENDS Workers

CONSTANTS k1, k2, ip1, ip2
=============================================================================

----------------------------- MODULE MCPingBatch -----------------------------
(***************************************************************************)
(* PingBatch with a small buffer and enough results to pass its emergency  *)
(* size more than once.                                                    *)
(***************************************************************************)
EXTENDS PingBatch
=============================================================================

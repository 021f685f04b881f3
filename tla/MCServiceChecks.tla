--------------------------- MODULE MCServiceChecks ---------------------------
(***************************************************************************)
(* ServiceChecks with all the checks on one server.                        *)
(***************************************************************************)
EXTENDS ServiceChecks

CONSTANTS http, ssl, host

MCServerOf == [k \in Checks |-> host]
=============================================================================

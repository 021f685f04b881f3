----------------------------- MODULE MCPowerOps -----------------------------
(***************************************************************************)
(* PowerOps with three taps on a server that EC2 has, which the client     *)
(* looks for in Lightsail as well when EC2 fails.                          *)
(***************************************************************************)
EXTENDS PowerOps, TLC

CONSTANTS h1, h2, h3, ec2

MCBackends == [s \in Servers |-> <<TRUE, FALSE>>]

HandlerSymmetry == Permutations(Handlers)
=============================================================================

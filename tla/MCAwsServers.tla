---------------------------- MODULE MCAwsServers ----------------------------
(***************************************************************************)
(* AwsServers with EC2 in two regions, of which one does not have          *)
(* Lightsail; one server in each fetch that may hold any.                  *)
(***************************************************************************)
EXTENDS AwsServers, TLC

CONSTANTS east, west, ec2a, ec2b, light, dark, s1, s2, s3

MCRegionOf == (ec2a :> east) @@ (ec2b :> west) @@ (light :> east) @@ (dark :> west)

MCHome == (s1 :> ec2a) @@ (s2 :> ec2b) @@ (s3 :> light)

\* The Lightsail server is there for good, or never.
MCSpec == Init /\ [][Next /\ (s3 \in cloud <=> s3 \in cloud')]_vars

MCFairSpec == MCSpec /\ Fairness
=============================================================================

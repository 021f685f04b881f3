---------------------------- MODULE MCStatistics ----------------------------
(***************************************************************************)
(* Statistics with two accounts that have a server of the same id, with a  *)
(* service check each: one server comes and goes, the other one stays and  *)
(* fails its check each time.                                              *)
(* The tables of the pings are handled by the same code with other names.  *)
(***************************************************************************)
EXTENDS Statistics

CONSTANTS comes, stays

MCSeries == {comes, stays} \X {"check"}

\* One result per tick, and two kept, to keep the instance small.
OneAtATime == Cardinality(log) <= 2 /\ \A q, r \in log : q.time = r.time => q = r

\* A cycle that changes nothing matters only for its purge.
CycleMatters == sync' = sync \/ sync # Idle \/ inventory' # inventory \/ IsPurgeDue

StaysDown == \A r \in log' : r.series[1] = stays => ~r.ok

MCSpec == Init /\ [][Next /\ stays \in inventory' /\ StaysDown /\ CycleMatters]_vars
=============================================================================

----------------------------- MODULE MCPingAlerts -----------------------------
(***************************************************************************)
(* PingAlerts with two servers: one comes and goes and flaps, the other    *)
(* stays as it is, up or down, and has its results and alerts in the way   *)
(* of the first one's.                                                     *)
(***************************************************************************)
EXTENDS PingAlerts

CONSTANTS comes, stays

MCInit == Init /\ stays \in known

MCNext ==
    /\ Next
    /\ stays \in known'
    /\ stays \in up <=> stays \in up'

MCSpec == MCInit /\ [][MCNext]_vars /\ Fairness
=============================================================================

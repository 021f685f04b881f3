---------------------------- MODULE MCServersSync ----------------------------
(***************************************************************************)
(* ServersSync in an environment that calms down: after any history of     *)
(* failures, glitches and restarts there comes a time from which one       *)
(* account answers every cycle with the servers it really has, Telegram    *)
(* delivers and the repository is written.  What must the synchronization  *)
(* then bring about?  The account has four servers, so that a loss of two  *)
(* is suspicious or not depending on the size of the fleet.                *)
(***************************************************************************)
EXTENDS ServersSync, TLC

CONSTANTS account, s1, s2, s3, s4, Unknown

MCFleet == account :> {s1, s2, s3, s4}

VARIABLE truth   \* the servers the account really has, once all is calm

calmVars == <<vars, truth>>

HonestAnswer == [a \in Aliases |-> [kind |-> "servers", keys |-> truth[a]]]

HonestCycle ==
    /\ truth # Unknown
    /\ Cycle(HonestAnswer, Attempts(HonestAnswer), TRUE)
    /\ UNCHANGED truth

Turbulence == truth = Unknown /\ Next /\ UNCHANGED truth

CalmDown ==
    /\ truth = Unknown
    /\ truth' \in [Aliases -> SUBSET Servers]
    /\ UNCHANGED vars

CalmInit == Init /\ truth = Unknown

CalmNext == Turbulence \/ CalmDown \/ HonestCycle

\* The task goes through its loop for ever (the supervisor sees to it).
CalmSpec == CalmInit /\ [][CalmNext]_calmVars /\ WF_calmVars(HonestCycle)

\* Once the account answers honestly the inventory comes to be what it
\* reports: neither guard holds a genuine deletion back for ever, even of
\* the whole fleet (the guards delay removals, they never refuse them).
InventoryConverges == truth # Unknown ~> [](local = truth)

\* The admins who were told of an empty answer are not left with it: they
\* hear of a recovery, or of the removals, even if the task was restarted
\* in between.
AnnouncementsAreClosed ==
    \A a \in Aliases : truth # Unknown /\ announced[a] ~> [](~announced[a])
=============================================================================

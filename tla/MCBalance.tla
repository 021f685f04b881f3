----------------------------- MODULE MCBalance -----------------------------
(***************************************************************************)
(* Balance with an account that is in order, in debt, or charged with more *)
(* than twice its credit.                                                  *)
(***************************************************************************)
EXTENDS Balance

CONSTANTS vultr, admin, tap1, tap2

MCAccounts == {[credit |-> c, pending |-> p] : <<c, p>> \in
                   {<<5, 0>>, <<-1, 0>>, <<1, 3>>}}

\* The second handler is at work only while the checker sleeps.
MCSpec == Init /\ [][Next /\ (job'[tap2] # Idle => check' = Asleep)]_vars

MCFairSpec == MCSpec /\ Fairness
=============================================================================

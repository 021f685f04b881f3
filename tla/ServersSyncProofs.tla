-------------------------- MODULE ServersSyncProofs --------------------------
(***************************************************************************)
(* Proofs about ServersSync, for every set of accounts, every fleet and    *)
(* every value of the thresholds: the type invariant, the invariant that   *)
(* ties the guards' evidence to what the accounts said, and with it that   *)
(* ServersSync implements RemovalPolicy.                                   *)
(***************************************************************************)
EXTENDS ServersSync, TLAPS

USE ConfirmAssumption, AlertAssumption, FleetAssumption

-----------------------------------------------------------------------------
(* The type invariant. *)

LEMMA ClaimType ==
    ASSUME NEW old \in Policy!Claims, NEW known \in SUBSET Servers,
           NEW keys \in SUBSET Servers
    PROVE  Policy!Claim(old, known, keys) \in Policy!Claims
  BY DEF Policy!Claim, Policy!Claims

LEMMA CycleType ==
    ASSUME TypeOK, NEW answer \in [Aliases -> Answers], NEW sent,
           NEW saved \in BOOLEAN, Cycle(answer, sent, saved)
    PROVE  TypeOK'
<1> USE DEF TypeOK
<1>0. \A a \in Aliases : /\ answer[a].keys \in SUBSET Servers
                         /\ answer[a].kind \in {"transient", "persistent", "servers"}
  BY DEF Answers, Failures, Lists
<1>1. local' \in [Aliases -> SUBSET Servers]
  BY <1>0 DEF Cycle, Merged
<1>2. guard' \in [Aliases -> GuardStates]
  <2> SUFFICES ASSUME NEW a \in Aliases
               PROVE  GuardAfter(a, answer[a], sent) \in GuardStates
    BY DEF Cycle
  <2>1. FreshGuard \in GuardStates
    BY DEF FreshGuard, GuardStates
  <2>2. AtMost(ConfirmCycles, guard[a].emptyCycles + 1) \in 0..ConfirmCycles
    BY DEF AtMost, GuardStates
  <2>3. Missing(a, answer[a]) \in SUBSET Servers
    BY <1>0 DEF Missing
  <2> QED
    BY <2>1, <2>2, <2>3 DEF GuardAfter, GuardStates, FreshGuard
<1>3. failures' \in [Aliases -> 0..OutageThreshold]
  BY DEF Cycle, FailuresAfter, AtMost
<1>4. incident' \in [Aliases -> {"none", "transient", "persistent"}]
  BY DEF Cycle, IncidentAfter
<1>5. quiet' \in [Aliases -> 0..CooldownCycles]
  BY DEF Cycle, QuietAfter
<1>6. owed' \in [Aliases -> BOOLEAN] /\ announced' \in [Aliases -> BOOLEAN]
  BY DEF Cycle, OwedAfter, AnnouncedAfter
<1>7. claim' \in [Aliases -> Policy!Claims]
  <2>1. Policy!NoClaim \in Policy!Claims
    BY DEF Policy!NoClaim, Policy!Claims
  <2> QED
    BY <1>0, <2>1, ClaimType DEF Cycle, ClaimAfter
<1> QED
  BY <1>1, <1>2, <1>3, <1>4, <1>5, <1>6, <1>7

\* Every reachable state of the synchronization is well typed.
THEOREM TypeCorrect == Spec => []TypeOK
<1>1. Init => TypeOK
  BY DEF Init, TypeOK, FreshGuard, GuardStates, Policy!NoClaim, Policy!Claims
<1>2. TypeOK /\ [Next]_vars => TypeOK'
  <2> SUFFICES ASSUME TypeOK, [Next]_vars PROVE TypeOK'
    OBVIOUS
  <2>0. [a \in Aliases |-> FreshGuard] \in [Aliases -> GuardStates]
    BY DEF FreshGuard, GuardStates
  <2>1. CASE SyncCycle
    BY <2>1, CycleType DEF SyncCycle
  <2>2. CASE AbortedCycle
    BY <2>2 DEF AbortedCycle, TypeOK
  <2>3. CASE TaskRestart
    BY <2>0, <2>3 DEF TaskRestart, TypeOK, Policy!NoClaim, Policy!Claims
  <2>4. CASE ProcessRestart
    BY <2>0, <2>4 DEF ProcessRestart, TypeOK, Policy!NoClaim, Policy!Claims
  <2>5. CASE UNCHANGED vars
    BY <2>5 DEF vars, TypeOK
  <2> QED
    BY <2>1, <2>2, <2>3, <2>4, <2>5 DEF Next
<1> QED
  BY <1>1, <1>2, PTL DEF Spec

-----------------------------------------------------------------------------
(* The evidence invariant. *)

\* A cycle turns backed evidence into backed evidence, for each account.
LEMMA CycleEvidence ==
    ASSUME TypeOK, EvidenceBacked, NEW answer \in [Aliases -> Answers], NEW sent,
           NEW saved \in BOOLEAN, Cycle(answer, sent, saved)
    PROVE  EvidenceBacked'
<1> SUFFICES ASSUME NEW a \in Aliases
             PROVE  /\ local'[a] # {} /\ guard'[a].emptyCycles > 0 =>
                          /\ claim'[a].kind = "empty" /\ claim'[a].gone = local'[a]
                          /\ claim'[a].run >= guard'[a].emptyCycles
                    /\ guard'[a].pending # {} =>
                          /\ claim'[a].kind = "partial" /\ claim'[a].gone = guard'[a].pending
                          /\ claim'[a].run >= 1
  BY DEF EvidenceBacked
<1> DEFINE r == answer[a]
<1>1. /\ r.keys \in SUBSET Servers
      /\ local[a] \in SUBSET Servers /\ claim[a] \in Policy!Claims
      /\ guard[a] \in GuardStates
  BY DEF Answers, Failures, Lists, TypeOK
<1>2. /\ guard'[a] = GuardAfter(a, r, sent)
      /\ claim'[a] = ClaimAfter(a, r)
      /\ local'[a] = IF saved THEN Merged(a, r) ELSE local[a]
  BY DEF Cycle
<1>3. CASE IsFailed(r)
  BY <1>2, <1>3 DEF GuardAfter, FreshGuard
<1>4. CASE IsBlank(a, r)
  <2>1. /\ ~IsFailed(r) /\ r.keys = {} /\ local[a] # {} /\ local[a] \ r.keys = local[a]
    BY <1>4 DEF IsBlank
  <2>2. /\ guard'[a].pending = {}
        /\ guard'[a].emptyCycles = AtMost(ConfirmCycles, guard[a].emptyCycles + 1)
    BY <1>2, <1>4, <2>1 DEF GuardAfter
  <2>3. claim'[a] = Policy!Claim(claim[a], local[a], r.keys)
    BY <1>2, <2>1 DEF ClaimAfter
  <2>4. ASSUME local'[a] # {} PROVE local'[a] = local[a]
    <3>1. Merged(a, r) \in {local[a], r.keys}
      BY <2>1 DEF Merged
    <3> QED BY <1>2, <2>1, <2>4, <3>1
  <2>5. claim'[a].kind = "empty" /\ claim'[a].gone = local[a] /\ claim'[a].run >= 1
    BY <1>1, <2>1, <2>3 DEF Policy!Claim, Policy!Claims
  <2>6. guard[a].emptyCycles > 0 =>
           claim'[a].run >= AtMost(ConfirmCycles, claim[a].run + 1)
    BY <1>1, <2>1, <2>3 DEF Policy!Claim, Policy!Claims, AtMost, EvidenceBacked
  <2>7. claim'[a].run >= AtMost(ConfirmCycles, guard[a].emptyCycles + 1)
    <3>1. claim'[a].run \in 0..ConfirmCycles
      BY <1>1, <2>3 DEF Policy!Claim, Policy!Claims
    <3>2. guard[a].emptyCycles > 0 => claim[a].run >= guard[a].emptyCycles
      BY <2>1 DEF EvidenceBacked
    <3> QED
      BY <1>1, <2>5, <2>6, <3>1, <3>2 DEF AtMost, GuardStates, Policy!Claims
  <2> QED
    BY <2>2, <2>4, <2>5, <2>7
<1>5. CASE ~IsFailed(r) /\ ~IsBlank(a, r)
  <2>1. /\ guard'[a].emptyCycles = 0
        /\ guard'[a].pending # {} => guard'[a].pending = local[a] \ r.keys
    BY <1>2, <1>5 DEF GuardAfter, FreshGuard, Missing
  <2>2. claim'[a] = Policy!Claim(claim[a], local[a], r.keys)
    BY <1>2, <1>5 DEF ClaimAfter
  <2>3. local[a] \ r.keys # {} => r.keys # {}
    BY <1>5 DEF IsBlank
  <2>4. local[a] \ r.keys # {} =>
           /\ claim'[a].gone = local[a] \ r.keys /\ claim'[a].kind = "partial"
           /\ claim'[a].run >= 1
    BY <1>1, <2>2, <2>3 DEF Policy!Claim, Policy!Claims
  <2>5. ~(guard'[a].emptyCycles > 0)
    BY <2>1
  <2>6. guard'[a].pending # {} =>
           /\ claim'[a].kind = "partial" /\ claim'[a].gone = guard'[a].pending
           /\ claim'[a].run >= 1
    BY <2>1, <2>4
  <2> QED
    BY <2>5, <2>6
<1> QED
  BY <1>3, <1>4, <1>5

\* The guards never hold more evidence than the accounts gave.
THEOREM EvidenceIsBacked == Spec => []EvidenceBacked
<1>1. Init => EvidenceBacked
  BY DEF Init, EvidenceBacked, FreshGuard
<1>2. TypeOK /\ EvidenceBacked /\ [Next]_vars => EvidenceBacked'
  <2> SUFFICES ASSUME TypeOK, EvidenceBacked, [Next]_vars PROVE EvidenceBacked'
    OBVIOUS
  <2>1. CASE SyncCycle
    BY <2>1, CycleEvidence DEF SyncCycle
  <2>2. CASE AbortedCycle
    BY <2>2 DEF AbortedCycle, EvidenceBacked
  <2>3. CASE TaskRestart
    BY <2>3 DEF TaskRestart, EvidenceBacked, FreshGuard
  <2>4. CASE ProcessRestart
    BY <2>4 DEF ProcessRestart, EvidenceBacked, FreshGuard
  <2>5. CASE UNCHANGED vars
    BY <2>5 DEF vars, EvidenceBacked
  <2> QED
    BY <2>1, <2>2, <2>3, <2>4, <2>5 DEF Next
<1> QED
  BY <1>1, <1>2, TypeCorrect, PTL DEF Spec

\* No outage incident is open without the failures that opened it.
THEOREM IncidentsAreCounted == Spec => []IncidentCounted
<1>1. Init => IncidentCounted
  BY DEF Init, IncidentCounted
<1>2. TypeOK /\ IncidentCounted /\ [Next]_vars => IncidentCounted'
  <2> SUFFICES ASSUME TypeOK, IncidentCounted, [Next]_vars PROVE IncidentCounted'
    OBVIOUS
  <2>1. ASSUME NEW answer \in [Aliases -> Answers], NEW sent, NEW saved \in BOOLEAN,
               Cycle(answer, sent, saved), NEW a \in Aliases
        PROVE  /\ incident'[a] # "none" => failures'[a] > 0
               /\ incident'[a] = "transient" => failures'[a] >= OutageThreshold
    <3>1. /\ failures'[a] = FailuresAfter(a, answer[a])
          /\ incident'[a] = IncidentAfter(a, answer[a])
          /\ failures[a] \in 0..OutageThreshold
      BY <2>1 DEF Cycle, TypeOK
    <3>2. IsHeard(a, answer[a]) => incident'[a] = "none"
      BY <3>1 DEF IncidentAfter
    <3>3. IsFailed(answer[a]) => ~IsHeard(a, answer[a])
      BY DEF IsHeard
    <3> QED
      BY <3>1, <3>2, <3>3
         DEF FailuresAfter, IncidentAfter, AtMost, IsFailed, IncidentCounted
  <2>2. CASE SyncCycle
    BY <2>1, <2>2 DEF SyncCycle, IncidentCounted
  <2>3. CASE AbortedCycle
    BY <2>3 DEF AbortedCycle, IncidentCounted
  <2>4. CASE TaskRestart
    BY <2>4 DEF TaskRestart, IncidentCounted
  <2>5. CASE ProcessRestart
    BY <2>5 DEF ProcessRestart, IncidentCounted
  <2>6. CASE UNCHANGED vars
    BY <2>6 DEF vars, IncidentCounted
  <2> QED
    BY <2>2, <2>3, <2>4, <2>5, <2>6 DEF Next
<1> QED
  BY <1>1, <1>2, TypeCorrect, PTL DEF Spec

-----------------------------------------------------------------------------
(* The refinement. *)

\* What an account loses in a cycle is warranted by its claim.
LEMMA CycleRemoves ==
    ASSUME TypeOK, EvidenceBacked, NEW answer \in [Aliases -> Answers], NEW sent,
           NEW saved \in BOOLEAN, Cycle(answer, sent, saved), NEW a \in Aliases,
           ~IsFailed(answer[a]), ~(local[a] \subseteq local'[a])
    PROVE  /\ Policy!Warranted(claim'[a], local[a])
           /\ local[a] \ local'[a] \subseteq claim'[a].gone
<1> DEFINE r == answer[a]
<1>1. /\ r.keys \in SUBSET Servers
      /\ local[a] \in SUBSET Servers /\ claim[a] \in Policy!Claims
      /\ guard[a] \in GuardStates /\ ~IsFailed(r)
  BY DEF Answers, Failures, Lists, TypeOK
<1>2. /\ claim'[a] = Policy!Claim(claim[a], local[a], r.keys)
      /\ local'[a] = IF saved THEN Merged(a, r) ELSE local[a]
  BY <1>1 DEF Cycle, ClaimAfter
<1>3. ~(local[a] \subseteq local'[a])
  OBVIOUS
<1>4. local'[a] = r.keys /\ IsAuthorized(a, r)
  BY <1>2, <1>3 DEF Merged
<1>5. local[a] \ r.keys # {} /\ claim'[a].gone = local[a] \ r.keys
  BY <1>1, <1>2, <1>3, <1>4 DEF Policy!Claim, Policy!Claims
<1>6. CASE IsBlank(a, r)
  <2>1. claim'[a].kind = "empty"
    BY <1>1, <1>2, <1>5, <1>6 DEF Policy!Claim, Policy!Claims, AtMost, IsBlank
  <2>2. guard[a].emptyCycles + 1 >= ConfirmCycles
    BY <1>4, <1>6 DEF IsAuthorized, IsHeard, IsConfirmedEmpty
  <2>3. /\ claim[a].kind = "empty" /\ claim[a].gone = local[a]
        /\ claim[a].run >= guard[a].emptyCycles
    BY <1>1, <1>6, <2>2 DEF IsBlank, EvidenceBacked, GuardStates
  <2>4. claim'[a].run >= AtMost(ConfirmCycles, claim[a].run + 1)
    BY <1>1, <1>2, <1>5, <1>6, <2>3 DEF Policy!Claim, Policy!Claims, AtMost, IsBlank
  <2>5. claim'[a].run \in Nat
    BY <1>1, <1>2 DEF Policy!Claim, Policy!Claims
  <2> QED
    BY <1>1, <1>4, <1>5, <2>1, <2>2, <2>3, <2>4, <2>5
       DEF Policy!Warranted, AtMost, GuardStates, Policy!Claims
<1>7. CASE ~IsBlank(a, r)
  <2>1. r.keys # {}
    BY <1>5, <1>1, <1>7 DEF IsBlank
  <2>2. claim'[a].kind = "partial"
    BY <1>1, <1>2, <1>5, <2>1 DEF Policy!Claim, Policy!Claims
  <2>3. ASSUME Policy!IsMassRemoval(claim'[a].gone, local[a])
        PROVE  claim'[a].run >= 2
    <3>1. guard[a].pending = local[a] \ r.keys
      BY <1>4, <1>5, <1>7, <2>3 DEF IsAuthorized, IsDeferred, Missing
    <3>2. /\ claim[a].kind = "partial" /\ claim[a].gone = local[a] \ r.keys
          /\ claim[a].run >= 1
      BY <1>5, <3>1 DEF EvidenceBacked
    <3>3. claim'[a].run >= AtMost(ConfirmCycles, claim[a].run + 1)
      <4>1. claim[a].kind = claim'[a].kind
        BY <2>2, <3>2
      <4> QED
        BY <1>1, <1>2, <1>5, <3>2, <4>1 DEF Policy!Claim, Policy!Claims, AtMost
    <3>4. claim'[a].run \in Nat
      BY <1>1, <1>2 DEF Policy!Claim, Policy!Claims
    <3> QED
      BY <1>1, <3>2, <3>3, <3>4 DEF AtMost, Policy!Claims
  <2> QED
    BY <1>4, <1>5, <2>2, <2>3 DEF Policy!Warranted
<1> QED
  BY <1>6, <1>7

LEMMA CycleRefines ==
    ASSUME TypeOK, TypeOK', EvidenceBacked, NEW answer \in [Aliases -> Answers],
           NEW sent, NEW saved \in BOOLEAN, Cycle(answer, sent, saved)
    PROVE  Policy!Synchronize
<1>1. local' \in Policy!Inventories /\ claim' \in [Aliases -> Policy!Claims]
  BY DEF TypeOK, Policy!Inventories
<1>2. ASSUME NEW a \in Aliases
      PROVE  \/ Policy!Unheard(a)
             \/ \E keys \in SUBSET Servers : Policy!Answered(a, keys)
  <2>1. CASE IsFailed(answer[a])
    BY <2>1 DEF Cycle, ClaimAfter, Merged, IsHeard, Policy!Unheard
  <2>2. CASE ~IsFailed(answer[a])
    <3>1. answer[a].keys \in SUBSET Servers
      BY DEF Answers, Failures, Lists
    <3>2. claim'[a] = Policy!Claim(claim[a], local[a], answer[a].keys)
      BY <2>2 DEF Cycle, ClaimAfter
    <3>3. local'[a] \subseteq local[a] \union answer[a].keys
      BY DEF Cycle, Merged
    <3>4. Policy!Answered(a, answer[a].keys)
      BY <2>2, <3>2, <3>3, CycleRemoves DEF Policy!Answered
    <3> QED
      BY <3>1, <3>4
  <2> QED
    BY <2>1, <2>2
<1> QED
  BY <1>1, <1>2 DEF Policy!Synchronize

\* Whatever the accounts answer, whichever alerts are lost and whenever the
\* task, the process or the write fails, servers leave the inventory only on
\* the evidence the removal policy asks for.
THEOREM ImplementsRemovalPolicy == Spec => RemovalsWarranted
<1>1. Init => Policy!PolicyInit
  BY DEF Init, Policy!PolicyInit, Policy!Inventories
<1>2. TypeOK /\ TypeOK' /\ EvidenceBacked /\ [Next]_vars
         => [Policy!PolicyNext]_(Policy!policyVars)
  <2> SUFFICES ASSUME TypeOK, TypeOK', EvidenceBacked, [Next]_vars
               PROVE  [Policy!PolicyNext]_(Policy!policyVars)
    OBVIOUS
  <2>1. CASE SyncCycle
    BY <2>1, CycleRefines DEF SyncCycle, Policy!PolicyNext
  <2>2. CASE AbortedCycle
    BY <2>2 DEF AbortedCycle, Policy!policyVars
  <2>3. CASE TaskRestart
    <3>1. \A a \in Aliases : local[a] \subseteq local'[a]
      BY <2>3 DEF TaskRestart
    <3> QED
      BY <2>3, <3>1 DEF TaskRestart, TypeOK, Policy!Inventories,
                        Policy!Reload, Policy!PolicyNext
  <2>4. CASE ProcessRestart
    <3>1. \A a \in Aliases : local[a] \subseteq local'[a]
      BY <2>4 DEF ProcessRestart
    <3> QED
      BY <2>4, <3>1 DEF ProcessRestart, TypeOK, Policy!Inventories,
                        Policy!Reload, Policy!PolicyNext
  <2>5. CASE UNCHANGED vars
    BY <2>5 DEF vars, Policy!policyVars
  <2> QED
    BY <2>1, <2>2, <2>3, <2>4, <2>5 DEF Next
<1> QED
  BY <1>1, <1>2, TypeCorrect, EvidenceIsBacked, PTL
     DEF Spec, RemovalsWarranted, Policy!PolicySpec
=============================================================================

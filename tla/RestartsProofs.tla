--------------------------- MODULE RestartsProofs ----------------------------
(***************************************************************************)
(* Proofs about what restarts a part of the bot that died, and gives it up *)
(* after a budget of failures: the supervisor for the background tasks     *)
(* (Supervisor), the health task for the worker processes (Workers).       *)
(***************************************************************************)
EXTENDS Supervisor, Workers, TLAPS

(***************************************************************************)
(* Proofs about Supervisor, for any set of tasks and any restart budget:   *)
(* the type invariant, that only streaks of failures abandon a task, and   *)
(* that the shutdown leaves no task alive.                                 *)
(***************************************************************************)

(***************************************************************************)
(* The supervisor's count keeps up with the exits: it equals them while    *)
(* the task runs or is being restarted, and is one behind from an exit to  *)
(* the scan that finds it.                                                 *)
(***************************************************************************)
BeingRestarted(t) == at \in {"exit alert", "backoff"} /\ turn = t /\ t \notin given_up

CountsKeepUp ==
    \A t \in Tasks :
       /\ task[t] = "alive" => exits[t] = restart_counts[t]
       /\ task[t] = "done" /\ main = "polling" =>
             exits[t] = restart_counts[t] + IF BeingRestarted(t) THEN 0 ELSE 1

\* Whom the supervisor restarts or gives up is done, and stays so meanwhile.
TurnsAreDue ==
    /\ at \in {"exit alert", "backoff"} => turn \in Tasks /\ task[turn] = "done"
    /\ at = "backoff" => turn \notin given_up
    /\ \A t \in given_up : task[t] = "done" /\ exits[t] = MaxTaskRestarts + 1
    /\ at = "scanning" => rest \intersect given_up = {}
    /\ at = "stall alert" => rest \intersect given_up = {} /\ turn \notin given_up
    /\ at \in {"exit alert", "backoff"} => rest \intersect given_up \subseteq {turn}

\* Once the shutdown has begun the supervisor is no more, and a task that was
\* stopped stays stopped.
ShutdownInOrder ==
    /\ main # "polling" => at = "ended"
    /\ main = "polling" => stopped = {}
    /\ main = "closed" => stopped = Tasks
    /\ \A t \in stopped : task[t] # "alive"

SupervisorInv == SupervisorTypeOK /\ CountsKeepUp /\ TurnsAreDue /\ ShutdownInOrder

-----------------------------------------------------------------------------
(* One step of each invariant, action by action. *)

LEMMA Arithmetic ==
    /\ \A n \in 0..MaxTaskRestarts : n \in Nat /\ n + 1 \in 0..(MaxTaskRestarts + 1) /\ n + 0 = n
    /\ \A n \in 0..MaxTaskRestarts : ~(n >= MaxTaskRestarts) => n + 1 \in 0..MaxTaskRestarts
    /\ \A n \in 0..MaxTaskRestarts : n >= MaxTaskRestarts => n = MaxTaskRestarts
    /\ 0 \in 0..MaxTaskRestarts /\ 0 \in 0..(MaxTaskRestarts + 1)
    /\ MaxTaskRestarts + 1 > MaxTaskRestarts
  BY TaskRestartsAssumption

LEMMA TypeInductive == SupervisorInv /\ [SupervisorNext]_supervisorVars => SupervisorTypeOK'
<1> SUFFICES ASSUME SupervisorInv, [SupervisorNext]_supervisorVars PROVE SupervisorTypeOK'
  OBVIOUS
<1> USE DEF SupervisorInv, SupervisorTypeOK, scanVars, taskVars, bookVars, mainVars, history
<1>1. ASSUME NEW t \in Tasks, Exit(t) PROVE SupervisorTypeOK'
  <2>1. exits[t] + 1 \in 0..(MaxTaskRestarts + 1)
    BY <1>1, Arithmetic DEF Exit, CountsKeepUp
  <2> QED
    BY <1>1, <2>1 DEF Exit, Pulses
<1>2. ASSUME NEW t \in Tasks, Beat(t) PROVE SupervisorTypeOK'
  BY <1>2 DEF Beat, Pulses
<1>3. ASSUME NEW t \in Tasks, Linger(t) PROVE SupervisorTypeOK'
  BY <1>3 DEF Linger, Pulses
<1>4. ASSUME NEW t \in Tasks, Settle(t) PROVE SupervisorTypeOK'
  BY <1>4 DEF Settle, Pulses
<1>5. ASSUME NEW t \in Tasks, StopTask(t) PROVE SupervisorTypeOK'
  BY <1>5 DEF StopTask, Pulses
<1>6. ASSUME NEW t \in Tasks, LookAtAlive(t) PROVE SupervisorTypeOK'
  <2>1. restart_counts' \in [Tasks -> 0..MaxTaskRestarts]
    BY <1>6, Arithmetic DEF LookAtAlive, CountAfter
  <2>2. exits' \in [Tasks -> 0..(MaxTaskRestarts + 1)]
    BY <1>6, Arithmetic DEF LookAtAlive
  <2>3. pulse' \in [Tasks -> Pulses] /\ stalled' \in SUBSET Tasks
    BY <1>6 DEF LookAtAlive, Pulses
  <2>4. /\ at' \in {"scanning", "stall alert"}
        /\ turn' \in Tasks \union {NoTask}
        /\ rest' \in SUBSET Tasks
    BY <1>6 DEF LookAtAlive, Pass, Await
  <2>5. stall_alerted' \in SUBSET Tasks /\ heard' \in SUBSET Tasks
    BY <1>6 DEF LookAtAlive
  <2> QED
    BY <1>6, <2>1, <2>2, <2>3, <2>4, <2>5 DEF LookAtAlive
<1>7. ASSUME NEW t \in Tasks, LookAtDone(t) PROVE SupervisorTypeOK'
  <2>1. restart_counts' \in [Tasks -> 0..MaxTaskRestarts]
    <3>1. CASE IsExhausted(t)
      BY <1>7, <3>1 DEF LookAtDone
    <3>2. CASE ~IsExhausted(t)
      <4>1. restart_counts[t] + 1 \in 0..MaxTaskRestarts
        BY <3>2, Arithmetic DEF IsExhausted
      <4> QED
        BY <1>7, <3>2, <4>1 DEF LookAtDone
    <3> QED
      BY <3>1, <3>2
  <2>2. given_up' \in SUBSET Tasks
    BY <1>7 DEF LookAtDone
  <2> QED
    BY <1>7, <2>1, <2>2 DEF LookAtDone, Await
<1>8. ASSUME NEW t \in Tasks, Recreate(t) PROVE SupervisorTypeOK'
  BY <1>8 DEF Recreate, Pass, Pulses
<1>9. ASSUME NEW t \in Tasks, FailToRecreate(t) PROVE SupervisorTypeOK'
  <2>1. main = "polling" /\ task[t] = "done" /\ BeingRestarted(t)
    BY <1>9 DEF FailToRecreate, TurnsAreDue, ShutdownInOrder, BeingRestarted
  <2>2. exits[t] + 1 \in 0..(MaxTaskRestarts + 1)
    BY <2>1, Arithmetic DEF CountsKeepUp
  <2> QED
    BY <1>9, <2>2 DEF FailToRecreate, Pass, Pulses
<1>10. ASSUME NEW t \in Tasks, NEW delivered \in BOOLEAN, StallAlertEnds(t, delivered) PROVE SupervisorTypeOK'
  BY <1>10 DEF StallAlertEnds, Pass, Pulses
<1>11. ASSUME NEW t \in Tasks, NEW delivered \in BOOLEAN, ExitAlertEnds(t, delivered) PROVE SupervisorTypeOK'
  BY <1>11 DEF ExitAlertEnds, Pass, Await, Pulses
<1>12. CASE StartScan
  BY <1>12 DEF StartScan, Pulses
<1>13. CASE EndScan
  BY <1>13 DEF EndScan, Pulses
<1>14. CASE StopSupervisor
  BY <1>14 DEF StopSupervisor, CancelSupervisor, Pulses
<1>15. CASE Close
  BY <1>15 DEF Close, Pulses
<1>16. CASE UNCHANGED supervisorVars
  BY <1>16 DEF supervisorVars, Pulses
<1> QED
  BY <1>1, <1>2, <1>3, <1>4, <1>5, <1>6, <1>7, <1>8, <1>9, <1>10, <1>11, <1>12, <1>13, <1>14, <1>15, <1>16 DEF SupervisorNext, Scan

LEMMA CountsInductive == SupervisorInv /\ [SupervisorNext]_supervisorVars => CountsKeepUp'
<1> SUFFICES ASSUME SupervisorInv, [SupervisorNext]_supervisorVars PROVE CountsKeepUp'
  OBVIOUS
<1> USE DEF SupervisorInv, SupervisorTypeOK, CountsKeepUp, BeingRestarted, TurnsAreDue, ShutdownInOrder,
           scanVars, taskVars, bookVars, mainVars, history
<1>1. ASSUME NEW t \in Tasks, Exit(t) PROVE CountsKeepUp'
  BY <1>1 DEF Exit
<1>2. ASSUME NEW t \in Tasks, Beat(t) PROVE CountsKeepUp'
  BY <1>2 DEF Beat
<1>3. ASSUME NEW t \in Tasks, Linger(t) PROVE CountsKeepUp'
  BY <1>3 DEF Linger
<1>4. ASSUME NEW t \in Tasks, Settle(t) PROVE CountsKeepUp'
  BY <1>4 DEF Settle
<1>5. ASSUME NEW t \in Tasks, StopTask(t) PROVE CountsKeepUp'
  BY <1>5 DEF StopTask
<1>6. ASSUME NEW t \in Tasks, LookAtAlive(t) PROVE CountsKeepUp'
  BY <1>6 DEF LookAtAlive, CountAfter, Pass, Await
<1>7. ASSUME NEW t \in Tasks, LookAtDone(t) PROVE CountsKeepUp'
  <2>1. t \notin given_up /\ main = "polling"
    BY <1>7 DEF LookAtDone
  <2>2. exits[t] = restart_counts[t] + 1
    BY <1>7, <2>1 DEF LookAtDone
  <2>3. CASE IsExhausted(t)
    <3>1. restart_counts[t] = MaxTaskRestarts
      BY <2>3, Arithmetic DEF IsExhausted
    <3> QED
      BY <1>7, <2>1, <2>2, <2>3, <3>1 DEF LookAtDone, Await
  <2>4. CASE ~IsExhausted(t)
    <3>1. /\ restart_counts' = [restart_counts EXCEPT ![t] = @ + 1]
          /\ UNCHANGED <<exits, given_up, task, main>>
          /\ task[t] = "done"
      BY <1>7, <2>4 DEF LookAtDone
    <3>2. \A u \in Tasks : BeingRestarted(u)' <=> u = t
      BY <1>7, <2>1, <3>1 DEF LookAtDone, Await
    <3>3. \A u \in Tasks : ~BeingRestarted(u)
      BY <1>7 DEF LookAtDone
    <3>4. restart_counts'[t] = restart_counts[t] + 1
      BY <3>1
    <3>5. exits[t] = restart_counts'[t] + 0
      <4>1. restart_counts[t] \in Nat
        BY Arithmetic
      <4> HIDE DEF SupervisorInv
      <4> QED
        BY <2>2, <3>4, <4>1, SMT
    <3>6. ASSUME NEW u \in Tasks, u # t
          PROVE  /\ task[u] = "alive" => exits[u] = restart_counts'[u]
                 /\ task[u] = "done" => exits[u] = restart_counts'[u] + 1
      <4>1. restart_counts'[u] = restart_counts[u]
        BY <3>1, <3>6
      <4> HIDE DEF BeingRestarted
      <4> QED
        BY <2>1, <3>3, <3>6, <4>1
    <3> HIDE DEF BeingRestarted
    <3> QED
      BY <3>1, <3>2, <3>5, <3>6
  <2> QED
    BY <2>3, <2>4
<1>8. ASSUME NEW t \in Tasks, Recreate(t) PROVE CountsKeepUp'
  BY <1>8 DEF Recreate, Pass
<1>9. ASSUME NEW t \in Tasks, FailToRecreate(t) PROVE CountsKeepUp'
  BY <1>9 DEF FailToRecreate, Pass
<1>10. ASSUME NEW t \in Tasks, NEW delivered \in BOOLEAN, StallAlertEnds(t, delivered) PROVE CountsKeepUp'
  BY <1>10 DEF StallAlertEnds, Pass
<1>11. ASSUME NEW t \in Tasks, NEW delivered \in BOOLEAN, ExitAlertEnds(t, delivered) PROVE CountsKeepUp'
  BY <1>11 DEF ExitAlertEnds, Pass, Await
<1>12. CASE StartScan
  BY <1>12 DEF StartScan
<1>13. CASE EndScan
  BY <1>13 DEF EndScan
<1>14. CASE StopSupervisor
  BY <1>14 DEF StopSupervisor, CancelSupervisor
<1>15. CASE Close
  BY <1>15 DEF Close
<1>16. CASE UNCHANGED supervisorVars
  BY <1>16 DEF supervisorVars
<1> QED
  BY <1>1, <1>2, <1>3, <1>4, <1>5, <1>6, <1>7, <1>8, <1>9, <1>10, <1>11, <1>12, <1>13, <1>14, <1>15, <1>16 DEF SupervisorNext, Scan

LEMMA TurnsInductive == SupervisorInv /\ [SupervisorNext]_supervisorVars => TurnsAreDue'
<1> SUFFICES ASSUME SupervisorInv, [SupervisorNext]_supervisorVars PROVE TurnsAreDue'
  OBVIOUS
<1> USE DEF SupervisorInv, SupervisorTypeOK, CountsKeepUp, BeingRestarted, TurnsAreDue, ShutdownInOrder,
           scanVars, taskVars, bookVars, mainVars, history
<1>1. ASSUME NEW t \in Tasks, Exit(t) PROVE TurnsAreDue'
  BY <1>1 DEF Exit
<1>2. ASSUME NEW t \in Tasks, Beat(t) PROVE TurnsAreDue'
  BY <1>2 DEF Beat
<1>3. ASSUME NEW t \in Tasks, Linger(t) PROVE TurnsAreDue'
  BY <1>3 DEF Linger
<1>4. ASSUME NEW t \in Tasks, Settle(t) PROVE TurnsAreDue'
  BY <1>4 DEF Settle
<1>5. ASSUME NEW t \in Tasks, StopTask(t) PROVE TurnsAreDue'
  BY <1>5 DEF StopTask
<1>6. ASSUME NEW t \in Tasks, LookAtAlive(t) PROVE TurnsAreDue'
  BY <1>6 DEF LookAtAlive, CountAfter, Pass, Await
<1>7. ASSUME NEW t \in Tasks, LookAtDone(t) PROVE TurnsAreDue'
  <2>1. t \notin given_up /\ main = "polling"
    BY <1>7 DEF LookAtDone
  <2>2. exits[t] = restart_counts[t] + 1
    BY <1>7, <2>1 DEF LookAtDone
  <2>3. CASE IsExhausted(t)
    <3>1. restart_counts[t] = MaxTaskRestarts
      BY <2>3, Arithmetic DEF IsExhausted
    <3> QED
      BY <1>7, <2>1, <2>2, <2>3, <3>1, ZenonT(40) DEF LookAtDone, Await
  <2>4. CASE ~IsExhausted(t)
    <3>1. restart_counts[t] \in Nat
      BY Arithmetic
    <3> QED
      BY <1>7, <2>1, <2>2, <2>4, <3>1 DEF LookAtDone, Await
  <2> QED
    BY <2>3, <2>4
<1>8. ASSUME NEW t \in Tasks, Recreate(t) PROVE TurnsAreDue'
  BY <1>8 DEF Recreate, Pass
<1>9. ASSUME NEW t \in Tasks, FailToRecreate(t) PROVE TurnsAreDue'
  BY <1>9 DEF FailToRecreate, Pass
<1>10. ASSUME NEW t \in Tasks, NEW delivered \in BOOLEAN, StallAlertEnds(t, delivered) PROVE TurnsAreDue'
  BY <1>10 DEF StallAlertEnds, Pass
<1>11. ASSUME NEW t \in Tasks, NEW delivered \in BOOLEAN, ExitAlertEnds(t, delivered) PROVE TurnsAreDue'
  BY <1>11 DEF ExitAlertEnds, Pass, Await
<1>12. CASE StartScan
  BY <1>12 DEF StartScan
<1>13. CASE EndScan
  BY <1>13 DEF EndScan
<1>14. CASE StopSupervisor
  BY <1>14 DEF StopSupervisor, CancelSupervisor
<1>15. CASE Close
  BY <1>15 DEF Close
<1>16. CASE UNCHANGED supervisorVars
  BY <1>16 DEF supervisorVars
<1> QED
  BY <1>1, <1>2, <1>3, <1>4, <1>5, <1>6, <1>7, <1>8, <1>9, <1>10, <1>11, <1>12, <1>13, <1>14, <1>15, <1>16 DEF SupervisorNext, Scan

LEMMA ShutdownInductive == SupervisorInv /\ [SupervisorNext]_supervisorVars => ShutdownInOrder'
<1> SUFFICES ASSUME SupervisorInv, [SupervisorNext]_supervisorVars PROVE ShutdownInOrder'
  OBVIOUS
<1> USE DEF SupervisorInv, SupervisorTypeOK, TurnsAreDue, ShutdownInOrder,
           scanVars, taskVars, bookVars, mainVars, history
<1>1. ASSUME NEW t \in Tasks, Exit(t) PROVE ShutdownInOrder'
  BY <1>1 DEF Exit
<1>2. ASSUME NEW t \in Tasks, Beat(t) PROVE ShutdownInOrder'
  BY <1>2 DEF Beat
<1>3. ASSUME NEW t \in Tasks, Linger(t) PROVE ShutdownInOrder'
  BY <1>3 DEF Linger
<1>4. ASSUME NEW t \in Tasks, Settle(t) PROVE ShutdownInOrder'
  BY <1>4 DEF Settle
<1>5. ASSUME NEW t \in Tasks, StopTask(t) PROVE ShutdownInOrder'
  BY <1>5 DEF StopTask
<1>6. ASSUME NEW t \in Tasks, LookAtAlive(t) PROVE ShutdownInOrder'
  BY <1>6 DEF LookAtAlive, CountAfter, Pass, Await
<1>7. ASSUME NEW t \in Tasks, LookAtDone(t) PROVE ShutdownInOrder'
  BY <1>7 DEF LookAtDone, IsExhausted, Await
<1>8. ASSUME NEW t \in Tasks, Recreate(t) PROVE ShutdownInOrder'
  BY <1>8 DEF Recreate, Pass
<1>9. ASSUME NEW t \in Tasks, FailToRecreate(t) PROVE ShutdownInOrder'
  BY <1>9 DEF FailToRecreate, Pass
<1>10. ASSUME NEW t \in Tasks, NEW delivered \in BOOLEAN, StallAlertEnds(t, delivered) PROVE ShutdownInOrder'
  BY <1>10 DEF StallAlertEnds, Pass
<1>11. ASSUME NEW t \in Tasks, NEW delivered \in BOOLEAN, ExitAlertEnds(t, delivered) PROVE ShutdownInOrder'
  BY <1>11 DEF ExitAlertEnds, Pass, Await
<1>12. CASE StartScan
  BY <1>12 DEF StartScan
<1>13. CASE EndScan
  BY <1>13 DEF EndScan
<1>14. CASE StopSupervisor
  BY <1>14 DEF StopSupervisor, CancelSupervisor
<1>15. CASE Close
  BY <1>15 DEF Close
<1>16. CASE UNCHANGED supervisorVars
  BY <1>16 DEF supervisorVars
<1> HIDE DEF ShutdownInOrder
<1> QED
  BY <1>1, <1>2, <1>3, <1>4, <1>5, <1>6, <1>7, <1>8, <1>9, <1>10, <1>11, <1>12, <1>13, <1>14, <1>15, <1>16 DEF SupervisorNext, Scan

LEMMA SupervisorInvHolds == SupervisorSpec => []SupervisorInv
<1>1. SupervisorInit => SupervisorInv
  BY Arithmetic DEF SupervisorInit, SupervisorInv, SupervisorTypeOK, Pulses, CountsKeepUp, TurnsAreDue, ShutdownInOrder
<1>2. SupervisorInv /\ [SupervisorNext]_supervisorVars => SupervisorInv'
  BY TypeInductive, CountsInductive, TurnsInductive, ShutdownInductive DEF SupervisorInv
<1> QED
  BY <1>1, <1>2, PTL DEF SupervisorSpec

-----------------------------------------------------------------------------
(* The theorems. *)

\* Every reachable state of the supervisor and its tasks is well typed.
THEOREM SupervisorTypeCorrect == SupervisorSpec => []SupervisorTypeOK
<1>1. SupervisorInv => SupervisorTypeOK
  BY DEF SupervisorInv
<1> QED
  BY <1>1, SupervisorInvHolds, PTL

\* Only a streak of more than MAX_TASK_RESTARTS failures abandons a task.
THEOREM RareFailuresForgiven == SupervisorSpec => []OnlyStreaksAbandoned
<1>1. SupervisorInv => OnlyStreaksAbandoned
  BY Arithmetic DEF SupervisorInv, SupervisorTypeOK, TurnsAreDue, OnlyStreaksAbandoned
<1> QED
  BY <1>1, SupervisorInvHolds, PTL

\* Whatever the supervisor was about, the shutdown leaves no task alive.
THEOREM NoTaskSurvives == SupervisorSpec => []ShutdownIsClean
<1>1. SupervisorInv => ShutdownIsClean
  BY DEF SupervisorInv, ShutdownInOrder, ShutdownIsClean
<1> QED
  BY <1>1, SupervisorInvHolds, PTL

-----------------------------------------------------------------------------

(***************************************************************************)
(* Proofs about Workers, for any number of servers and addresses and any   *)
(* restart budget: the type invariant, and that the workers follow the     *)
(* inventory.                                                              *)
(***************************************************************************)

USE RestartsAssumption, FailAssumption

-----------------------------------------------------------------------------
(* The type invariant. *)

LEMMA NoWorkerIsNone == NoWorker \notin WorkerInfos
  BY DistinctAssumption DEF WorkerInfos, Ages

\* What start_worker leaves in the registry.
LEMMA StartedType ==
    ASSUME NEW k \in Keys, NEW count \in 0..MaxRestarts, NEW ok
    PROVE  Started(k, count, ok) \in WorkerInfos \union {NoWorker}
  BY DEF Started, NewWorker, Monitorable, WorkerInfos, Ages

\* A worker whose restart budget is reset.
LEMMA ResetType ==
    ASSUME NEW w \in WorkerInfos
    PROVE  [w EXCEPT !.restarts = 0, !.age = "fresh"] \in WorkerInfos
<1>1. [w EXCEPT !.restarts = 0] \in WorkerInfos
  BY DEF WorkerInfos
<1> DEFINE v == [w EXCEPT !.restarts = 0]
<1>2. [v EXCEPT !.age = "fresh"] \in WorkerInfos
  BY <1>1 DEF WorkerInfos, Ages
<1> QED
  BY <1>2

LEMMA MonitoredType ==
    ASSUME TypeOK, NEW k \in Keys, NEW ok
    PROVE  Monitored(k, ok) \in WorkerInfos \union {NoWorker}
<1>1. CASE ~IsRegistered(k) \/ IsHopeless(k)
  BY <1>1 DEF Monitored
<1>2. CASE IsRegistered(k) /\ ~IsHopeless(k)
  <2>1. workers[k] \in WorkerInfos
    BY <1>2 DEF TypeOK, IsRegistered
  <2>2. CASE workers[k].alive
    <3>1. Monitored(k, ok) \in {workers[k], [workers[k] EXCEPT !.restarts = 0, !.age = "fresh"]}
      BY <1>2, <2>2 DEF Monitored
    <3> QED
      BY <2>1, <3>1, ResetType
  <2>3. CASE ~workers[k].alive
    <3>1. workers[k].restarts + 1 \in 0..MaxRestarts
      BY <1>2, <2>1, <2>3 DEF IsHopeless, WorkerInfos
    <3> QED
      BY <1>2, <2>1, <2>3, <3>1, StartedType DEF Monitored
  <2> QED
    BY <2>2, <2>3
<1> QED
  BY <1>1, <1>2

\* Every reachable state of the pool is well typed.
THEOREM PoolTypeCorrect == Spec => []TypeOK
<1>1. Init => TypeOK
  BY StartedType DEF Init, TypeOK, IdleSync, SyncStates
<1>2. TypeOK /\ [Next]_vars => TypeOK'
  <2> SUFFICES ASSUME TypeOK, [Next]_vars PROVE TypeOK'
    OBVIOUS
  <2>1. CASE SyncMerge
    BY <2>1 DEF SyncMerge, TypeOK, SyncStates
  <2>2. ASSUME NEW k \in Keys, StopWorker(k)
        PROVE  /\ workers' \in [Keys -> WorkerInfos \union {NoWorker}]
               /\ abandoned' \in [Keys -> {"no", "waiting", "due"}]
               /\ shared' \in SUBSET Keys
    BY <2>2 DEF StopWorker, TypeOK
  <2>3. ASSUME NEW k \in Keys, SyncAdd(k) PROVE TypeOK'
    <3>1. sync' \in SyncStates
      BY <2>3 DEF SyncAdd, TypeOK, SyncStates
    <3>2. workers' \in [Keys -> WorkerInfos \union {NoWorker}]
      BY <2>3, StartedType DEF SyncAdd, TypeOK
    <3> QED
      BY <2>3, <3>1, <3>2 DEF SyncAdd, TypeOK
  <2>4. ASSUME NEW k \in Keys, SyncRemove(k) PROVE TypeOK'
    BY <2>2, <2>4 DEF SyncRemove, TypeOK, SyncStates
  <2>5. ASSUME NEW k \in Keys, SyncChange(k) PROVE TypeOK'
    <3>1. CASE Monitorable(k)
      BY <2>5, <3>1, StartedType DEF SyncChange, TypeOK, SyncStates
    <3>2. CASE ~Monitorable(k)
      BY <2>2, <2>5, <3>2 DEF SyncChange, TypeOK, SyncStates
    <3> QED
      BY <3>1, <3>2
  <2>6. CASE SyncResume
    BY <2>6 DEF SyncResume, TypeOK, SyncStates
  <2>7. CASE SyncDone
    BY <2>7 DEF SyncDone, TypeOK, IdleSync, SyncStates
  <2>8. ASSUME NEW restarted, NEW added, HealthCycle(restarted, added) PROVE TypeOK'
    <3>1. workers' \in [Keys -> WorkerInfos \union {NoWorker}]
      BY <2>8, StartedType, MonitoredType DEF HealthCycle
    <3> QED
      BY <2>8, <3>1 DEF HealthCycle, TypeOK
  <2>9. ASSUME NEW k \in Keys, Publish(k) \/ Crash(k) \/ Age(k) \/ BackoffEnds(k)
        PROVE  TypeOK'
    <3>1. IsRegistered(k) => workers[k] \in WorkerInfos
      BY DEF TypeOK, IsRegistered
    <3>2. CASE Publish(k)
      BY <3>2 DEF Publish, TypeOK
    <3>3. CASE Crash(k)
      BY <3>1, <3>3 DEF Crash, IsAlive, TypeOK, WorkerInfos
    <3>4. CASE Age(k)
      BY <3>1, <3>4 DEF Age, TypeOK, WorkerInfos, Ages
    <3>5. CASE BackoffEnds(k)
      BY <3>5 DEF BackoffEnds, TypeOK
    <3> QED
      BY <2>9, <3>2, <3>3, <3>4, <3>5
  <2>10. CASE UNCHANGED vars
    BY <2>10 DEF vars, TypeOK
  <2> QED
    BY <2>1, <2>3, <2>4, <2>5, <2>6, <2>7, <2>8, <2>9, <2>10 DEF Next, SyncStep
<1> QED
  BY <1>1, <1>2, PTL DEF Spec

-----------------------------------------------------------------------------
(* The workers follow the inventory. *)

(***************************************************************************)
(* The invariant is inductive once it covers servers still to be added: a  *)
(* new server can only be monitored already because a health cycle has     *)
(* started its worker from the new inventory, since before the save there  *)
(* was no address to ping.                                                 *)
(***************************************************************************)
FollowsInventory(k) ==
    IsRegistered(k) /\ k \notin sync.removed \union sync.changed
       => workers[k].ip = repo[k]

FollowInv ==
    /\ sync.pc = "idle" => Pending = {}
    /\ \A k \in Keys : FollowsInventory(k)

\* A worker that start_worker leaves in the registry pings the address its
\* server has in the repository.
LEMMA StartedFollows ==
    ASSUME NEW k, NEW count, NEW ok, Started(k, count, ok) # NoWorker
    PROVE  Started(k, count, ok).ip = repo[k]
  BY DEF Started, NewWorker

LEMMA FollowInvInductive ==
    ASSUME TypeOK, FollowInv, [Next]_vars
    PROVE  FollowInv'
<1>1. CASE SyncMerge
  <2>1. Pending = {} /\ sync'.pc = "running"
    BY <1>1 DEF SyncMerge, FollowInv
  <2>2. ASSUME NEW k \in Keys, IsRegistered(k), k \notin sync'.removed \union sync'.changed
        PROVE  workers[k].ip = repo'[k]
    <3>1. workers[k].ip = repo[k]
      BY <2>1, <2>2 DEF FollowInv, FollowsInventory, Pending
    <3>2. repo[k] # NoServer
      BY <2>2, <3>1, DistinctAssumption DEF TypeOK, IsRegistered, WorkerInfos
    <3>3. repo'[k] = repo[k]
      BY <1>1, <2>2, <3>2 DEF SyncMerge
    <3> QED
      BY <3>1, <3>3
  <2> QED
    BY <1>1, <2>1, <2>2 DEF SyncMerge, FollowInv, FollowsInventory, IsRegistered
<1>2. ASSUME NEW k \in Keys, SyncAdd(k) PROVE FollowInv'
  <2>1. sync'.removed = sync.removed /\ sync'.changed = sync.changed /\ sync'.pc # "idle"
    BY <1>2 DEF SyncAdd, TypeOK, SyncStates
  <2>2. ASSUME NEW i \in Keys PROVE FollowsInventory(i)'
    <3>1. CASE workers'[i] = workers[i]
      BY <1>2, <2>1, <3>1 DEF SyncAdd, FollowInv, FollowsInventory, IsRegistered
    <3>2. CASE workers'[i] # workers[i]
      <4>1. PICK ok : workers'[i] = Started(i, 0, ok)
        BY <1>2, <3>2 DEF SyncAdd, TypeOK
      <4> QED
        BY <1>2, <4>1, StartedFollows DEF SyncAdd, FollowsInventory, IsRegistered
    <3> QED
      BY <3>1, <3>2
  <2> QED
    BY <2>1, <2>2 DEF FollowInv
<1>3. ASSUME NEW k \in Keys, SyncRemove(k) PROVE FollowInv'
  <2>1. sync'.removed = sync.removed \ {k} /\ sync'.changed = sync.changed /\ sync'.pc # "idle"
    BY <1>3 DEF SyncRemove, TypeOK, SyncStates
  <2>2. workers' = [workers EXCEPT ![k] = NoWorker] /\ repo' = repo
    BY <1>3 DEF SyncRemove, StopWorker
  <2> QED
    BY <2>1, <2>2 DEF FollowInv, FollowsInventory, IsRegistered, TypeOK
<1>4. ASSUME NEW k \in Keys, SyncChange(k) PROVE FollowInv'
  <2>1. sync'.removed = sync.removed /\ sync'.changed = sync.changed \ {k} /\ sync'.pc # "idle"
    BY <1>4 DEF SyncChange, TypeOK, SyncStates
  <2>2. /\ repo' = repo
        /\ \/ workers' = [workers EXCEPT ![k] = NoWorker]
           \/ \E ok : workers' = [workers EXCEPT ![k] = Started(k, 0, ok)]
    BY <1>4 DEF SyncChange, StopWorker
  <2>3. ASSUME NEW i \in Keys PROVE FollowsInventory(i)'
    <3>1. CASE i = k
      BY <2>2, <3>1, StartedFollows DEF FollowsInventory, IsRegistered, TypeOK
    <3>2. CASE i # k
      BY <2>1, <2>2, <3>2 DEF FollowInv, FollowsInventory, IsRegistered, TypeOK
    <3> QED
      BY <3>1, <3>2
  <2> QED
    BY <2>1, <2>3 DEF FollowInv
<1>5. CASE SyncResume
  BY <1>5 DEF SyncResume, FollowInv, FollowsInventory, IsRegistered, TypeOK, SyncStates
<1>6. CASE SyncDone
  BY <1>6 DEF SyncDone, FollowInv, FollowsInventory, IsRegistered, Pending, IdleSync
<1>7. ASSUME NEW restarted, NEW added, HealthCycle(restarted, added) PROVE FollowInv'
  <2>1. repo' = repo /\ sync' = sync
    BY <1>7 DEF HealthCycle
  <2>2. ASSUME NEW i \in Keys PROVE FollowsInventory(i)'
    <3>1. \/ workers'[i] = Started(i, 0, added)
          \/ workers'[i] = Monitored(i, restarted)
      BY <1>7 DEF HealthCycle
    <3>2. CASE workers'[i] = Started(i, 0, added)
      BY <2>1, <3>2, StartedFollows DEF FollowsInventory, IsRegistered
    <3>3. CASE workers'[i] = Monitored(i, restarted)
      <4>1. \/ workers'[i] = NoWorker
            \/ workers'[i] = Started(i, workers[i].restarts + 1, restarted)
            \/ IsRegistered(i) /\ workers'[i].ip = workers[i].ip
        BY <3>3, DistinctAssumption DEF Monitored, IsRegistered, TypeOK, WorkerInfos, Ages
      <4> QED
        BY <2>1, <4>1, StartedFollows DEF FollowInv, FollowsInventory, IsRegistered
    <3> QED
      BY <3>1, <3>2, <3>3
  <2> QED
    BY <2>1, <2>2 DEF FollowInv, Pending
<1>8. ASSUME NEW k \in Keys, Publish(k) \/ Crash(k) \/ Age(k) \/ BackoffEnds(k)
      PROVE  FollowInv'
  <2>1. repo' = repo /\ sync' = sync
    BY <1>8 DEF Publish, Crash, Age, BackoffEnds
  <2>2. ASSUME NEW i \in Keys, IsRegistered(i)'
        PROVE  IsRegistered(i) /\ workers'[i].ip = workers[i].ip
    <3>1. CASE Publish(k) \/ BackoffEnds(k)
      BY <2>2, <3>1 DEF Publish, BackoffEnds, IsRegistered
    <3>2. CASE Crash(k)
      BY <2>2, <3>2 DEF Crash, IsAlive, IsRegistered, TypeOK, WorkerInfos
    <3>3. CASE Age(k)
      BY <2>2, <3>3 DEF Age, IsRegistered, TypeOK, WorkerInfos
    <3> QED
      BY <1>8, <3>1, <3>2, <3>3
  <2> QED
    BY <2>1, <2>2 DEF FollowInv, FollowsInventory, Pending
<1>9. CASE UNCHANGED vars
  BY <1>9 DEF vars, FollowInv, FollowsInventory, IsRegistered, Pending
<1> QED
  BY <1>1, <1>2, <1>3, <1>4, <1>5, <1>6, <1>7, <1>8, <1>9 DEF Next, SyncStep

\* Whatever crashes, failed starts and health cycles happen between the save
\* of an inventory and the synchronization's last server: a worker that is
\* not still to be dealt with pings its server's address.
THEOREM PoolFollowsInventory == Spec => []WorkersFollowInventory
<1>1. Init => FollowInv
  BY StartedFollows DEF Init, FollowInv, FollowsInventory, IsRegistered, Pending, IdleSync
<1>2. FollowInv => WorkersFollowInventory
  BY DEF FollowInv, FollowsInventory, WorkersFollowInventory, Pending
<1> QED
  BY <1>1, <1>2, FollowInvInductive, PoolTypeCorrect, PTL DEF Spec

=============================================================================

------------------------- MODULE PingProcessorProofs -------------------------
(***************************************************************************)
(* Proofs about the two halves of src/background_tasks/ping_processor.py:  *)
(* the statistics buffer (PingBatch) and the alerts (PingAlerts).          *)
(***************************************************************************)
EXTENDS PingBatch, PingAlerts, SequenceTheorems, TLAPS

(***************************************************************************)
(* Proofs about PingBatch: for every buffer size, emergency size and       *)
(* number of results, no result is lost or counted twice, and the memory   *)
(* stays within its bound.                                                 *)
(*                                                                         *)
(* Conservation alone is not inductive, because Shutdown overwrites lost:  *)
(* nothing may be lost before it.  Nor is the bound, for three parties     *)
(* could hold an emergency size each.  They never do, since the processor  *)
(* does not receive while it writes: what the timer and the buffer then    *)
(* hold between them is what one of them held when its write began.        *)
(***************************************************************************)

\* Nothing is lost before the shutdown.
LostAtShutdownOnly == running => lost = 0

\* A coroutine holds results only while it writes them.
OnlyWritersHold == \A f \in Flushers : job[f].size > 0 => job[f].pc = "writing"

\* What each of the three parties may hold.
PartsBounded ==
    /\ batch <= EmergencySize
    /\ job["timer"].size <= EmergencySize
    /\ job["processor"].size <= EmergencySize + 1
    /\ job["processor"].size > 0 => batch + job["timer"].size <= EmergencySize

BatchInv ==
    /\ BatchTypeOK
    /\ ResultsAccountedFor
    /\ LostAtShutdownOnly
    /\ OnlyWritersHold
    /\ PartsBounded

-----------------------------------------------------------------------------

\* A check leaves every result where it is or moves all of the buffer into
\* the hands of the coroutine that flushes.
LEMMA CheckMoves ==
    ASSUME NEW f \in Flushers, NEW size \in Nat, BatchTypeOK, job[f] = Idle,
           Check(f, size)
    PROVE  /\ due' \in BOOLEAN
           /\ \/ /\ batch' = 0
                 /\ job' = [job EXCEPT ![f] = [pc |-> "writing", size |-> size]]
              \/ /\ batch' = size
                 /\ size = 0 \/ size < MaxSize
                 /\ job' = job
<1>1. MaxSize \in Nat
  BY SizeAssumption
<1>2. CASE (due \/ IsFull(size)) /\ size > 0
  BY <1>2 DEF Check
<1>3. CASE ~((due \/ IsFull(size)) /\ size > 0)
  BY <1>1, <1>3 DEF Check, BatchTypeOK, IsFull
<1>. QED BY <1>2, <1>3

\* Receiving a result keeps the invariant: the processor holds nothing, so
\* whatever the check does, it takes at most one result more than the buffer.
LEMMA ReceiveKeeps ==
    ASSUME BatchInv, Receive
    PROVE  BatchInv'
<1>. USE DEF BatchInv, BatchTypeOK, Idle
<1>1. /\ job["processor"] = Idle
      /\ taken' = taken + 1
      /\ Check("processor", batch + 1)
      /\ UNCHANGED <<alerts, running, stored, dropped, lost>>
  BY DEF Receive
<1>2. "processor" \in Flushers /\ batch + 1 \in Nat
  BY DEF Flushers
<1>3. MaxSize \in Nat /\ EmergencySize \in Nat /\ MaxSize <= EmergencySize
  BY SizeAssumption
<1>4. due' \in BOOLEAN
  BY <1>1, <1>2, CheckMoves
<1>5. CASE /\ batch' = 0
           /\ job' = [job EXCEPT !["processor"] = [pc |-> "writing", size |-> batch + 1]]
  <2>1. job' \in [Flushers -> [pc: Jobs, size: Nat]]
    BY <1>2, <1>5 DEF Jobs
  <2>2. job'["processor"].size = batch + 1 /\ job'["timer"] = job["timer"]
    BY <1>5 DEF Flushers
  <2>. QED BY <1>1, <1>3, <1>4, <1>5, <2>1, <2>2
           DEF ResultsAccountedFor, InFlight, LostAtShutdownOnly,
               OnlyWritersHold, PartsBounded, Flushers
<1>6. CASE batch' = batch + 1 /\ (batch + 1 = 0 \/ batch + 1 < MaxSize) /\ job' = job
  BY <1>1, <1>3, <1>4, <1>6
     DEF ResultsAccountedFor, InFlight, LostAtShutdownOnly,
               OnlyWritersHold, PartsBounded, Flushers
<1>. QED BY <1>1, <1>2, <1>5, <1>6, CheckMoves

\* A round of the timer keeps the invariant: it takes all of the buffer.
LEMMA TimerRoundKeeps ==
    ASSUME BatchInv, TimerRound
    PROVE  BatchInv'
<1>. USE DEF BatchInv, BatchTypeOK, Idle
<1>1. /\ job["timer"] = Idle
      /\ Check("timer", batch)
      /\ UNCHANGED <<alerts, running, taken, stored, dropped, lost>>
  BY DEF TimerRound
<1>2. "timer" \in Flushers /\ EmergencySize \in Nat
  BY SizeAssumption DEF Flushers
<1>3. due' \in BOOLEAN
  BY <1>1, <1>2, CheckMoves
<1>4. CASE batch' = 0 /\ job' = [job EXCEPT !["timer"] = [pc |-> "writing", size |-> batch]]
  <2>1. job' \in [Flushers -> [pc: Jobs, size: Nat]]
    BY <1>2, <1>4 DEF Jobs
  <2>2. job'["timer"].size = batch /\ job'["processor"] = job["processor"]
    BY <1>4 DEF Flushers
  <2>. QED BY <1>1, <1>2, <1>3, <1>4, <2>1, <2>2
           DEF ResultsAccountedFor, InFlight, LostAtShutdownOnly,
               OnlyWritersHold, PartsBounded, Flushers
<1>5. CASE batch' = batch /\ job' = job
  BY <1>1, <1>3, <1>5
     DEF ResultsAccountedFor, InFlight, LostAtShutdownOnly,
               OnlyWritersHold, PartsBounded, Flushers
<1>. QED BY <1>1, <1>2, <1>4, <1>5, CheckMoves

\* The end of a write keeps the invariant.
LEMMA WriteKeeps ==
    ASSUME BatchInv, NEW f \in Flushers, WriteSucceeds(f) \/ WriteFails(f)
    PROVE  BatchInv'
<1>. USE DEF BatchInv, BatchTypeOK
<1>. DEFINE g == IF f = "timer" THEN "processor" ELSE "timer"
<1>1. EmergencySize \in Nat
  BY SizeAssumption
<1>2. CASE WriteSucceeds(f)
  <2>1. job' \in [Flushers -> [pc: Jobs, size: Nat]]
    BY <1>2 DEF WriteSucceeds, Idle, Jobs
  <2>2. job'[f].size = 0 /\ job'[g] = job[g]
    BY <1>2 DEF WriteSucceeds, Idle, Flushers
  <2>. QED BY <1>1, <1>2, <2>1, <2>2
           DEF WriteSucceeds, ResultsAccountedFor, InFlight, LostAtShutdownOnly,
               OnlyWritersHold, PartsBounded,
               Flushers
<1>3. CASE WriteFails(f)
  <2>1. PICK pc \in Jobs : job' = [job EXCEPT ![f] = [pc |-> pc, size |-> 0]]
    BY <1>3 DEF WriteFails, Idle, Jobs
  <2>2. job' \in [Flushers -> [pc: Jobs, size: Nat]]
    BY <2>1
  <2>3. job'[f].size = 0 /\ job'[g] = job[g]
    BY <2>1 DEF Flushers
  <2>4. \/ /\ batch' = 0 /\ dropped' = dropped + batch + job[f].size /\ due' = FALSE
        \/ /\ batch' = batch + job[f].size /\ batch' <= EmergencySize
           /\ dropped' = dropped /\ due' = due
    BY <1>1, <1>3 DEF WriteFails
  <2>5. UNCHANGED <<alerts, running, taken, stored, lost>>
    BY <1>3 DEF WriteFails
  <2>6. BatchTypeOK'
    <3>1. batch' \in Nat /\ dropped' \in Nat
      BY <2>4
    <3>2. due' \in BOOLEAN
      BY <2>4
    <3>. QED BY <2>2, <2>5, <3>1, <3>2
  <2>7. job[f].size \in Nat /\ job[g].size \in Nat
    BY DEF Flushers
  <2>8. InFlight = job[f].size + job[g].size /\ InFlight' = job[g].size
    BY <2>3, <2>7 DEF InFlight, Flushers
  <2>9. ResultsAccountedFor' /\ LostAtShutdownOnly'
    BY <2>4, <2>5, <2>7, <2>8 DEF ResultsAccountedFor, LostAtShutdownOnly
  <2>10. ASSUME f = "timer"
         PROVE  PartsBounded'
    BY <1>1, <2>3, <2>4, <2>7, <2>10 DEF PartsBounded
  <2>11. ASSUME f = "processor"
         PROVE  PartsBounded'
    BY <1>1, <2>3, <2>4, <2>7, <2>11 DEF PartsBounded
  <2>12. OnlyWritersHold'
    BY <2>1 DEF OnlyWritersHold
  <2>. QED BY <2>6, <2>9, <2>10, <2>11, <2>12 DEF Flushers
<1>. QED BY <1>2, <1>3

\* The shutdown leaves nothing in memory, and counts as lost what was there
\* and is not saved.
LEMMA ShutdownKeeps ==
    ASSUME BatchInv, NEW failed, Shutdown(failed)
    PROVE  BatchInv'
<1>. USE DEF BatchInv, BatchTypeOK
<1>. DEFINE size(w) == IF w = "last" THEN batch ELSE job[w].size
            saved(w) == IF w \in failed THEN 0 ELSE size(w)
<1>1. /\ saved("last") \in 0..batch
      /\ saved("processor") \in 0..(job["processor"].size)
      /\ saved("timer") \in 0..(job["timer"].size)
      /\ InFlight = job["processor"].size + job["timer"].size
      /\ job["processor"].size \in Nat /\ job["timer"].size \in Nat
  BY DEF Flushers, InFlight
<1>2. /\ running' = FALSE /\ batch' = 0 /\ job' = [f \in Flushers |-> Idle]
      /\ stored' = stored + saved("last") + saved("processor") + saved("timer")
      /\ lost' = InFlight + batch - saved("last") - saved("processor") - saved("timer")
      /\ lost = 0
      /\ UNCHANGED <<due, alerts, taken, dropped>>
  BY DEF Shutdown, LostAtShutdownOnly
<1>. HIDE DEF size, saved
<1>3. job' \in [Flushers -> [pc: Jobs, size: Nat]] /\ InFlight' = 0
  BY <1>2 DEF Idle, Jobs, Flushers, InFlight
<1>4. BatchTypeOK'
  <2>1. stored' \in Nat /\ lost' \in Nat
    BY <1>1, <1>2
  <2>. QED BY <1>2, <1>3, <2>1
<1>5. ResultsAccountedFor' /\ LostAtShutdownOnly'
  BY <1>1, <1>2, <1>3 DEF ResultsAccountedFor, LostAtShutdownOnly
<1>6. PartsBounded' /\ OnlyWritersHold'
  BY <1>2, SizeAssumption DEF PartsBounded, OnlyWritersHold, Idle, Flushers
<1>. QED BY <1>4, <1>5, <1>6

\* BatchInv is inductive.
LEMMA BatchInvInductive ==
    ASSUME BatchInv, [BatchNext]_batchVars
    PROVE  BatchInv'
<1>. USE DEF BatchInv, BatchTypeOK
<1>1. CASE Receive
  BY <1>1, ReceiveKeeps
<1>2. CASE TimerRound
  BY <1>2, TimerRoundKeeps
<1>3. CASE FlushIntervalPasses
  BY <1>3 DEF FlushIntervalPasses, ResultsAccountedFor, InFlight, LostAtShutdownOnly,
              OnlyWritersHold, PartsBounded
<1>4. CASE \E f \in Flushers : WriteSucceeds(f) \/ WriteFails(f)
  BY <1>4, WriteKeeps
<1>5. CASE \E f \in Flushers, delivered \in BOOLEAN : AlertEnds(f, delivered)
  <2>1. PICK f \in Flushers, delivered \in BOOLEAN : AlertEnds(f, delivered)
    BY <1>5
  <2>2. alerts' \in Nat
    BY <2>1 DEF AlertEnds
  <2>3. job' \in [Flushers -> [pc: Jobs, size: Nat]]
    BY <2>1 DEF AlertEnds, Idle, Jobs
  <2>4. job[f].size = 0
    BY <2>1 DEF AlertEnds, OnlyWritersHold
  <2>5. \A g \in Flushers : job'[g].size = job[g].size
    BY <2>1, <2>4 DEF AlertEnds, Idle
  <2>. QED BY <2>1, <2>2, <2>3, <2>5
           DEF AlertEnds, Idle, ResultsAccountedFor, InFlight,
               LostAtShutdownOnly, OnlyWritersHold, PartsBounded, Flushers
<1>6. CASE AlertCooldownEnds
  BY <1>6 DEF AlertCooldownEnds, ResultsAccountedFor, InFlight, LostAtShutdownOnly,
              OnlyWritersHold, PartsBounded
<1>7. CASE \E failed \in SUBSET (Flushers \union {"last"}) : Shutdown(failed)
  BY <1>7, ShutdownKeeps
<1>8. CASE UNCHANGED batchVars
  BY <1>8 DEF batchVars, ResultsAccountedFor, InFlight, LostAtShutdownOnly,
              OnlyWritersHold, PartsBounded
<1>. QED BY <1>1, <1>2, <1>3, <1>4, <1>5, <1>6, <1>7, <1>8 DEF BatchNext

-----------------------------------------------------------------------------

LEMMA BatchInvHolds == BatchSpec => []BatchInv
<1>1. BatchInit => BatchInv
  <2>. SUFFICES ASSUME BatchInit PROVE BatchInv
    OBVIOUS
  <2>1. BatchTypeOK
    <3>1. [f \in Flushers |-> Idle] \in [Flushers -> [pc: Jobs, size: Nat]]
      BY DEF Idle, Jobs
    <3>2. 0 \in Nat
      OBVIOUS
    <3>. QED BY <3>1, <3>2, Zenon DEF BatchInit, BatchTypeOK
  <2>2. InFlight = 0 /\ ResultsAccountedFor
    BY DEF BatchInit, Idle, Flushers, InFlight, ResultsAccountedFor
  <2>3. LostAtShutdownOnly /\ OnlyWritersHold /\ PartsBounded
    BY SizeAssumption
       DEF BatchInit, Idle, Flushers, LostAtShutdownOnly, OnlyWritersHold, PartsBounded
  <2>. QED BY <2>1, <2>2, <2>3 DEF BatchInv
<1>2. BatchInv /\ [BatchNext]_batchVars => BatchInv'
  BY BatchInvInductive
<1>. QED BY <1>1, <1>2, PTL DEF BatchSpec

\* The variables keep their types, for any sizes.
THEOREM BatchTypeCorrect == BatchSpec => []BatchTypeOK
<1>1. BatchInv => BatchTypeOK
  BY DEF BatchInv
<1>. QED BY <1>1, BatchInvHolds, PTL

\* No result that the processor takes off the queue is lost or counted twice,
\* whichever writes of the two coroutines fail and whenever it is cancelled.
THEOREM NoResultIsLost == BatchSpec => []ResultsAccountedFor
<1>1. BatchInv => ResultsAccountedFor
  BY DEF BatchInv
<1>. QED BY <1>1, BatchInvHolds, PTL

\* The results in memory are at most twice the emergency size and one more.
THEOREM MemoryIsBounded == BatchSpec => []MemoryBounded
<1>1. BatchInv => MemoryBounded
  <2>1. EmergencySize \in Nat
    BY SizeAssumption
  <2>2. BatchInv => job["processor"].size \in Nat /\ job["timer"].size \in Nat /\ batch \in Nat
    BY DEF BatchInv, BatchTypeOK, Flushers
  <2>. QED BY <2>1, <2>2 DEF BatchInv, PartsBounded, MemoryBounded, InFlight
<1>. QED BY <1>1, BatchInvHolds, PTL

-----------------------------------------------------------------------------
(* The debounce of the database alert. *)

\* 1 while coroutine f sends an alert.
Sending(f) == IF job[f].pc = "alerting" THEN 1 ELSE 0

\* A coroutine starts an alert only while none was delivered in the window,
\* so that the delivered ones and those on their way are never more than two.
AlertsInv == alerts + Sending("processor") + Sending("timer") <= 2

\* AlertsInv is inductive, given the types.
LEMMA AlertsInvInductive ==
    ASSUME BatchTypeOK, AlertsInv, [BatchNext]_batchVars
    PROVE  AlertsInv'
<1>. USE DEF BatchTypeOK, AlertsInv, Sending, Idle, Flushers
<1>1. CASE Receive
  BY <1>1 DEF Receive, Check
<1>2. CASE TimerRound
  BY <1>2 DEF TimerRound, Check
<1>3. CASE FlushIntervalPasses
  BY <1>3 DEF FlushIntervalPasses
<1>4. ASSUME NEW f \in Flushers, WriteSucceeds(f)
      PROVE  AlertsInv'
  BY <1>4 DEF WriteSucceeds
<1>5. ASSUME NEW f \in Flushers, WriteFails(f)
      PROVE  AlertsInv'
  <2>1. \/ job' = [job EXCEPT ![f] = Idle]
        \/ alerts = 0 /\ job' = [job EXCEPT ![f] = [pc |-> "alerting", size |-> 0]]
    BY <1>5 DEF WriteFails
  <2>. QED BY <1>5, <2>1 DEF WriteFails
<1>6. ASSUME NEW f \in Flushers, NEW delivered \in BOOLEAN, AlertEnds(f, delivered)
      PROVE  AlertsInv'
  BY <1>6 DEF AlertEnds
<1>7. CASE AlertCooldownEnds
  BY <1>7 DEF AlertCooldownEnds
<1>8. ASSUME NEW failed, Shutdown(failed)
      PROVE  AlertsInv'
  BY <1>8 DEF Shutdown
<1>9. CASE UNCHANGED batchVars
  BY <1>9 DEF batchVars
<1>. QED BY <1>1, <1>2, <1>3, <1>4, <1>5, <1>6, <1>7, <1>8, <1>9 DEF BatchNext

\* However many emergencies there are, at most two alerts about failing
\* writes arrive within DB_ALERT_COOLDOWN_SECONDS.
THEOREM AlertsAreBounded == BatchSpec => []AlertsBounded
<1>1. BatchInit => AlertsInv
  BY DEF BatchInit, AlertsInv, Sending, Idle, Flushers
<1>2. BatchTypeOK /\ AlertsInv /\ [BatchNext]_batchVars => AlertsInv'
  BY AlertsInvInductive
<1>3. BatchTypeOK /\ AlertsInv => AlertsBounded
  BY DEF BatchTypeOK, AlertsInv, Sending, AlertsBounded
<1>. QED BY <1>1, <1>2, <1>3, BatchTypeCorrect, PTL DEF BatchSpec

-----------------------------------------------------------------------------

(***************************************************************************)
(* Proofs about PingAlerts, for any servers, threshold and queue: its      *)
(* variables keep their types, and no alert repeats the one before it,     *)
(* also when a server is forgotten while an alert about it is on its way.  *)
(***************************************************************************)

\* A worker's round keeps the types: it counts up to the threshold, and puts
\* its result on the queue only if there is room.
LEMMA PingKeepsTypes ==
    ASSUME TypeOK, NEW k \in Keys, Ping(k)
    PROVE  TypeOK'
<1>1. PICK count \in 0..Attempts, status \in Statuses :
          /\ fails' = [fails EXCEPT ![k] = count]
          /\ queue' = IF Len(queue) < QueueLimit
                      THEN Append(queue, [key |-> k, status |-> status]) ELSE queue
  <2>. DEFINE count == IF k \in up THEN 0
                       ELSE IF fails[k] < Attempts THEN fails[k] + 1 ELSE Attempts
              status == IF k \in up THEN "online"
                        ELSE IF count = Attempts THEN "offline" ELSE "unknown"
  <2>1. fails[k] \in 0..Attempts /\ Attempts \in Nat \ {0}
    BY AttemptsAssumption DEF TypeOK
  <2>2. count \in 0..Attempts
    BY <2>1
  <2>3. status \in Statuses
    BY DEF Statuses
  <2>4. /\ fails' = [fails EXCEPT ![k] = count]
        /\ queue' = IF Len(queue) < QueueLimit
                    THEN Append(queue, [key |-> k, status |-> status]) ELSE queue
    BY DEF Ping, IsReached
  <2>. QED BY <2>2, <2>3, <2>4
<1>2. fails' \in [Keys -> 0..Attempts]
  BY <1>1 DEF TypeOK
<1>3. queue' \in Seq(Results) /\ Len(queue') <= QueueLimit
  <2>1. [key |-> k, status |-> status] \in Results
    BY DEF Results
  <2>2. queue \in Seq(Results) /\ Len(queue) \in Nat /\ QueueLimit \in Nat
    BY QueueAssumption, LenProperties DEF TypeOK
  <2>3. CASE Len(queue) < QueueLimit
    BY <1>1, <2>1, <2>2, <2>3, AppendProperties
  <2>4. CASE ~(Len(queue) < QueueLimit)
    BY <1>1, <2>4 DEF TypeOK
  <2>. QED BY <2>3, <2>4
<1>4. UNCHANGED <<up, known, leaving, proc, notified, cooling, told>>
  BY DEF Ping, IsReached
<1>. QED BY <1>2, <1>3, <1>4 DEF TypeOK

\* The processor's steps keep the types.
LEMMA ProcessorKeepsTypes ==
    ASSUME TypeOK, Take \/ Decide \/ \E ok \in BOOLEAN : Delivered(ok)
    PROVE  TypeOK'
<1>1. CASE Take
  <2>1. Head(queue) \in Results /\ Tail(queue) \in Seq(Results)
        /\ Len(Tail(queue)) = Len(queue) - 1 /\ Len(queue) \in Nat
    BY <1>1, HeadTailProperties, LenProperties DEF TypeOK, Take
  <2>2. proc' \in ProcStates
    BY <1>1, <2>1 DEF Take, ProcStates, Results
  <2>3. queue' \in Seq(Results) /\ Len(queue') <= QueueLimit
    BY <1>1, <2>1, QueueAssumption DEF Take, TypeOK
  <2>. QED BY <1>1, <2>2, <2>3 DEF Take, TypeOK
<1>2. CASE Decide
  <2>1. proc' \in ProcStates
    <3>1. proc \in [pc: {"flushing", "sending"}, key: Keys, status: Statuses]
      BY <1>2 DEF Decide, TypeOK, ProcStates, NoResult
    <3>2. [proc EXCEPT !.pc = "sending"] \in ProcStates
      <4>. DEFINE sending == [proc EXCEPT !.pc = "sending"]
      <4>1. sending \in [pc: {"flushing", "sending"}, key: Keys, status: Statuses]
        BY <3>1
      <4>. QED BY <4>1 DEF ProcStates
    <3>. QED BY <1>2, <3>2 DEF Decide, ProcStates
  <2>. QED BY <1>2, <2>1 DEF Decide, TypeOK
<1>3. ASSUME NEW ok \in BOOLEAN, Delivered(ok)
      PROVE  TypeOK'
  <2>1. proc.key \in Keys /\ proc.status \in Statuses
    BY <1>3 DEF Delivered, TypeOK, ProcStates, NoResult
  <2>2. <<proc.key, Direction(proc.status)>> \in Keys \X Directions
    BY <2>1 DEF Direction, Directions
  <2>3. notified' \in [Keys -> Statuses] /\ told' \in [Keys -> Statuses]
    BY <1>3, <2>1 DEF Delivered, TypeOK
  <2>4. cooling' \in SUBSET (Keys \X Directions)
    BY <1>3, <2>2 DEF Delivered, TypeOK
  <2>5. proc' \in ProcStates
    BY <1>3 DEF Delivered, ProcStates
  <2>. QED BY <1>3, <2>3, <2>4, <2>5 DEF Delivered, TypeOK
<1>. QED BY <1>1, <1>2, <1>3

\* Every step keeps the types.
LEMMA StepKeepsTypes ==
    ASSUME TypeOK, [Next]_vars
    PROVE  TypeOK'
<1>1. ASSUME NEW k \in Keys, Turn(k)
      PROVE  TypeOK'
  BY <1>1 DEF Turn, TypeOK
<1>2. ASSUME NEW k \in Keys, Forget(k)
      PROVE  TypeOK'
  <2>1. fails' \in [Keys -> 0..Attempts]
    <3>1. 0 \in 0..Attempts
      BY AttemptsAssumption
    <3>. QED BY <1>2, <3>1 DEF Forget, TypeOK
  <2>2. notified' \in [Keys -> Statuses] /\ told' \in [Keys -> Statuses]
    BY <1>2 DEF Forget, TypeOK, Statuses
  <2>. QED BY <1>2, <2>1, <2>2 DEF Forget, TypeOK
<1>3. ASSUME NEW k \in Keys, Return(k)
      PROVE  TypeOK'
  BY <1>3 DEF Return, TypeOK
<1>4. ASSUME NEW k \in Keys, NEW d \in Directions, CooldownEnds(k, d)
      PROVE  TypeOK'
  BY <1>4 DEF CooldownEnds, TypeOK
<1>5. ASSUME NEW gone \in SUBSET known, Remove(gone)
      PROVE  TypeOK'
  BY <1>5 DEF Remove, TypeOK
<1>6. CASE UNCHANGED vars
  BY <1>6 DEF vars, TypeOK
<1>. QED BY <1>1, <1>2, <1>3, <1>4, <1>5, <1>6, PingKeepsTypes, ProcessorKeepsTypes
         DEF Next

\* The variables of the alerting keep their types; above all, the failure
\* count stays within the threshold and the queue within its limit.
THEOREM AlertsTypeCorrect == Spec => []TypeOK
<1>1. Init => TypeOK
  <2>. SUFFICES ASSUME Init PROVE TypeOK
    OBVIOUS
  <2>1. fails \in [Keys -> 0..Attempts]
    BY AttemptsAssumption DEF Init
  <2>2. queue \in Seq(Results) /\ Len(queue) <= QueueLimit
    BY QueueAssumption, EmptySeq DEF Init
  <2>3. proc \in ProcStates
    BY DEF Init, ProcStates
  <2>4. notified \in [Keys -> Statuses] /\ told \in [Keys -> Statuses]
    BY DEF Init, Statuses
  <2>. QED BY <2>1, <2>2, <2>3, <2>4 DEF Init, TypeOK
<1>2. TypeOK /\ [Next]_vars => TypeOK'
  BY StepKeepsTypes
<1>. QED BY <1>1, <1>2, PTL DEF Spec

-----------------------------------------------------------------------------

\* While an alert is on its way, it is about an outage or a recovery, and its
\* news are not what is remembered to have been told.
NewsOnly ==
    proc.pc = "sending" =>
        /\ proc.status \in {"online", "offline"}
        /\ notified[proc.key] # proc.status

\* The record of the processor and the admins' own change together.
RecordsAgree == told = notified

LEMMA NewsInductive ==
    ASSUME TypeOK, RecordsAgree, NewsOnly, [Next]_vars
    PROVE  RecordsAgree' /\ NewsOnly'
<1>. USE DEF RecordsAgree, NewsOnly
<1>1. ASSUME NEW k \in Keys, Turn(k) \/ Return(k) \/ Ping(k)
      PROVE  RecordsAgree' /\ NewsOnly'
  BY <1>1 DEF Turn, Return, Ping
<1>2. ASSUME NEW k \in Keys, Forget(k)
      PROVE  RecordsAgree' /\ NewsOnly'
  <2>1. proc.pc = "sending" => proc.key \in Keys
    BY DEF TypeOK, ProcStates, NoResult
  <2>. QED BY <1>2, <2>1 DEF Forget, TypeOK
<1>3. ASSUME NEW k \in Keys, NEW d \in Directions, CooldownEnds(k, d)
      PROVE  RecordsAgree' /\ NewsOnly'
  BY <1>3 DEF CooldownEnds
<1>4. ASSUME NEW gone \in SUBSET known, Remove(gone)
      PROVE  RecordsAgree' /\ NewsOnly'
  BY <1>4 DEF Remove
<1>5. CASE Take
  BY <1>5 DEF Take
<1>6. CASE Decide
  <2>1. CASE IsAlert(proc.key, proc.status)
    <3>1. proc \in [pc: {"flushing", "sending"}, key: Keys, status: Statuses]
      BY <1>6 DEF Decide, TypeOK, ProcStates, NoResult
    <3>2. proc'.key = proc.key /\ proc'.status = proc.status
      BY <1>6, <2>1, <3>1 DEF Decide
    <3>3. /\ proc.status \in {"online", "offline"}
          /\ notified[proc.key] # proc.status
      BY <2>1 DEF IsAlert, IsOutage, IsRecovery
    <3>. QED BY <1>6, <3>2, <3>3 DEF Decide
  <2>2. CASE ~IsAlert(proc.key, proc.status)
    BY <1>6, <2>2 DEF Decide, NoResult
  <2>. QED BY <2>1, <2>2
<1>7. ASSUME NEW ok \in BOOLEAN, Delivered(ok)
      PROVE  RecordsAgree' /\ NewsOnly'
  BY <1>7 DEF Delivered, NoResult
<1>8. CASE UNCHANGED vars
  BY <1>8 DEF vars
<1>. QED BY <1>1, <1>2, <1>3, <1>4, <1>5, <1>6, <1>7, <1>8 DEF Next

\* Whatever is lost, forgotten or held back in between, no alert repeats the
\* last one that was delivered about its server.
THEOREM AlertsAreNews == Spec => NoRepetition
<1>1. Init => RecordsAgree /\ NewsOnly
  BY DEF Init, RecordsAgree, NewsOnly, NoResult
<1>2. TypeOK /\ RecordsAgree /\ NewsOnly /\ [Next]_vars => RecordsAgree' /\ NewsOnly'
  BY NewsInductive
<1>3. TypeOK /\ RecordsAgree /\ NewsOnly /\ [Next]_vars =>
          [\A k \in Keys, ok \in BOOLEAN :
              Delivered(ok) /\ ok /\ proc.key = k => told'[k] # told[k]]_vars
  <2>. SUFFICES ASSUME TypeOK, RecordsAgree, NewsOnly,
                       NEW k \in Keys, NEW ok \in BOOLEAN, Delivered(ok), ok, proc.key = k
                PROVE  told'[k] # told[k]
    OBVIOUS
  <2>. QED BY DEF Delivered, RecordsAgree, NewsOnly, TypeOK
<1>. QED BY <1>1, <1>2, <1>3, AlertsTypeCorrect, PTL DEF Spec, NoRepetition

=============================================================================

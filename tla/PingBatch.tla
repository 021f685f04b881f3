------------------------------ MODULE PingBatch ------------------------------
(***************************************************************************)
(* The statistics buffer of src/background_tasks/ping_processor.py.  The   *)
(* results processor puts every ping result into a buffer in memory, and   *)
(* two coroutines empty it into the database: the processor itself, after  *)
(* each result, and _periodic_batch_flush, every half minute.  A failed    *)
(* write puts the results back; a buffer that outgrows the emergency size  *)
(* is thrown away and the admins are alerted.                              *)
(*                                                                         *)
(* _batch_storage_lock is never held across an await, so acquiring it      *)
(* never waits, and a result is appended and the buffer checked in one     *)
(* step.  The coroutines interleave while a write or an alert is awaited.  *)
(***************************************************************************)
EXTENDS Naturals

CONSTANTS
    MaxSize,        \* BATCH_MAX_SIZE
    EmergencySize,  \* BATCH_EMERGENCY_SIZE
    MaxResults      \* bound of the model: results that ever arrive

ASSUME SizeAssumption ==
    /\ MaxSize \in Nat \ {0}
    /\ EmergencySize \in Nat
    /\ MaxSize <= EmergencySize
ASSUME BoundAssumption == MaxResults \in Nat

VARIABLES
    batch,    \* _batch_size, the results in ping_batch_storage
    due,      \* BATCH_FLUSH_INTERVAL has passed since last_flush_time
    job,      \* job[f]: what coroutine f awaits, and the results it has drained
    alerts,   \* alerts delivered within DB_ALERT_COOLDOWN_SECONDS
    running,  \* the processor has not been cancelled
    taken,    \* history: results taken from the queue,
    stored,   \* written to the database,
    dropped,  \* thrown away in an emergency,
    lost      \* and lost at the shutdown

batchVars == <<batch, due, job, alerts, running, taken, stored, dropped, lost>>

Flushers == {"processor", "timer"}
Idle == [pc |-> "idle", size |-> 0]
Jobs == {"idle", "writing", "alerting"}

InFlight == job["processor"].size + job["timer"].size

-----------------------------------------------------------------------------

\* The size at which a check flushes.
IsFull(size) == size >= MaxSize

\* Mutant of Check: the flush interval is not looked at.
CheckFullOnly(f, size) ==
    IF IsFull(size)
    THEN /\ job' = [job EXCEPT ![f] = [pc |-> "writing", size |-> size]]
         /\ batch' = 0
         /\ due' = FALSE
    ELSE /\ batch' = size
         /\ UNCHANGED <<job, due>>

\* _check_and_flush_batch by f when the buffer has grown to size: an empty
\* buffer is left alone, and the flush time with it.
Check(f, size) ==
    IF (due \/ IsFull(size)) /\ size > 0
    THEN /\ job' = [job EXCEPT ![f] = [pc |-> "writing", size |-> size]]
         /\ batch' = 0
         /\ due' = FALSE
    ELSE /\ batch' = size
         /\ UNCHANGED <<job, due>>

\* The processor takes a result off the queue and buffers it.
Receive ==
    /\ running
    /\ job["processor"] = Idle
    /\ taken < MaxResults
    /\ taken' = taken + 1
    /\ Check("processor", batch + 1)
    /\ UNCHANGED <<alerts, running, stored, dropped, lost>>

\* A round of _periodic_batch_flush.
TimerRound ==
    /\ running
    /\ job["timer"] = Idle
    /\ Check("timer", batch)
    /\ UNCHANGED <<alerts, running, taken, stored, dropped, lost>>

FlushIntervalPasses ==
    /\ ~due
    /\ due' = TRUE
    /\ UNCHANGED <<batch, job, alerts, running, taken, stored, dropped, lost>>

-----------------------------------------------------------------------------
(* _write_batch_to_db and _alert_db_failure. *)

WriteSucceeds(f) ==
    /\ running
    /\ job[f].pc = "writing"
    /\ stored' = stored + job[f].size
    /\ job' = [job EXCEPT ![f] = Idle]
    /\ UNCHANGED <<batch, due, alerts, running, taken, dropped, lost>>

\* Mutant of WriteFails: the results are put in place of the buffer.
WriteFailsOver(f) ==
    /\ running
    /\ job[f].pc = "writing"
    /\ batch' = job[f].size
    /\ job' = [job EXCEPT ![f] = Idle]
    /\ UNCHANGED <<due, alerts, running, taken, stored, dropped, lost>>

\* Mutant of WriteFails: no emergency limit.
WriteFailsUnlimited(f) ==
    /\ running
    /\ job[f].pc = "writing"
    /\ batch' = batch + job[f].size
    /\ job' = [job EXCEPT ![f] = Idle]
    /\ UNCHANGED <<due, alerts, running, taken, stored, dropped, lost>>

\* Mutant of WriteFails: the time of the last alert is not looked at.
WriteFailsLoudly(f) ==
    LET total == batch + job[f].size
    IN  /\ running
        /\ job[f].pc = "writing"
        /\ IF total > EmergencySize
           THEN /\ batch' = 0
                /\ dropped' = dropped + total
                /\ due' = FALSE
                /\ job' = [job EXCEPT ![f] = [pc |-> "alerting", size |-> 0]]
           ELSE /\ batch' = total
                /\ job' = [job EXCEPT ![f] = Idle]
                /\ UNCHANGED <<due, dropped>>
        /\ UNCHANGED <<alerts, running, taken, stored, lost>>

\* The transaction is rolled back and the results go back into the buffer.
\* An emergency empties it, and calls for an alert outside its cooldown.
WriteFails(f) ==
    LET total == batch + job[f].size
    IN  /\ running
        /\ job[f].pc = "writing"
        /\ IF total > EmergencySize
           THEN /\ batch' = 0
                /\ dropped' = dropped + total
                /\ due' = FALSE
                /\ job' = [job EXCEPT ![f] =
                              IF alerts = 0 THEN [pc |-> "alerting", size |-> 0] ELSE Idle]
           ELSE /\ batch' = total
                /\ job' = [job EXCEPT ![f] = Idle]
                /\ UNCHANGED <<due, dropped>>
        /\ UNCHANGED <<alerts, running, taken, stored, lost>>

\* The alert reaches an admin or nobody.  The cooldown starts in the former
\* case.
AlertEnds(f, delivered) ==
    /\ running
    /\ job[f].pc = "alerting"
    /\ alerts' = IF delivered THEN alerts + 1 ELSE alerts
    /\ job' = [job EXCEPT ![f] = Idle]
    /\ UNCHANGED <<batch, due, running, taken, stored, dropped, lost>>

AlertCooldownEnds ==
    /\ alerts > 0
    /\ alerts' = 0
    /\ UNCHANGED <<batch, due, job, running, taken, stored, dropped, lost>>

(***************************************************************************)
(* The processor is cancelled, and cancels the timer.  The threads that    *)
(* write go on, with nobody to put their results back; what is buffered is *)
(* flushed a last time.  failed are the writes that fail.                  *)
(***************************************************************************)
Shutdown(failed) ==
    LET size(w) == IF w = "last" THEN batch ELSE job[w].size
        saved(w) == IF w \in failed THEN 0 ELSE size(w)
    IN  /\ running
        /\ running' = FALSE
        /\ batch' = 0
        /\ job' = [f \in Flushers |-> Idle]
        /\ stored' = stored + saved("last") + saved("processor") + saved("timer")
        /\ lost' = InFlight + batch - saved("last") - saved("processor") - saved("timer")
        /\ UNCHANGED <<due, alerts, taken, dropped>>

-----------------------------------------------------------------------------

BatchInit ==
    /\ batch = 0
    /\ due = FALSE
    /\ job = [f \in Flushers |-> Idle]
    /\ alerts = 0
    /\ running = TRUE
    /\ taken = 0
    /\ stored = 0
    /\ dropped = 0
    /\ lost = 0

BatchNext ==
    \/ Receive
    \/ TimerRound
    \/ FlushIntervalPasses
    \/ \E f \in Flushers : WriteSucceeds(f) \/ WriteFails(f)
    \/ \E f \in Flushers, delivered \in BOOLEAN : AlertEnds(f, delivered)
    \/ AlertCooldownEnds
    \/ \E failed \in SUBSET (Flushers \union {"last"}) : Shutdown(failed)

BatchSpec == BatchInit /\ [][BatchNext]_batchVars

(***************************************************************************)
(* The timer goes its rounds, time passes, an alert ends one way or the    *)
(* other, and the database does not refuse every write for ever.           *)
(***************************************************************************)
FairBatchSpec ==
    /\ BatchSpec
    /\ WF_batchVars(TimerRound)
    /\ WF_batchVars(FlushIntervalPasses)
    /\ \A f \in Flushers :
          /\ WF_batchVars(\E delivered \in BOOLEAN : AlertEnds(f, delivered))
          /\ WF_batchVars(WriteSucceeds(f) \/ WriteFails(f))
          /\ SF_batchVars(WriteSucceeds(f))

-----------------------------------------------------------------------------
(* Properties. *)

\* Every variable has its type.
BatchTypeOK ==
    /\ batch \in Nat
    /\ due \in BOOLEAN
    /\ job \in [Flushers -> [pc: Jobs, size: Nat]]
    /\ alerts \in Nat
    /\ running \in BOOLEAN
    /\ taken \in Nat /\ stored \in Nat /\ dropped \in Nat /\ lost \in Nat

(***************************************************************************)
(* No result is lost or written twice: each one taken is in the buffer, in *)
(* the hands of one coroutine, in the database, among those an emergency   *)
(* threw away, or lost to a failed write at the shutdown.                  *)
(***************************************************************************)
ResultsAccountedFor ==
    taken = batch + InFlight + stored + dropped + lost

(***************************************************************************)
(* The emergency size bounds the memory, though not by itself: two writes  *)
(* can be under way, each with as much as a buffer may hold, one of them   *)
(* with the result that made the processor flush.                          *)
(***************************************************************************)
MemoryBounded == batch + InFlight <= 2 * EmergencySize + 1

(***************************************************************************)
(* The alert about failing writes is debounced by its coroutine, not by    *)
(* the task: both may find the debounce open, while the other one's alert  *)
(* is on its way, so that two alerts and no more arrive in one window of   *)
(* DB_ALERT_COOLDOWN_SECONDS, however many emergencies there are.          *)
(***************************************************************************)
AlertsBounded == alerts <= 2

\* No result stays in memory: whatever failed, the buffer comes to be empty
\* and both writers done once results stop arriving.
BufferEmpties == <>[](batch + InFlight = 0)
=============================================================================

------------------------------ MODULE PingAlerts ------------------------------
(***************************************************************************)
(* From pings to outage alerts.  A worker process counts the consecutive   *)
(* failures of its server in shared_state and puts a result on the queue   *)
(* after each ping (src/monitoring/ping_worker.py); one task takes the     *)
(* results and tells the admins of outages and recoveries                  *)
(* (ping_results_processor in src/background_tasks/ping_processor.py).     *)
(* What the admins have been told is remembered per server, advances only  *)
(* when Telegram confirms a delivery, and is dropped by forget_server when *)
(* the synchronization removes the server.                                 *)
(*                                                                         *)
(* The processor awaits twice on its way from a result to its bookkeeping: *)
(* when it flushes the statistics and when it sends the alert.             *)
(***************************************************************************)
EXTENDS Naturals, Sequences, FiniteSets

CONSTANTS
    Keys,       \* composite keys of servers
    Attempts,   \* PING_ATTEMPTS, which is the offline threshold as well
    QueueLimit  \* PING_QUEUE_MAXSIZE

ASSUME AttemptsAssumption == Attempts \in Nat \ {0}
ASSUME QueueAssumption == QueueLimit \in Nat \ {0}

VARIABLES
    up,        \* the servers that answer pings
    known,     \* the servers in the repository, which all have a worker
    leaving,   \* removed from the repository, their turn in the removal loop
               \* of the synchronization still to come
    fails,     \* shared_state: consecutive_failures, counted up to Attempts
    queue,     \* ping_results_queue
    proc,      \* ping_results_processor
    notified,  \* _last_notified_status
    cooling,   \* _last_notification_time: the cooldowns still running
    told       \* history: the last alert about a server that reached an
               \* admin since the server was last removed

vars == <<up, known, leaving, fails, queue, proc, notified, cooling, told>>

Statuses == {"online", "offline", "unknown"}
Results == [key: Keys, status: Statuses]
Directions == {"down", "up"}

\* "flushing": the result is in the batch and the batch may be written;
\* "sending": an alert about it is on its way.
NoResult == [pc |-> "idle"]
ProcStates ==
    {NoResult} \union [pc: {"flushing", "sending"}, key: Keys, status: Statuses]

-----------------------------------------------------------------------------
(* The servers, the clock and the synchronization. *)

Turn(k) ==
    /\ up' = IF k \in up THEN up \ {k} ELSE up \union {k}
    /\ UNCHANGED <<known, leaving, fails, queue, proc, notified, cooling, told>>

\* NOTIFICATION_COOLDOWN_SECONDS have passed since the last alert.
CooldownEnds(k, d) ==
    /\ <<k, d>> \in cooling
    /\ cooling' = cooling \ {<<k, d>>}
    /\ UNCHANGED <<up, known, leaving, fails, queue, proc, notified, told>>

\* The merged inventory is saved without the servers in gone.
Remove(gone) ==
    /\ leaving = {}
    /\ gone # {}
    /\ known' = known \ gone
    /\ leaving' = gone
    /\ UNCHANGED <<up, fails, queue, proc, notified, cooling, told>>

\* The removal loop reaches k: its worker is stopped, which drops the status,
\* and forget_server drops what the processor remembers.
Forget(k) ==
    /\ k \in leaving
    /\ leaving' = leaving \ {k}
    /\ fails' = [fails EXCEPT ![k] = 0]
    /\ notified' = [notified EXCEPT ![k] = "unknown"]
    /\ cooling' = cooling \ ({k} \X Directions)
    /\ told' = [told EXCEPT ![k] = "unknown"]
    /\ UNCHANGED <<up, known, queue, proc>>

\* A later cycle finds the server again and starts a worker for it.
Return(k) ==
    /\ leaving = {}
    /\ k \notin known
    /\ known' = known \union {k}
    /\ UNCHANGED <<up, leaving, fails, queue, proc, notified, cooling, told>>

-----------------------------------------------------------------------------
(* ping_worker_function: one round of the loop. *)

\* perform_ping: one of its attempts is answered.
IsReached(k) == k \in up

Ping(k) ==
    LET count == IF IsReached(k) THEN 0
                 ELSE IF fails[k] < Attempts THEN fails[k] + 1 ELSE Attempts
        status == IF IsReached(k) THEN "online"
                  ELSE IF count = Attempts THEN "offline" ELSE "unknown"
    IN  /\ k \in known \union leaving
        /\ fails' = [fails EXCEPT ![k] = count]
        /\ queue' = IF Len(queue) < QueueLimit
                    THEN Append(queue, [key |-> k, status |-> status]) ELSE queue
        /\ UNCHANGED <<up, known, leaving, proc, notified, cooling, told>>

-----------------------------------------------------------------------------
(* ping_results_processor. *)

Take ==
    /\ proc = NoResult
    /\ queue # <<>>
    /\ proc' = [pc |-> "flushing", key |-> Head(queue).key, status |-> Head(queue).status]
    /\ queue' = Tail(queue)
    /\ UNCHANGED <<up, known, leaving, fails, notified, cooling, told>>

\* Mutant of IsOutage: each result that says so is an outage.
IsOutageAgain(k, status) == status = "offline"

\* The alert that a status calls for, given what the admins were told.
IsOutage(k, status) == status = "offline" /\ notified[k] # "offline"
IsRecovery(k, status) == status = "online" /\ notified[k] = "offline"

Direction(status) == IF status = "offline" THEN "down" ELSE "up"

IsAlert(k, status) ==
    /\ k \in known
    /\ IsOutage(k, status) \/ IsRecovery(k, status)
    /\ <<k, Direction(status)>> \notin cooling

\* Mutant of Decide: an alert the cooldown holds back counts as sent.
DecideSkip ==
    /\ proc.pc = "flushing"
    /\ proc' = IF IsAlert(proc.key, proc.status) THEN [proc EXCEPT !.pc = "sending"]
               ELSE NoResult
    /\ notified' = IF proc.key \in known /\ <<proc.key, Direction(proc.status)>> \in cooling
                   THEN [notified EXCEPT ![proc.key] = proc.status] ELSE notified
    /\ UNCHANGED <<up, known, leaving, fails, queue, cooling, told>>

\* The batch is dealt with; look the server up and decide.
Decide ==
    /\ proc.pc = "flushing"
    /\ proc' = IF IsAlert(proc.key, proc.status) THEN [proc EXCEPT !.pc = "sending"]
               ELSE NoResult
    /\ UNCHANGED <<up, known, leaving, fails, queue, notified, cooling, told>>

\* Mutant of Delivered: the bookkeeping does not wait for the delivery.
DeliveredAnyway(ok) ==
    /\ proc.pc = "sending"
    /\ cooling' = cooling \union {<<proc.key, Direction(proc.status)>>}
    /\ notified' = [notified EXCEPT ![proc.key] = proc.status]
    /\ told' = IF ok THEN [told EXCEPT ![proc.key] = proc.status] ELSE told
    /\ proc' = NoResult
    /\ UNCHANGED <<up, known, leaving, fails, queue>>

\* The alert reaches an admin, or nobody; only the former is recorded.
Delivered(ok) ==
    /\ proc.pc = "sending"
    /\ IF ok THEN /\ cooling' = cooling \union {<<proc.key, Direction(proc.status)>>}
                  /\ notified' = [notified EXCEPT ![proc.key] = proc.status]
                  /\ told' = [told EXCEPT ![proc.key] = proc.status]
       ELSE UNCHANGED <<cooling, notified, told>>
    /\ proc' = NoResult
    /\ UNCHANGED <<up, known, leaving, fails, queue>>

-----------------------------------------------------------------------------

Init ==
    /\ up \in SUBSET Keys
    /\ known \in SUBSET Keys
    /\ leaving = {}
    /\ fails = [k \in Keys |-> 0]
    /\ queue = <<>>
    /\ proc = NoResult
    /\ notified = [k \in Keys |-> "unknown"]
    /\ cooling = {}
    /\ told = [k \in Keys |-> "unknown"]

Next ==
    \/ \E k \in Keys : Turn(k) \/ Forget(k) \/ Return(k) \/ Ping(k)
    \/ \E k \in Keys, d \in Directions : CooldownEnds(k, d)
    \/ \E gone \in SUBSET known : Remove(gone)
    \/ Take
    \/ Decide
    \/ \E ok \in BOOLEAN : Delivered(ok)

Spec == Init /\ [][Next]_vars

(***************************************************************************)
(* The workers ping and the tasks go on, time passes, Telegram does not    *)
(* fail every alert about a server for ever, and a worker finds room in    *)
(* the queue again and again: it waits up to three times five seconds for  *)
(* the one consumer, which takes a result whenever it is idle.             *)
(***************************************************************************)
Fairness ==
    /\ WF_vars(Take) /\ WF_vars(Decide)
    /\ WF_vars(\E ok \in BOOLEAN : Delivered(ok))
    /\ \A k \in Keys :
          /\ SF_vars(proc # NoResult /\ proc.key = k /\ Delivered(TRUE))
          /\ SF_vars(Len(queue) < QueueLimit /\ Ping(k))
          /\ WF_vars(Forget(k))
          /\ \A d \in Directions : WF_vars(CooldownEnds(k, d))

FairSpec == Spec /\ Fairness

-----------------------------------------------------------------------------
(* Properties. *)

\* Every variable has its type; the queue respects its limit.
TypeOK ==
    /\ up \in SUBSET Keys
    /\ known \in SUBSET Keys
    /\ leaving \in SUBSET (Keys \ known)
    /\ fails \in [Keys -> 0..Attempts]
    /\ queue \in Seq(Results) /\ Len(queue) <= QueueLimit
    /\ proc \in ProcStates
    /\ notified \in [Keys -> Statuses]
    /\ cooling \in SUBSET (Keys \X Directions)
    /\ told \in [Keys -> Statuses]

(***************************************************************************)
(* An outage that lasts is told, in the end: whatever flapping, failed     *)
(* sends, full queues, cooldowns, removals and returns came before, the    *)
(* last word the admins have about a server that stays down is that it is  *)
(* down.                                                                   *)
(***************************************************************************)
OutageIsTold ==
    \A k \in Keys : <>[](k \in known \ up) => <>[](told[k] = "offline")

\* And so is a recovery that lasts, if the outage was told.
RecoveryIsTold ==
    \A k \in Keys : <>[](k \in known \intersect up) => <>[](told[k] # "offline")

(***************************************************************************)
(* The admins never hear the same news of a server twice in a row, though  *)
(* the record of what they heard may be reset while an alert is being sent *)
(* and results queue up from before it: the alert that is delivered is not *)
(* the last one told since the server was last removed.                    *)
(***************************************************************************)
NoRepetition ==
    [][\A k \in Keys, ok \in BOOLEAN :
          Delivered(ok) /\ ok /\ proc.key = k => told'[k] # told[k]]_vars
=============================================================================

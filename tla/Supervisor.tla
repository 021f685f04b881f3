------------------------------ MODULE Supervisor ------------------------------
(***************************************************************************)
(* The watchdog of the background tasks: supervisor.py with the heartbeats *)
(* of heartbeat.py, and the part of main.py that shuts both down.          *)
(*                                                                         *)
(* The tasks of the event loop end, hang and go on whenever the supervisor *)
(* awaits an alert or the backoff before a restart.  The model lets them   *)
(* do so between any two turns of a scan, and lets a scan take its tasks   *)
(* in any order.                                                           *)
(***************************************************************************)
EXTENDS Naturals

CONSTANTS
    Tasks,           \* the names of the supervised tasks
    MaxTaskRestarts, \* MAX_TASK_RESTARTS
    NoTask           \* turn: the supervisor awaits nothing on behalf of a task

ASSUME TaskRestartsAssumption == MaxTaskRestarts \in Nat
ASSUME NoTaskAssumption == NoTask \notin Tasks

VARIABLES
    task,            \* task[t]: "alive", "done" (raised or returned), "cancelled"
    pulse,           \* pulse[t]: how old the last heartbeat is
    settled,         \* up for RESTART_COUNT_RESET_SECONDS or longer
    restart_counts, given_up, stalled, stall_alerted,  \* of the supervisor
    at,              \* what the supervisor awaits
    turn,            \* the task it does so for
    rest,            \* the tasks this scan has still to look at
    main,            \* "polling", "stopping", "closed"
    stopped,         \* the tasks stop_background_tasks is through with
    exits,           \* history: exits and failed restarts since t was last
                     \* found settled
    heard,           \* history: tasks of whose exits since then an admin heard
    stallTold        \* history: tasks of whose stall an admin heard, and that
                     \* no scan has seen progressing since

taskVars == <<task, pulse, settled>>
bookVars == <<restart_counts, given_up, stalled, stall_alerted>>
scanVars == <<at, turn, rest>>
mainVars == <<main, stopped>>
history == <<exits, heard, stallTold>>
supervisorVars == <<taskVars, bookVars, scanVars, mainVars, history>>

(***************************************************************************)
(* "late": older than the task's budget.  The age is a clock's, and a scan *)
(* that waits for an alert about one task or for a backoff may hold up the *)
(* next look at another for longer than a budget, so a task may beat and   *)
(* be late again with no look at it in between.                            *)
(***************************************************************************)
Pulses == {"fresh", "late"}

SupervisorInit ==
    /\ task = [t \in Tasks |-> "alive"]
    /\ pulse = [t \in Tasks |-> "fresh"]
    /\ settled = {}
    /\ restart_counts = [t \in Tasks |-> 0]
    /\ given_up = {} /\ stalled = {} /\ stall_alerted = {}
    /\ at = "waiting" /\ turn = NoTask /\ rest = {}
    /\ main = "polling" /\ stopped = {}
    /\ exits = [t \in Tasks |-> 0] /\ heard = {} /\ stallTold = {}

-----------------------------------------------------------------------------
(* The tasks. *)

\* A task that should run for ever raises or returns.
Exit(t) ==
    /\ task[t] = "alive"
    /\ task' = [task EXCEPT ![t] = "done"]
    /\ settled' = settled \ {t}
    /\ exits' = [exits EXCEPT ![t] = @ + 1]
    /\ UNCHANGED <<pulse, bookVars, scanVars, mainVars, heard, stallTold>>

\* The heartbeat at the top of a task's loop.
Beat(t) ==
    /\ task[t] = "alive" /\ pulse[t] = "late"
    /\ pulse' = [pulse EXCEPT ![t] = "fresh"]
    /\ UNCHANGED <<task, settled, bookVars, scanVars, mainVars, history>>

\* A task that has not beaten for its staleness budget.
Linger(t) ==
    /\ task[t] = "alive" /\ pulse[t] = "fresh"
    /\ pulse' = [pulse EXCEPT ![t] = "late"]
    /\ UNCHANGED <<task, settled, bookVars, scanVars, mainVars, history>>

\* The time of a scan is that of its start, so uptime grows between scans.
Settle(t) ==
    /\ task[t] = "alive" /\ t \notin settled
    /\ restart_counts[t] > 0   \* otherwise there is nothing to reset
    /\ at = "waiting"
    /\ settled' = settled \union {t}
    /\ UNCHANGED <<task, pulse, bookVars, scanVars, mainVars, history>>

-----------------------------------------------------------------------------
(* A scan. *)

\* Mutant of StartScan: a scan passes over the tasks known to be stalled.
StartScanUnstalled ==
    /\ at = "waiting"
    /\ at' = "scanning"
    /\ rest' = Tasks \ (given_up \union stalled)
    /\ UNCHANGED <<taskVars, bookVars, turn, mainVars, history>>

StartScan ==
    /\ at = "waiting"
    /\ at' = "scanning"
    /\ rest' = Tasks \ given_up
    /\ UNCHANGED <<taskVars, bookVars, turn, mainVars, history>>

EndScan ==
    /\ at = "scanning"
    /\ \A t \in rest : task[t] = "cancelled"
    /\ at' = "waiting"
    /\ rest' = {}
    /\ UNCHANGED <<taskVars, bookVars, turn, mainVars, history>>

Await(what, t) ==
    /\ at' = what
    /\ turn' = t
    /\ UNCHANGED rest

\* The scan is through with t and goes on.
Pass(t) ==
    /\ at' = "scanning"
    /\ turn' = NoTask
    /\ rest' = rest \ {t}

\* Mutant of CountAfter: the budget is never renewed.
CountAfterLifetime(t) == restart_counts[t]

\* The restart budget of an alive task after a look at it.
CountAfter(t) == IF t \in settled THEN 0 ELSE restart_counts[t]

LookAtAlive(t) ==
    /\ at = "scanning" /\ t \in rest
    /\ task[t] = "alive"
    /\ restart_counts' = [restart_counts EXCEPT ![t] = CountAfter(t)]
    /\ exits' = IF t \in settled THEN [exits EXCEPT ![t] = 0] ELSE exits
    /\ heard' = IF t \in settled THEN heard \ {t} ELSE heard
    /\ \/ /\ pulse[t] = "late"
          /\ stalled' = stalled \union {t}
          /\ IF t \in stall_alerted THEN Pass(t) ELSE Await("stall alert", t)
          /\ UNCHANGED <<stall_alerted, stallTold>>
       \/ /\ pulse[t] = "fresh"
          /\ stallTold' = stallTold \ {t}
          /\ stalled' = stalled \ {t}
          /\ stall_alerted' = IF t \in stalled THEN stall_alerted \ {t} ELSE stall_alerted
          /\ Pass(t)
    /\ UNCHANGED <<taskVars, given_up, mainVars>>

\* Mutant of StallAlertEnds: the stall counts as told whether or not the alert arrived.
StallAlertEndsAnyway(t, delivered) ==
    /\ at = "stall alert" /\ turn = t
    /\ stall_alerted' = stall_alerted \union {t}
    /\ stallTold' = IF delivered THEN stallTold \union {t} ELSE stallTold
    /\ Pass(t)
    /\ UNCHANGED <<taskVars, restart_counts, given_up, stalled, mainVars, exits, heard>>

\* Until it is delivered, every scan alerts about a stall again.
StallAlertEnds(t, delivered) ==
    /\ at = "stall alert" /\ turn = t
    /\ stall_alerted' = IF delivered THEN stall_alerted \union {t} ELSE stall_alerted
    /\ stallTold' = IF delivered THEN stallTold \union {t} ELSE stallTold
    /\ Pass(t)
    /\ UNCHANGED <<taskVars, restart_counts, given_up, stalled, mainVars, exits, heard>>

IsExhausted(t) == restart_counts[t] >= MaxTaskRestarts

LookAtDone(t) ==
    /\ at = "scanning" /\ t \in rest
    /\ task[t] = "done"
    /\ IF IsExhausted(t)
       THEN /\ given_up' = given_up \union {t}
            /\ UNCHANGED restart_counts
       ELSE /\ restart_counts' = [restart_counts EXCEPT ![t] = @ + 1]
            /\ UNCHANGED given_up
    /\ Await("exit alert", t)
    /\ UNCHANGED <<taskVars, stalled, stall_alerted, mainVars, history>>

\* _alert_task_event swallows a failure to deliver.
ExitAlertEnds(t, delivered) ==
    /\ at = "exit alert" /\ turn = t
    /\ heard' = IF delivered THEN heard \union {t} ELSE heard
    /\ IF t \in given_up THEN Pass(t) ELSE Await("backoff", t)
    /\ UNCHANGED <<taskVars, bookVars, mainVars, exits, stallTold>>

\* The factory's coroutine in a fresh task, with its heartbeat seeded.
Recreate(t) ==
    /\ at = "backoff" /\ turn = t
    /\ task' = [task EXCEPT ![t] = "alive"]
    /\ pulse' = [pulse EXCEPT ![t] = "fresh"]
    /\ stalled' = stalled \ {t}
    /\ stall_alerted' = stall_alerted \ {t}
    /\ stallTold' = stallTold \ {t}
    /\ Pass(t)
    /\ UNCHANGED <<settled, restart_counts, given_up, mainVars, exits, heard>>

\* The task remains done, and the next scan takes that for another exit.
FailToRecreate(t) ==
    /\ at = "backoff" /\ turn = t
    /\ Pass(t)
    /\ exits' = [exits EXCEPT ![t] = @ + 1]
    /\ UNCHANGED <<taskVars, bookVars, mainVars, heard, stallTold>>

-----------------------------------------------------------------------------
(* main(): polling has ended. *)

\* Mutant of CancelSupervisor: the supervisor goes on while the tasks are stopped.
CancelSupervisorLater == UNCHANGED scanVars

\* What becomes of the supervisor, which is cancelled at the await it is at,
\* before any of the tasks is.
CancelSupervisor ==
    /\ at' = "ended"
    /\ turn' = NoTask
    /\ rest' = {}

StopSupervisor ==
    /\ main = "polling"
    /\ main' = "stopping"
    /\ CancelSupervisor
    /\ UNCHANGED <<taskVars, bookVars, stopped, history>>

\* stop_background_tasks cancels a task and awaits its end; one that is done
\* already is passed over.
StopTask(t) ==
    /\ main = "stopping" /\ t \notin stopped
    /\ task' = [task EXCEPT ![t] = IF @ = "alive" THEN "cancelled" ELSE @]
    /\ settled' = settled \ {t}
    /\ stopped' = stopped \union {t}
    /\ UNCHANGED <<pulse, bookVars, scanVars, main, history>>

Close ==
    /\ main = "stopping" /\ stopped = Tasks
    /\ main' = "closed"
    /\ UNCHANGED <<taskVars, bookVars, scanVars, stopped, history>>

-----------------------------------------------------------------------------
Scan ==
    \/ StartScan
    \/ EndScan
    \/ \E t \in Tasks : LookAtAlive(t) \/ LookAtDone(t) \/ Recreate(t) \/ FailToRecreate(t)
    \/ \E t \in Tasks, delivered \in BOOLEAN :
          StallAlertEnds(t, delivered) \/ ExitAlertEnds(t, delivered)

SupervisorNext ==
    \/ Scan
    \/ \E t \in Tasks : Exit(t) \/ Beat(t) \/ Linger(t) \/ Settle(t) \/ StopTask(t)
    \/ StopSupervisor
    \/ Close

SupervisorSpec == SupervisorInit /\ [][SupervisorNext]_supervisorVars

\* The supervisor goes on, and alerts about a task get through now and then.
FairSupervisorSpec ==
    /\ SupervisorSpec
    /\ WF_supervisorVars(Scan)
    /\ \A t \in Tasks :
          /\ SF_supervisorVars(StallAlertEnds(t, TRUE))
          /\ SF_supervisorVars(ExitAlertEnds(t, TRUE))

-----------------------------------------------------------------------------
(* Properties. *)

\* Every variable has its type.
SupervisorTypeOK ==
    /\ task \in [Tasks -> {"alive", "done", "cancelled"}]
    /\ pulse \in [Tasks -> Pulses]
    /\ settled \in SUBSET Tasks
    /\ restart_counts \in [Tasks -> 0..MaxTaskRestarts]
    /\ given_up \in SUBSET Tasks
    /\ stalled \in SUBSET Tasks
    /\ stall_alerted \in SUBSET Tasks
    /\ at \in {"waiting", "scanning", "stall alert", "exit alert", "backoff", "ended"}
    /\ turn \in Tasks \union {NoTask}
    /\ rest \in SUBSET Tasks
    /\ main \in {"polling", "stopping", "closed"}
    /\ stopped \in SUBSET Tasks
    /\ exits \in [Tasks -> 0..(MaxTaskRestarts + 1)]
    /\ heard \in SUBSET Tasks
    /\ stallTold \in SUBSET Tasks

(***************************************************************************)
(* MAX_TASK_RESTARTS counts consecutive failures: a task is abandoned only *)
(* after it failed one time more than that, and no scan in between found   *)
(* it settled.                                                             *)
(***************************************************************************)
OnlyStreaksAbandoned == \A t \in given_up : exits[t] > MaxTaskRestarts

(***************************************************************************)
(* Whatever the supervisor was about when the shutdown came, the restart   *)
(* of a task included, the container is taken down with no task alive that *)
(* would use it.                                                           *)
(***************************************************************************)
ShutdownIsClean == main = "closed" => \A t \in Tasks : task[t] # "alive"

(***************************************************************************)
(* "A stalled task is not auto-restarted, so the alert is the only signal  *)
(* and must not be lost" (_alert_task_stalled): of a stall that lasts, an  *)
(* admin hears, also when the task was told of before, as long as a scan   *)
(* has found it progressing, or restarted it, since.  A beat that no scan  *)
(* saw does not part two stalls for the code: the second one is silent.    *)
(***************************************************************************)
IsStalled(t) == main = "polling" /\ task[t] = "alive" /\ pulse[t] = "late"
StallIsTold ==
    \A t \in Tasks : IsStalled(t) ~> (t \in stallTold \/ ~IsStalled(t))

\* A task that ended runs again or is given up, whatever becomes of the
\* others while the supervisor waits for them.
IsDown(t) == main = "polling" /\ task[t] = "done" /\ t \notin given_up
ExitIsHandled == \A t \in Tasks : IsDown(t) ~> ~IsDown(t)
=============================================================================

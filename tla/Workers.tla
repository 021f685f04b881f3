------------------------------- MODULE Workers -------------------------------
(***************************************************************************)
(* The pool of monitoring processes: src/monitoring/ping_manager.py, one   *)
(* worker process per monitorable server (ping_worker.py), and the two     *)
(* tasks of the event loop that change the pool: servers_sync_task, which  *)
(* writes the repository and then brings the workers in line server by     *)
(* server, and workers_health_task, which restarts crashed workers and     *)
(* starts missing ones.                                                    *)
(*                                                                         *)
(* The pool's methods never await, so a call of theirs is one step of the  *)
(* event loop; the tasks interleave at the awaits: every notification the  *)
(* synchronization sends between two servers lets a health cycle in.  The  *)
(* worker processes run all the time, whoever holds the event loop.        *)
(***************************************************************************)
EXTENDS Naturals, FiniteSets

CONSTANTS
    Keys,           \* composite keys of servers
    Addresses,      \* public IP addresses
    MaxRestarts,    \* MAX_RESTART_ATTEMPTS
    StartsMayFail,  \* Process.start() may raise (no memory, no descriptors)
    NoServer,       \* repo[k]: the server is not in the repository
    NoAddress,      \* repo[k]: known, disabled for want of a public address
    NoWorker        \* workers[k]: no entry in the registry

ASSUME RestartsAssumption == MaxRestarts \in Nat \ {0}
ASSUME FailAssumption == StartsMayFail \in BOOLEAN
ASSUME DistinctAssumption ==
    /\ NoServer \notin Addresses
    /\ NoAddress \notin Addresses
    /\ NoServer # NoAddress
    /\ \A w \in [ip: Addresses, alive: BOOLEAN, restarts: 0..MaxRestarts,
                 age: {"fresh", "cooled", "settled"}] : w # NoWorker

VARIABLES
    repo,       \* the repository; a server is enabled iff it has an address
    workers,    \* PingManager.workers, the registry
    abandoned,  \* PingManager._abandoned, with the backoff waiting or due
    shared,     \* the keys of shared_state, each holding a server's status
    sync        \* servers_sync_task: where it is and what it has left to do

vars == <<repo, workers, abandoned, shared, sync>>

(***************************************************************************)
(* restarts and age are restart_count and the time since last_restart:     *)
(* less than RESTART_COOLDOWN, less than RESTART_COUNT_RESET_SECONDS, or   *)
(* more.  The time matters only after a restart; until then it is "fresh". *)
(***************************************************************************)
Ages == {"fresh", "cooled", "settled"}
WorkerInfos == [ip: Addresses, alive: BOOLEAN, restarts: 0..MaxRestarts, age: Ages]

\* "running": the task holds the event loop; "awaiting": it waits for a
\* notification to be sent; "idle": it has nothing left to do.
SyncStates ==
    [pc: {"idle", "running", "awaiting"},
     added: SUBSET Keys, removed: SUBSET Keys, changed: SUBSET Keys]

IdleSync == [pc |-> "idle", added |-> {}, removed |-> {}, changed |-> {}]

Monitorable(k) == repo[k] \in Addresses
IsRegistered(k) == workers[k] # NoWorker
IsAlive(k) == IsRegistered(k) /\ workers[k].alive
Pending == sync.added \union sync.removed \union sync.changed

-----------------------------------------------------------------------------
(* start_worker and stop_worker. *)

\* The sets of keys whose start can succeed in one step.
Successes == IF StartsMayFail THEN SUBSET Keys ELSE {Keys}

NewWorker(k, count) ==
    [ip |-> repo[k], alive |-> TRUE, restarts |-> count, age |-> "fresh"]

\* The registry entry after start_worker(k) on an unregistered key: it raises
\* if the server is gone or disabled.
Started(k, count, ok) ==
    IF Monitorable(k) /\ k \in ok THEN NewWorker(k, count) ELSE NoWorker

\* stop_worker(k).  Without a worker only the abandonment mark is dropped.
StopWorker(k) ==
    /\ workers' = [workers EXCEPT ![k] = NoWorker]
    /\ shared' = IF IsRegistered(k) THEN shared \ {k} ELSE shared
    /\ abandoned' = [abandoned EXCEPT ![k] = "no"]

-----------------------------------------------------------------------------
(* servers_sync_task, from the save of the merged inventory on. *)

\* sync_with_api_servers saves the merge and reports what it did; the task
\* goes on without an await.
SyncMerge ==
    /\ sync.pc = "idle"
    /\ repo' \in [Keys -> Addresses \union {NoServer, NoAddress}]
    /\ sync' = [pc |-> "running",
                added |-> {k \in Keys : repo[k] = NoServer /\ repo'[k] # NoServer},
                removed |-> {k \in Keys : repo[k] # NoServer /\ repo'[k] = NoServer},
                changed |-> {k \in Keys : /\ repo[k] # repo'[k]
                                          /\ NoServer \notin {repo[k], repo'[k]}}]
    /\ UNCHANGED <<workers, abandoned, shared>>

\* An added server is monitored and announced if it can be monitored.
SyncAdd(k) ==
    /\ sync.pc = "running"
    /\ k \in sync.added
    /\ \E ok \in Successes :
          workers' = [workers EXCEPT ![k] = IF IsRegistered(k) THEN @ ELSE Started(k, 0, ok)]
    /\ sync' = [sync EXCEPT !.added = @ \ {k},
                            !.pc = IF Monitorable(k) THEN "awaiting" ELSE "running"]
    /\ UNCHANGED <<repo, abandoned, shared>>

\* A removed server's worker is stopped, and the removal announced.
SyncRemove(k) ==
    /\ sync.pc = "running"
    /\ sync.added = {}
    /\ k \in sync.removed
    /\ StopWorker(k)
    /\ sync' = [sync EXCEPT !.removed = @ \ {k}, !.pc = "awaiting"]
    /\ UNCHANGED repo

\* Mutant of SyncChange: a worker that has crashed is left to the health task.
SyncChangeLive(k) ==
    /\ sync.pc = "running"
    /\ sync.added = {} /\ sync.removed = {}
    /\ k \in sync.changed
    /\ IF ~Monitorable(k) THEN StopWorker(k)
       ELSE IF IsAlive(k) THEN
            /\ \E ok \in Successes : workers' = [workers EXCEPT ![k] = Started(k, 0, ok)]
            /\ shared' = shared \ {k}
            /\ abandoned' = [abandoned EXCEPT ![k] = "no"]
       ELSE UNCHANGED <<workers, abandoned, shared>>
    /\ sync' = [sync EXCEPT !.changed = @ \ {k}]
    /\ UNCHANGED repo

\* A server with a new address: restart_worker, which stops the worker only
\* if there is one; without a public address its worker is stopped.
SyncChange(k) ==
    /\ sync.pc = "running"
    /\ sync.added = {} /\ sync.removed = {}
    /\ k \in sync.changed
    /\ IF Monitorable(k)
       THEN /\ \E ok \in Successes : workers' = [workers EXCEPT ![k] = Started(k, 0, ok)]
            /\ shared' = IF IsRegistered(k) THEN shared \ {k} ELSE shared
            /\ abandoned' = IF IsRegistered(k) THEN [abandoned EXCEPT ![k] = "no"]
                            ELSE abandoned
       ELSE StopWorker(k)
    /\ sync' = [sync EXCEPT !.changed = @ \ {k}]
    /\ UNCHANGED repo

\* The notification is sent (or not) and the task gets the event loop back.
SyncResume ==
    /\ sync.pc = "awaiting"
    /\ sync' = [sync EXCEPT !.pc = "running"]
    /\ UNCHANGED <<repo, workers, abandoned, shared>>

\* The rest of the cycle, and the sleep until the next, leave the pool alone.
SyncDone ==
    /\ sync.pc = "running"
    /\ Pending = {}
    /\ sync' = IdleSync
    /\ UNCHANGED <<repo, workers, abandoned, shared>>

SyncStep ==
    \/ \E k \in Keys : SyncAdd(k) \/ SyncRemove(k) \/ SyncChange(k)
    \/ SyncResume
    \/ SyncDone

-----------------------------------------------------------------------------
(* workers_health_task: monitor_workers, then reconcile_monitoring. *)

\* A crashed worker without restarts left.
IsHopeless(k) ==
    IsRegistered(k) /\ ~workers[k].alive /\ workers[k].restarts >= MaxRestarts

IsCoolingDown(k) == workers[k].restarts > 0 /\ workers[k].age = "fresh"

\* The registry entry of k after monitor_workers.
Monitored(k, ok) ==
    IF ~IsRegistered(k) \/ IsHopeless(k) THEN NoWorker
    ELSE IF workers[k].alive
    THEN IF workers[k].restarts > 0 /\ workers[k].age = "settled"
         THEN [workers[k] EXCEPT !.restarts = 0, !.age = "fresh"] ELSE workers[k]
    ELSE IF IsCoolingDown(k) THEN workers[k]
    ELSE Started(k, workers[k].restarts + 1, ok)

\* Mutant of IsWanted: a mark is honoured without a look at its age.
IsWantedUnmarked(k, entry, mark) ==
    /\ Monitorable(k)
    /\ entry = NoWorker
    /\ mark = "no"

\* reconcile_monitoring starts k, which has the given entry and mark by then.
IsWanted(k, entry, mark) ==
    /\ Monitorable(k)
    /\ entry = NoWorker
    /\ mark # "waiting"

\* restarted and added are the keys whose start by either method succeeds.
HealthCycle(restarted, added) ==
    LET entry(k) == Monitored(k, restarted)
        mark(k) == IF IsHopeless(k) THEN "waiting" ELSE abandoned[k]
    IN  /\ sync.pc # "running"
        /\ workers' = [k \in Keys |-> IF IsWanted(k, entry(k), mark(k))
                                      THEN Started(k, 0, added) ELSE entry(k)]
        /\ abandoned' = [k \in Keys |-> IF Monitorable(k) /\ workers'[k] = NoWorker
                                        THEN mark(k) ELSE "no"]
        /\ shared' = {k \in shared : ~IsHopeless(k)}
        /\ UNCHANGED <<repo, sync>>

-----------------------------------------------------------------------------
(* The worker processes and the clock. *)

\* A worker writes its server's status, at its start and after each ping.
Publish(k) ==
    /\ IsAlive(k)
    /\ shared' = shared \union {k}
    /\ UNCHANGED <<repo, workers, abandoned, sync>>

Crash(k) ==
    /\ IsAlive(k)
    /\ workers' = [workers EXCEPT ![k].alive = FALSE]
    /\ UNCHANGED <<repo, abandoned, shared, sync>>

\* The time since a worker's last restart passes the next limit.
Age(k) ==
    /\ IsRegistered(k)
    /\ workers[k].restarts > 0
    /\ workers[k].age # "settled"
    /\ workers' = [workers EXCEPT ![k].age = IF @ = "fresh" THEN "cooled" ELSE "settled"]
    /\ UNCHANGED <<repo, abandoned, shared, sync>>

\* ABANDON_RETRY_BACKOFF_SECONDS have passed since k was given up.
BackoffEnds(k) ==
    /\ abandoned[k] = "waiting"
    /\ abandoned' = [abandoned EXCEPT ![k] = "due"]
    /\ UNCHANGED <<repo, workers, shared, sync>>

-----------------------------------------------------------------------------

\* main() has loaded the inventory and called start_all_workers.
Init ==
    /\ repo \in [Keys -> Addresses \union {NoServer, NoAddress}]
    /\ \E ok \in Successes : workers = [k \in Keys |-> Started(k, 0, ok)]
    /\ abandoned = [k \in Keys |-> "no"]
    /\ shared = {}
    /\ sync = IdleSync

Next ==
    \/ SyncMerge
    \/ SyncStep
    \/ \E restarted, added \in Successes : HealthCycle(restarted, added)
    \/ \E k \in Keys : Publish(k) \/ Crash(k) \/ Age(k) \/ BackoffEnds(k)

Spec == Init /\ [][Next]_vars

(***************************************************************************)
(* The tasks go on for ever, time passes, and starting a process does not  *)
(* fail for ever.  The health cycle has strong fairness because the        *)
(* synchronization holds the event loop now and then.                      *)
(***************************************************************************)
FairSpec ==
    /\ Spec
    /\ WF_vars(SyncStep)
    /\ SF_vars(HealthCycle(Keys, Keys))
    /\ \A k \in Keys : WF_vars(Age(k)) /\ WF_vars(BackoffEnds(k))

-----------------------------------------------------------------------------
(* Properties. *)

\* Every variable has its type.
TypeOK ==
    /\ repo \in [Keys -> Addresses \union {NoServer, NoAddress}]
    /\ workers \in [Keys -> WorkerInfos \union {NoWorker}]
    /\ abandoned \in [Keys -> {"no", "waiting", "due"}]
    /\ shared \in SUBSET Keys
    /\ sync \in SyncStates

(***************************************************************************)
(* Between the save of a new inventory and the end of the notifications a  *)
(* worker may be out of date, but only while the synchronization has its   *)
(* server still to do: any other registered worker pings the address its   *)
(* server has in the repository, whatever crashes and health cycles        *)
(* happened in between.                                                    *)
(***************************************************************************)
WorkersFollowInventory ==
    \A k \in Keys : IsRegistered(k) /\ k \notin Pending => workers[k].ip = repo[k]

\* A monitorable server never drops out of monitoring for good (the words of
\* workers_health_task): while it stays monitorable, a worker comes alive.
NeverDropsOut ==
    \A k \in Keys : Monitorable(k) ~> (IsAlive(k) \/ ~Monitorable(k))
=============================================================================

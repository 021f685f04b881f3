# Verification of cloud-control-bot

TLA+ models of cloud-control-bot, the configurations that check them with TLC and
theorems about them that TLAPS checks.  The program is a Telegram bot that keeps an
inventory of cloud servers of several provider accounts, pings each of them from a
process of its own, and tells its admins what happens to them.  What makes it hard
is that nobody it talks to is reliable: providers fail or answer with empty or
truncated lists, Telegram loses messages, the database refuses writes, workers
crash, and the tasks of the event loop interleave at every `await`.

Paths below are relative to `src/src/` unless they start with `src/`.

## The system

| Component | State | Operations | Hard behaviour | Correct when |
|---|---|---|---|---|
| Inventory synchronization, `background_tasks/servers_sync.py` | guard evidence per account and outage incidents (locals of the task), alert cooldown and owed recovery notices (module dictionaries) | one cycle: fetch, guards A1 and A2, merge and save, workers, notifications, purge | answers that lie, lost alerts, failing save, restarts of the task or the process | servers are removed only on repeated evidence, real deletions are not held back for ever, an announced incident is closed |
| Server repository, `storage/servers.py` | JSON file, cache | `sync_with_api_servers`, `bulk_update_from_api`, `get_enabled` | failing write | its floor keeps the fleet of an account that answered with nothing |
| Worker pool, `monitoring/ping_manager.py` | registry of processes with restart counts, abandonment marks, `shared_state` of a multiprocessing Manager, results queue | start, stop, restart, monitor, reconcile, shutdown | workers crash any time, starts fail, a dead worker may hold the lock | every monitorable server is pinged at its own address, or will be |
| Worker process, `monitoring/ping_worker.py` | failure count in `shared_state` | ping, update, put on the queue | the queue is full, the process dies between steps | status follows from consecutive failures |
| Results processor, `background_tasks/ping_processor.py` | statistics buffer, last notified status, cooldowns | take, buffer, flush, decide, send, record; `forget_server` | awaits between decision and bookkeeping, two flushers | outages and recoveries are told, no result is lost |
| Workers health, `background_tasks/workers_health.py` | alert episodes per subsystem | `monitor_workers`, `reconcile_monitoring`, alerts | runs inside the awaits of the synchronization | "an enabled server never silently drops out of monitoring permanently" |
| Supervisor, `background_tasks/supervisor.py`, `heartbeat.py` | restart counts, stalls, last beats | scan, restart, give up, alert | cancelled tasks, stalls, lost alerts | no task is dead with nobody told |
| Service checks, `background_tasks/service_checks.py` | deadlines, notified status, cooldowns per check | cycle, `mark_check_dirty`, `forget_server_checks` | edits and removals during probes and sends | stale results are not stored or told |
| Check store, `storage/service_checks_store.py` | list of checks and its file | add, update, delete, load | failing writes | memory and file agree |
| Statistics, `storage/sqlite_statistics.py` | ping rows, tombstones | batch writes, mark, unmark, purge | crash between the inventory's save and the tombstone | history of a server that is back is kept |
| Balance checks, `background_tasks/balance_checker.py`, `storage/balance.py` | cooldowns, history | check, alert, reset | reset during a send | a low balance is told once per window |
| Providers, `providers/*`, `config/provider_discovery.py` | HTTP clients | fetch with retries, aggregation of AWS regions, power operations | partial failure | a partial answer is not taken for a whole one |
| Bot, `bot/*` | cooldowns of power operations, screens, languages | handlers | two admins at once | one power operation at a time per server |
| Startup and shutdown, `src/main.py`, `container.py` | tasks, container | start, stop | order | inventory and workers agree at the start |

How they meet: the providers' lists reach the synchronization through
`gather_server_lists`; the synchronization writes the repository, and only then
starts, stops and restarts workers one server after the other, with a
notification to await after each; the health task reads the repository and works
on the same registry; workers share `shared_state` and the queue with the main
process; the processor empties the queue, reads the repository and writes the
statistics; `forget_server` and `forget_server_checks` are called by the
synchronization on the state of the other two tasks; the supervisor recreates
tasks, which keeps module-level state and drops locals.

The event loop makes everything between two awaits atomic, so the models take the
awaits as the boundaries of their actions.  `PROJECT.json` lists, under `hazards`,
what is hard to test here, each with its line and the property that covers it.

## The modules

| Module | What it is |
|---|---|
| `RemovalPolicy` | abstract specification: an inventory that loses servers only on evidence |
| `ServersSync`, `MCServersSync`, `ServersSyncProofs` | the synchronization and the repository's merge, which implements it; the instance adds an environment that calms down |
| `Workers`, `MCWorkers` | the worker pool under the synchronization and the health task |
| `PingAlerts`, `MCPingAlerts` | from a ping to an alert and its bookkeeping |
| `PingBatch`, `MCPingBatch` | the statistics buffer with its two flushers |
| `PingProcessorProofs` | proofs about both halves of the processor, `PingAlerts` and `PingBatch` |
| `Statistics`, `MCStatistics`, `StatisticsProofs` | the database: hourly sums, errors, prunes, tombstones and the purge, under the synchronization and crashes |
| `Supervisor`, `MCSupervisor` | the watchdog of the background tasks, up to the shutdown |
| `RestartsProofs` | proofs about those who restart what died, `Supervisor` and `Workers` |
| `ServiceChecks`, `MCServiceChecks`, `ServiceChecksProofs` | the check cycle with those who change its state meanwhile |
| `DurableStore` | abstract specification: a current configuration and a durable one |
| `CheckStore` | the store of the checks with its threads and its file, which implements it |
| `ChecksRouter`, `MCChecksRouter`, `ChecksRouterProofs` | the wizard that adds checks, composed with the store |
| `Balance`, `MCBalance` | the low-balance alerts, the settings they read and the screens that change them |
| `PowerOps`, `MCPowerOps` | power operations, their cooldown and the providers' retries |
| `BotProofs` | proofs about what the bot's handlers share with others, `Balance` and `PowerOps` |
| `AwsServers`, `MCAwsServers`, `AwsServersProofs` | how the AWS client makes one list of many fetches |

A module of proofs may EXTEND two components, which share no names: that is why the
specifications of some begin with the component's name (`PowerInit`, `BatchNext`,
`SupervisorSpec`).

### ServersSync and RemovalPolicy

`local[a]` is the part of the repository with alias `a`; `guard[a]` is
`_AliasGuardState` (`empty_cycles`, `pending`, `mass_alerted`); `failures`, `incident`
are the dictionaries of the task; `quiet` and `owed` are the module-level dictionaries.
Times are counted in sync intervals.  An answer is a failure of one of two kinds or a
set of ids; `Cycle(answer, sent, saved)` is an iteration of the loop, in which `sent`
are the alerts Telegram delivered and `saved` says whether the repository's write
succeeded.  The operators `IsBlank`, `IsConfirmedEmpty`, `IsDeferred`, `Merged` follow
guards A1 and A2 and `sync_with_api_servers`.  A cycle is one step because no other
task writes this state while the bot runs.  `TaskRestart` drops the locals,
`ProcessRestart` also the module state, and merges the startup's answers without
removing anything.

`claim` and `announced` are history variables: the first records what the answers said
since the last restart (which servers were left out, how often in a row), the second what
the admins know.  A restart drops the guards' evidence and so the claims: what was said
before it supports no removal after it.
`RemovalPolicy` is stated over `local` and `claim` only, with no guard state: an
account's servers may vanish at once if they are few, after two identical claims if
they are a large share, after `ConfirmCycles` empty answers if they are all of them.

### Workers

`workers` is the registry (address, alive, restart count, age of the last restart in
the three bands that the code tells apart), `abandoned` the marks with their backoff
waiting or due, `shared` the keys of `shared_state`.  `sync` says which servers the
current sync cycle has still to add, remove or restart, and whether the task runs or
awaits.  A server is enabled exactly when it has a public address, which is how the
AWS parser sets the flag (`providers/aws.py:491-528, 545-589`; the other providers
leave it on).  `HealthCycle` is a whole cycle of `workers_health_task`, whose
`monitor_workers` and `reconcile_monitoring` have no await between them
(`workers_health.py:198-202`); it can happen wherever the synchronization awaits.

### PingAlerts

`up`, the servers that answer pings, changes at will.  `Ping` is a round of the worker:
count, status, and a put on a queue that may be full (the result is then dropped).
`Take`, `Decide`, `Delivered` are the processor between its awaits.  `Remove`, `Forget`
and `Return` are the synchronization: saved first, forgotten in the removal loop.
`notified` and `cooling` are the processor's dictionaries; `told` is a history variable
with what the admins last heard.

### PingBatch

`job[f]` is what the processor and the timer each await, with the results they hold.
The asyncio lock is never held across an await, so append-and-check is one step.
`due` abstracts the clock against `BATCH_FLUSH_INTERVAL`.  `taken`, `stored`, `dropped`
and `lost` are history counters.

### Supervisor

`at`, `turn` and `rest` are where a scan stands: what it awaits (an alert, the backoff
before a restart), for which task, and whom it has still to look at.  Tasks exit, hang
and beat between any two turns.  `pulse` is the age of a heartbeat, within its budget
(`"fresh"`) or beyond it (`"late"`), and changes at any time: scans are fifteen seconds
apart and budgets two minutes or more, but a scan that awaits alerts with Telegram's
flood control or a backoff can take longer than a budget, so a beat between two looks
may go unseen.  A task is `settled` when it is up for `RESTART_COUNT_RESET_SECONDS`; this
changes between scans only, because a scan reckons with the time of its start.  The
order in which a scan takes its tasks is free, which includes the order of the code.
`StopSupervisor`, `StopTask` and `Close` are the end of `main()`.  `exits`, `heard` and
`stallTold` are history variables; the last one holds the tasks whose stall was told and
that no look has found progressing, and no restart replaced, since.

### ServiceChecks

`pc` says what the cycle awaits: its sleep, its probes (`probing` are those under way),
the write in its thread, or an alert (`downs`, `ups`, `certs` are those still to be
sent, in this order).  `next_run` is the deadline of a check by class, `failing` the
checks last announced as failed, `cooling` and `sslCooling` the two kinds of cooldown.
`target` is what is to be found where a check looks, and `Outcomes` what a probe may
make of it: an unsafe address is not probed at all, and a chain that does not verify
may pass, since the verifying handshake says nothing when its connection fails.
`AbortCycle` is a cycle that raises after its deadlines were advanced, which includes
the restart of the task after five of them.  A handler of the router is two steps, the
store's change in a thread and the mark that follows it (`handler`).  The
synchronization removes a server, forgets its checks later, and may bring it back, at
the same or another address; `moved` are the servers whose address is not the one the
probes began with.  `edited`, `believed`, `certTold` and `misread` are history variables.
After an edit or a removal the admins are owed a new alert, so those clear what they
believe.  `certTold` does not follow the code's own re-arming: a certificate leaves it
when it becomes good, a day passes, or an edit or a removal comes, and `misread` are those
of it that a probe took for good although they were not.  `edited` also has the checks
whose outcome was dropped for a new address, which are owed a probe at once.

### Statistics

`rows` are the hourly sums of a series (a server and a kind), `errors` the times of its
error rows, `ssl` the servers with a certificate row, `tomb` the tombstones, `gate` the
times of the last prunes and the last purge, which are moved before the commit and so
also by one that fails (`RecordFails`, `SkipPurge`).  `sync` is the cycle from the save
of the inventory on: `Unmark` for the servers that are back, `Mark` for each one that
went, `Purge`.  `Restart` may come between any two of these, and `Rebuild` is the
startup that finds the database malformed.  A result may be written one tick late,
after a write that failed.  `Windows` are the lengths the readers ask for, 24 hours for
most and seven days for a card; the retention time is configured apart from them and may
be shorter than a window.  `log`, `left` and `missed` are history variables: what was
recorded, when a server left, and whether that removal has no tombstone.  The tables of
pings and of checks are handled by the same code under two names; `Series` says which
of them an instance has.

### CheckStore, DurableStore and ChecksRouter

A handler leaves the event loop for a thread: `Update` is the change in memory up to the
snapshot, `Persist` the write of that snapshot, between which `_write_lock` is held and
`_lock` is not, so that readers see the change before it is durable.  `blind` is
`_load_failed`: after an unreadable file the list is empty, every access reads again,
and a write is refused until that succeeds.  `Corrupt` is an edit by hand.  `kept` and
`erased` are history variables.  `DurableStore` knows only a current configuration, a
durable one and whether the first stems from the second; the refinement maps a store
that is blind to one that knows nothing.

`ChecksRouter` adds the wizard.  Its answers are abstracted to the wizard that they were
given to, which is all that `OwnAnswers` needs to see: the data of the FSM outlive a
wizard that is started over, and it is the order of the questions that keeps them out of
the next one's check.

### Balance

`settings` and `file` are the runtime settings in memory and on disk; `job[h]` is a
handler that changes them (submitted, persisting in its thread, answering), of which
several run at a time and only `_write_lock` (`IsWritable`) keeps the writes apart;
`check` is the cycle of the checker (the thresholds it sampled, the accounts it has still to ask, the
record it is saving or telling).  `IsRecord` is the validation of a record.  `quiet` is
the cooldown in checks; `told` is the same clock as the admins see it and `kept` what was
in force when a change was last saved, both history variables.  `Send` is the forecast and
the broadcast with an outcome per admin.

### PowerOps

`op[h]` is a handler between two awaits: it has answered the tap, calls the provider
(`backend`, `try`), shows the outcome, returns to the screen, or shows an error.  `stamp`
is `_operation_cooldowns` with the handler whose time it is, which the code does not
keep: `Clear` removes whatever stamp is there.  An attempt may be applied though its
answer does not come, and is then repeated (`"lost"`) or not (`"broken"`, which includes
a read timeout of the AWS client).  `young` and `wiped` say whose cooldown should not
be over, and which of those were cleared all the same.

### AwsServers

`regions` are the regions configured or looked up, which a process looks up once and
keeps (`LookUpRegions`); an answer that names none leaves `us-east-1` alone (`Default`),
and one that names some may lack others, which are then not asked before a restart.
`slot[f]` is a fetch of the call in progress, `seen` and `populated` are
`_populated_fetches`, `Home` says which fetch lists a server.  Fetches end one by one
while servers are created and terminated and AWS has its troubles; `Decide` is what
becomes of them: a denied one raises, a failure that makes the account look emptier than
it may be (`IsUnknown`) raises, and everything else is a list.  `steady` and `complete`
are history variables: the servers that existed throughout the call, and what the last
complete answer had from each fetch.

## The runs

| Run | Instance | Shows |
|---|---|---|
| `sync` | one account of four servers; ConfirmCycles 3, mass from 2 servers and more than half, alert streak 2, cooldown 2, outage threshold 2; any history, then honest answers | `EvidenceBacked`, `IncidentCounted`, `RemovalsWarranted` (implements `RemovalPolicy`), `InventoryConverges`, `AnnouncementsAreClosed` |
| `workers` | two servers, two addresses, two restarts, starts may fail | `WorkersFollowInventory`, `NeverDropsOut` |
| `alerts_two` | two servers, threshold 2, queue of 2; one server stays in the inventory, up or down | `OutageIsTold`, `RecoveryIsTold`, `NoRepetition` |
| `batch` | flush at 2, emergency above 4, 16 results | `ResultsAccountedFor`, `MemoryBounded`, `AlertsBounded`, `BufferEmpties` |
| `supervisor` | two tasks, one restart | `OnlyStreaksAbandoned`, `ShutdownIsClean`, `StallIsTold`, `ExitIsHandled` |
| `checks` | one SSL check on one server | `EditsRunNext`, `OnlyNews`, `FailureIsTold`, `RecoveryIsTold`, `CertIsTold` |
| `statistics` | two servers with a series each, one comes and goes, the other stays and always fails; hours of 2 ticks, windows of 1 and 2, retention, grace and error rows of 1, four times 0..3, at most two results kept | `TypeOK`, `WindowCounts`, `ErrorsAreNewest`, `GoneIsMarked`, `HistoryKept` |
| `store` | two checks, two handlers at work, two wizards | `SavedStays`, `ErasedStaysGone`, `OwnAnswers`, `Implements` (implements `DurableStore`) |
| `balance` | two handlers at a time, one account in order, in debt or charged more than twice its credit; defaults 2 and 4, thresholds 0 and 4, cooldown of 2 checks, one restart | `TypeOK`, `FileOwnsSettings`, `NoNagging`, `LowIsTold` |
| `power` | three taps on one server that the first of two services has, two attempts each | `SecondTapWaits` |
| `aws` | two regions, any of them configured or looked up; EC2 in both, Lightsail in one of them; a server in each fetch that may have one, two attempts | `PartialOnlyIfEmpty`, `NeverFalselyEmpty`, `ListArrives` |
| `aws_held` | the same | violated: `HeldServersStay` |

Bounds.  The thresholds of the code (3 servers, 3 failures, 500 and 1000 results, an
hour of empty answers) are scaled down so that each of "below", "at" and "above" is
reached and all of them interact: a fleet of three is suspicious from two missing
servers, and one of four is not until three are missing, so both sides of the ratio
occur; ConfirmCycles is 3 so that the alert streak of 2 lies between the first empty
answer and the believed one.  One account suffices, because nothing in a cycle relates
two accounts but the save, which fails for all of them, and every property speaks of one
account; the theorems are for any number.  Counters in the models stop at the largest
number the code compares them with.  Two servers are needed for one to wait while the
other is announced, and the properties speak of one server at a time.  Sixteen results
are enough for both flushers to hold a full batch and for the emergency to strike three
times in one debounce window, one more than `AlertsBounded` allows.  `batch` allows
deadlock since the processor ends at the shutdown, and so does `supervisor`, as the
process ends there.  Two supervised tasks suffice for one to fail while the supervisor
awaits something for the other; with a budget of one restart a task is at, below and
above it.  The checks of a cycle share only the order of their alerts, so one check, of
the kind with both alert axes, meets every interleaving with its own edits and removals;
the roll-up of several down alerts into one message is in the model but needs two checks
and is in no run.  In `statistics` the retention and the shorter window end within an
hour, so a prune can cut where a reader still adds up, and the longer window begins
before the retention time does; four times are enough for a removal, its
grace and a return, and the two servers stand for two accounts with a server of the same
id.  The one that stays fails each of its checks, so that its errors compete for the rows; at most one result per tick is recorded and two are kept (`OneAtATime`), which is
one more than the error rows that are kept; cycles that change nothing and cannot purge
are left out (`CycleMatters`), and each step that remains is one of the program.  In
`store` two handlers are enough for a wait at the lock, and two wizards for one to
inherit the other's answers.  `balance` has a cooldown of two checks so that an alert can
be held back, one restart so that a changed default can meet a saved file, and two
handlers, so that one can change what another has saved and fail to save it.  The second
one is at work only while the checker sleeps (`MCSpec`): the checker does not write the
settings, `OneAlertPerCooldown` is proved for any handlers, and `LowIsTold` asks for an
alert only while no handler is at work, whichever it is.  Three
taps are needed in `power` for an old handler to clear the stamp of a second one and let
a third through.  In `aws` the Lightsail server is there for good or never, which halves
the states and takes nothing from the other two; the fetch without Lightsail is always
empty.

Fairness.  `FairSpec` of `Workers`: the sync task goes on whenever it can (weak
fairness; its awaits are sends with timeouts), clocks advance, and health cycles with
starts that succeed recur (strong fairness, because the synchronization holds the
event loop now and then, and because `Process.start()` fails for want of resources
now and then but not for ever; nothing is assumed about crashes).  `PingAlerts`: the
tasks go on, cooldowns end, and per server a delivery succeeds and a worker finds room
in the queue again and again; the latter is a put that waits up to three times five
seconds for a consumer that takes a result each time it is idle.  `PingBatch`: the
timer goes round, time passes, and a flusher's write does not fail for ever.
`Supervisor`: scans go on (their awaits are sends with timeouts and sleeps), and per
task an alert gets through now and then; the tasks may do anything.  `ServiceChecks`:
the cycle goes on, intervals and cooldowns end, and per check an alert gets through now
and then, a probe that comes to the same result again and again is not aborted with its
cycle each time, and the handshake that verifies a chain does not fail each time;
nothing is assumed of admins, synchronization, targets or writes.  `Balance`: the
checker goes on (a check is a sequence of requests with timeouts), and per account the
provider answers, the history is written and an admin is reached now and then.
`AwsServers`: the synchronization asks again and every request ends; that AWS recovers
is a premise of `ListArrives`, not an assumption.  That alerts get through now and then
is what "retried until delivered" can promise at all; it is strong fairness as an
attempt is not always under way.  `sync` assumes only that cycles recur, and that from
some time on they see honest answers.  `Statistics`, `PowerOps` and `ChecksRouter` are
checked for safety alone and state no fairness.

## What the violation shows

`HeldServersStay`.  `get_servers` remembers which fetches held servers only after a
complete answer.  A region that gets its first server while another, empty region keeps
failing is in the partial lists, and the synchronization adds its server, but the
baseline still has the region as empty.  When the region's own fetch fails next, a list
without the server is returned as a success, and a single missing server is removed at
once.  The comment above the decision (`providers/aws.py:666-677`) says that such a
failure raises.

## What the models showed of the code besides

These are disagreements between the code and what it says of itself which are modelled
or stand beside a model, but are the subject of no run:

- Two servers are removed in one cycle.  While the first removal is announced, a health
  cycle finds the second one's worker crashed and cannot restart it, since the server is
  gone from the repository; the registry entry vanishes.  `stop_worker` then finds no
  worker and returns before it clears `shared_state` (`monitoring/ping_manager.py:344-349`).
  A server that lost its address stays on the dashboard with the status it had; one that
  returns starts from the old count.
- The processor is sending an alert while the synchronization removes the server and
  calls `forget_server`; it then records the delivery for a server that is gone
  (`background_tasks/ping_processor.py:297-338`).  `OutageIsTold` holds nevertheless: the
  record heals with the next recovery.
- A task that uses up its restarts while Telegram is out of reach is given up with a last
  alert that is lost as well; no later scan looks at it
  (`background_tasks/supervisor.py:226-233`).
- A check deleted while the cycle's results wait for their write, or for a retry of it,
  has its rows cleared first and written afterwards (`background_tasks/service_checks.py:502-551`).
- Each of the two flushers reads the time of the last database alert before the other's
  alert has been delivered, so two alerts may arrive in one window; `AlertsBounded` shows
  that it is no more than two.
- A prepaid account with more pending charges than twice its balance makes no record
  (`storage/balance.py:187`), and the checker swallows the error: the account closest to
  its end is not alerted, which `providers/vultr.py:564-569` clamps the balance to avoid.
  `LowIsTold` excludes it.
- The cooldown of a power operation is cleared by whoever fails, and by the error path
  after a success: an old handler removes the stamp of a younger one.  `SecondTapWaits`
  says exactly when a second operation gets through.
- A verifying handshake that fails in transport reads as a valid chain
  (`checks/ssl_expiry.py:160-165`).  The probe of an untrusted certificate is then good,
  which re-arms the daily alert (`background_tasks/service_checks.py:618`), and the next
  probe tells it again, while `service_checks.py:57-59` promises "at most one alert per
  this long while a cert stays expiring/invalid".  `OnlyNews` without its `misread` is
  violated by three probes of such a certificate; with it, it shows that there is no other
  way to a second alert within the day.
- A stalled task that beats and stalls again between two looks of the supervisor stays in
  `stall_alerted`, and its second stall is not announced
  (`background_tasks/supervisor.py:194-215`); a scan can last longer than a budget, since it
  awaits alerts and backoffs.  `StallIsTold` asks for an alert only of a stall that does not
  follow one that was told with no look in between that found the task progressing.
- A lookup of the regions that names none leaves the AWS client with `us-east-1` for the
  life of the process, and one that lacks a region never asks it
  (`providers/aws.py:165-234`).  Such a list counts as complete, also when it is empty
  although there are servers elsewhere.  `NeverFalselyEmpty` and `ListArrives` therefore
  speak of the regions asked.
- A settings screen shows the threshold that is in memory when its handler goes on
  (`bot/routers/settings.py:334-347`, `370-381`).  Another handler may have changed it
  meanwhile and failed to save it, so that a message of success can show a threshold that a
  restart does not find.  `FileOwnsSettings` says what does survive: what was in force when
  a change was last saved.
- `reset_low_balance_cooldown` during the send of an alert does not bring another alert:
  the delivery sets the cooldown again (`background_tasks/balance_checker.py:33-45`).
- With a retention time shorter than its window, the reader of seven days adds up what no
  prune has cut yet, more or less of the hours before the retention time
  (`STATS_RETENTION_DAYS` may be 1).  `WindowCounts` bounds it: each older result is counted
  once or not at all.
- A cycle of the synchronization that fails before it compares anything (`get_all`
  raising, or no providers) leaves the pending evidence as it was, although
  `servers_sync.py:525-529` asks for consecutive confirmations.  `AbortedCycle` models it
  and `RemovalPolicy` counts answers, not cycles.
- A worker whose restart fails is started again by the reconciliation in the same health
  cycle with a fresh restart budget (`ping_manager.py:439-453`, `527-535`).  A task that was
  up for five minutes and crashes before the next scan is not forgiven its earlier
  failures, since only a scan that finds it alive renews the budget
  (`supervisor.py:178-189`).
- A startup adds the servers it finds without touching their tombstones
  (`src/main.py:56-118`), which `HistoryKept` survives because the purge spares whatever is in
  the inventory.

## What is proved

All proofs are for arbitrary constants under the assumptions named in the modules:
thresholds are positive naturals and ConfirmCycles at least 2, as
`_empty_confirm_cycles` guarantees; the placeholders of `Workers`, `Supervisor` and
`PowerOps` differ from the values they stand beside; the emergency size is at least the
flush size; every server has a service to be asked for it; amounts and defaults are
naturals.

- `ServersSyncProofs`.  `TypeCorrect` is inductive by itself, by way of `ClaimType`
  (a claim is well typed) and `CycleType`.  `EvidenceIsBacked` needs it: the induction
  relates the guard's counters to the claims of the answers, case by case over what an
  answer can be (`CycleEvidence`).  `IncidentsAreCounted` is direct.
  `ImplementsRemovalPolicy` shows each step to be a step of `RemovalPolicy` or to leave
  its variables alone: `CycleRemoves` says that what a cycle removes is warranted by the
  new claim, and for that needs `EvidenceBacked`, because the guard acts on its own
  counters and the policy on the claims.
- `RestartsProofs`.  Of `Workers`: `PoolTypeCorrect`; `PoolFollowsInventory` needs a
  stronger invariant, `FollowInv`: a server still to be added has no worker of another
  address even while it is pending, because `SyncAdd` does not touch a worker that is
  there.  Of `Supervisor`: `SupervisorTypeCorrect`, `RareFailuresForgiven` and
  `NoTaskSurvives` rest on one invariant, `SupervisorInv`: the supervisor's count keeps
  up with the exits and is one behind while an exit is unnoticed (which the bound of
  the type needs), whom it restarts is done and not given up, and from the beginning of
  the shutdown there is no supervisor.
- `PingProcessorProofs`.  Of `PingBatch`: `NoResultIsLost` needs that nothing is lost
  before the shutdown; `MemoryIsBounded` that while the processor writes, the buffer and
  the timer together hold at most one emergency size, which is where the bound of two
  rather than three comes from.  `AlertsAreBounded` counts the alerts sent and those on
  their way together: each flusher adds at most one to a window.  Of `PingAlerts`:
  `AlertsTypeCorrect`, with the library's facts on sequences, and `AlertsAreNews`: what
  the admins heard and what the processor remembers always agree, also when
  `forget_server` falls into a send, and an alert on its way is news to both.
- `ServiceChecksProofs`.  `ChecksTypeCorrect` and `EditsAreNotLost` rest on `ChecksInv`:
  only SSL checks find bad certificates, and a check whose handler is about to mark it
  dirty was configured, which is what the prune respects.  `OnlyNewsIsTold` needs, in
  `NewsInv`, that what a cycle probes, has found and is about to tell is of checks it
  knew at its top, and that of those and of the configured ones the records agree with
  what the admins heard, which the prune at the cycle's end and the edits and removals
  during its sends preserve.
- `AwsServersProofs`.  `PartialListsAreSafe` needs that the baseline is what the last
  complete answer found; `EmptyIsTrue` that an answered fetch has found every server of
  its region that existed throughout the call so far, if its region is asked.
- `ChecksRouterProofs`.  `StoreInv` is about the handler that writes and about ids: what
  is being written is still what memory holds, as `_write_lock` is held and a failed read
  cannot intervene; a check that waits to be added has an id nobody knows; a delete that
  is durable has left nothing.  `SavedChecksStay`, `ErasedChecksStayGone` and
  `ImplementsDurableStore` follow from it, `WizardsAddTheirOwn` from an invariant of the
  wizard's steps.
- `BotProofs`.  Of `Balance`: `SavedSettingsStay` and `OneAlertPerCooldown` rest on
  `BalanceInv`.  The file has what was in force when a change was last saved and an own
  threshold (without which a later default would move it); a change being persisted is
  still the one in memory, as no other handler can write meanwhile, however many there
  are; the checker's cooldown and the admins' are equal, and over when an alert is on
  its way, although a reset may fall into the send.  Of `PowerOps`: `SecondTapHasReason`
  is about pairs of recent handlers and needs, in `PowerInv`, what each of them owes to
  its stamp: a stamp belongs to a recent handler of that server; a recent handler that
  has no stamp was cleared or failed; of two recent handlers of a server the older one
  has none.  So the older one of a pair has one of the reasons.
- `StatisticsProofs`, in two invariants over the types.  `RemovalInv`, for
  `RemovedAreMarked` and `HistoryIsKept`: a cycle's view of the inventory covers what was
  there before and after its save, and a server that is out of the inventory is still to
  be marked, was missed, or has a tombstone no older than its leaving, so that one older
  than Grace means a removal older than Grace.  `CountsInv`, for `WindowIsCounted` and
  `ErrorsShownAreNewest`: every hour that no prune may cut counts its results, one each,
  and the error rows of the retention time are the newest failures of the log.  For the
  errors the lemmas on `NewestOf` are the point: adding one failure to a cut list and
  cutting it again is the same as cutting the whole list once (`NewestAfterOneMore`), and
  cutting commutes with a later limit of age (`NewestSince`); the first is why a late
  result cannot push out a newer one, the second why a prune loses nothing.  For the sums,
  `SumIsMeasure` says that a fold of `+` over a finite set is any measure that grows by
  each element, by a least counterexample in the well-founded order of the finite
  subsets, and `HoursAddUp` that the results of disjoint hours are such a measure.  Of
  a window longer than the retention time the hours divide: what is within it is counted
  exactly, what is older at most once (`log` goes back at least as far as any window and
  the retention time, which is the bound `Horizon`).

With these, every safety invariant and every safety action property that the passing
runs check is a theorem.  Only model-checked: every liveness property
(`InventoryConverges`, `AnnouncementsAreClosed`, `NeverDropsOut`, `OutageIsTold`,
`RecoveryIsTold`, `BufferEmpties`, `StallIsTold`, `ExitIsHandled`, `FailureIsTold`,
`CertIsTold`, `LowIsTold`, `ListArrives`), as fairness and ENABLED are beyond the prover.
No module has a recursive operator.

## What is not modelled, and why

- Zombie processes, the death of the Manager, a worker killed inside the critical
  section of `shared_state_lock` (the pool's calls are atomic here).
- Texts, keyboards, translations, logging, parsing of the environment and of the
  providers' answers: sequential, and about form.
- The remote APIs behind the providers: the models take every answer as possible.  The
  pages of a list are read one by one while the account changes, which is why
  `ServersSync` lets any server be missing.
- The server repository's manual edits and `forget_server_config` of the check store,
  which no handler calls.
- In `ServiceChecks`: the cap on the results kept for a retry, the rows, and what HTTP
  and TCP probes do on the wire.
- In `Statistics`: response times, migrations, SQLite's own locking.
- The burn-rate forecast, a regression over the history of the balances, and the monthly
  costs of postpaid accounts: numerics without state of their own.
- Delivery is a Boolean but in `Balance`: `_broadcast_to_admins` counts an alert as
  delivered when one admin got it.
- The subsystem alerts of `workers_health`.

## Plan

The system's core is modelled; what is left, in order of weight:

1. Proofs: the safety halves of the liveness properties of `Workers` and `Supervisor`
   (a server without a worker is one that somebody still has to start, a task that is
   done one that a scan still has to find).
2. The lock of `shared_state` in `Workers`, with a worker that dies while holding it.
3. `ServiceChecks` composed with the rows of `Statistics`; its roll-up with two checks.
4. The subsystem alerts of the workers' health task.
5. The forecast of the balance as a pure operator against a reference definition.

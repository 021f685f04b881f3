----------------------------- MODULE Statistics -----------------------------
(***************************************************************************)
(* The statistics database (src/storage/sqlite_statistics.py) and what the *)
(* synchronization of the inventory does to it                             *)
(* (src/background_tasks/servers_sync.py).  Results are added up per hour, *)
(* failures are kept as the newest error rows, both for a retention time;  *)
(* the history of a removed server is tombstoned and purged after a grace  *)
(* time, unless the server comes back.  The inventory is saved before the  *)
(* tombstones are set and cleared: a crash or a failed write in between    *)
(* leaves the two apart.                                                   *)
(*                                                                         *)
(* A series is what one table keys its rows by: a server and "ping", or a  *)
(* server and "check", one of its service checks.  Every call is one       *)
(* transaction under _db_lock, hence one step.                             *)
(***************************************************************************)
EXTENDS Integers, FiniteSets, Functions

CONSTANTS
    Servers,   \* composite keys "alias:id"
    Series,    \* pairs of a server and a kind
    Hour,      \* ticks in an hour
    Windows,   \* hours=1, 24 and 24 * 7 of the readers, in ticks
    Retention, \* _retention_hours, in ticks: shorter than a window, perhaps
    Grace,     \* _deleted_grace_seconds, in ticks
    MaxErrors, \* MAX_ERRORS_PER_SERVER
    Horizon,   \* bound of the model: the ticks its log of results goes back
    MaxTime    \* bound of the model: the ticks it runs

Kinds == {"ping", "check"}

ASSUME SeriesAssumption == Series \in SUBSET (Servers \X Kinds)
ASSUME TimeAssumption ==
    /\ Windows \union {Hour, Retention, Grace, MaxErrors} \subseteq Nat \ {0}
    /\ Horizon \in Nat /\ \A w \in Windows \union {Retention} : w <= Horizon
    /\ MaxTime \in Nat

VARIABLES
    now,       \* the time
    rows,      \* hourly_stats, check_hourly_stats
    errors,    \* ping_errors, check_errors
    ssl,       \* check_ssl_state: the servers with a row
    tomb,      \* deleted_servers: when a server was removed
    gate,      \* the times of the last prunes and of the last purge
    inventory, \* the servers in servers.json
    sync,      \* the cycle of the synchronization, from its save on
    log,       \* history: the results of the last Horizon ticks, of those that
               \* no purge, deletion or rebuild took away
    left,      \* history: when each server last left the inventory
    missed     \* history: the servers whose last removal no tombstone records

vars == <<now, rows, errors, ssl, tomb, gate, inventory, sync, log, left, missed>>

Times == 0..MaxTime
Hours == 0..MaxTime \div Hour
HourOf(t) == t \div Hour
Never == -1
Results == [series: Series, time: Times, ok: BOOLEAN]
NoCount == [ok |-> 0, bad |-> 0]
Idle == [pc |-> "idle", added |-> {}, gone |-> {}, present |-> {}]
Opened == -Hour

Init ==
    /\ now = 0
    /\ rows = [x \in Series |-> [h \in Hours |-> NoCount]]
    /\ errors = [x \in Series |-> {}]
    /\ ssl = {}
    /\ tomb = [s \in Servers |-> Never]
    /\ gate = [ping |-> Opened, check |-> Opened, purge |-> Opened]
    /\ inventory = Servers
    /\ sync = Idle
    /\ log = {}
    /\ left = [s \in Servers |-> Never]
    /\ missed = {}

\* A tick is long against a cycle of the synchronization: minutes against the
\* hours of the gates and the days of the grace time.
Tick ==
    /\ now < MaxTime
    /\ sync = Idle
    /\ now' = now + 1
    /\ log' = {r \in log : r.time >= now' - Horizon}
    /\ UNCHANGED <<rows, errors, ssl, tomb, gate, inventory, sync, left, missed>>

-----------------------------------------------------------------------------
(* add_ping_batch, add_check_batch: a batch of one result. *)

\* Mutant of NewestOf: the first ones are kept.
OldestOf(times) == {t \in times : Cardinality({u \in times : u < t}) < MaxErrors}

\* _limit_errors, _limit_check_errors.
NewestOf(times) == {t \in times : Cardinality({u \in times : u > t}) < MaxErrors}

\* Mutant of Counted: the hour of the write, not of the result.
CountedLate(row, r) ==
    IF r.ok THEN [row EXCEPT ![HourOf(now)].ok = @ + 1]
    ELSE [row EXCEPT ![HourOf(now)].bad = @ + 1]

\* _update_hourly_stats, _update_check_hourly_stats.
Counted(row, r) ==
    IF r.ok THEN [row EXCEPT ![HourOf(r.time)].ok = @ + 1]
    ELSE [row EXCEPT ![HourOf(r.time)].bad = @ + 1]

\* Mutant of Noted: the table is not cut.
NotedAll(times, r) == IF r.ok THEN times ELSE times \union {r.time}

\* _add_error, _add_check_error.
Noted(times, r) == IF r.ok THEN times ELSE NewestOf(times \union {r.time})

IsPruneDue(kind) == now - gate[kind] >= Hour

\* _cleanup_ping_data, _cleanup_check_data: all series of the kind lose what
\* is older than the retention time.
Pruned(table) ==
    [h \in Hours |-> IF h * Hour < now - Retention THEN NoCount ELSE table[h]]
PrunedErrors(times) == {t \in times : t >= now - Retention}

\* The rows of a result are added, and the tables of its kind pruned if due.
Written(r) ==
    LET kind == r.series[2]
        counted == [rows EXCEPT ![r.series] = Counted(@, r)]
        noted == [errors EXCEPT ![r.series] = Noted(@, r)]
        OfKind(x) == x[2] = kind
    IN  IF IsPruneDue(kind)
        THEN /\ rows' = [x \in Series |-> IF OfKind(x) THEN Pruned(counted[x]) ELSE counted[x]]
             /\ errors' = [x \in Series |->
                              IF OfKind(x) THEN PrunedErrors(noted[x]) ELSE noted[x]]
             /\ gate' = [gate EXCEPT ![kind] = now]
        ELSE rows' = counted /\ errors' = noted /\ UNCHANGED gate

\* The state of the certificate is kept with a check's result.
WithCertificate(r) == IF r.series[2] = "check" THEN ssl \union {r.series[1]} ELSE ssl

\* r comes from a server that is monitored, or from a worker whose last result
\* was still in the buffer; late, perhaps, after a write that failed.
Record(r) ==
    /\ r.series[1] \in inventory \union sync.gone
    /\ r.time \in {now - 1, now}
    /\ \A q \in log : q.series = r.series => q.time # r.time
    /\ Written(r)
    /\ ssl' = WithCertificate(r)
    /\ log' = log \union {r}
    /\ UNCHANGED <<now, tomb, inventory, sync, left, missed>>

\* The commit of a batch fails: nothing is written, but the next prune of its
\* tables has to wait, because the gate moves before the commit.
RecordFails(kind) ==
    /\ \E x \in Series : x[2] = kind
    /\ IsPruneDue(kind)
    /\ gate' = [gate EXCEPT ![kind] = now]
    /\ UNCHANGED <<now, rows, errors, ssl, tomb, inventory, sync, log, left, missed>>

\* delete_check_state, when an admin deletes the check of s.
DeleteCheckState(s) ==
    /\ <<s, "check">> \in Series
    /\ rows' = [rows EXCEPT ![<<s, "check">>] = [h \in Hours |-> NoCount]]
    /\ errors' = [errors EXCEPT ![<<s, "check">>] = {}]
    /\ ssl' = ssl \ {s}
    /\ log' = {r \in log : r.series # <<s, "check">>}
    /\ UNCHANGED <<now, tomb, gate, inventory, sync, left, missed>>

-----------------------------------------------------------------------------
(* The synchronization, from the save of the new inventory on. *)

\* The merged inventory is on disk; the tombstones are still as they were.
Save(new) ==
    /\ sync = Idle
    /\ sync' = [pc |-> "unmarking", added |-> new \ inventory,
                gone |-> inventory \ new, present |-> inventory \union new]
    /\ inventory' = new
    /\ left' = [s \in Servers |-> IF s \in inventory \ new THEN now ELSE left[s]]
    /\ missed' = missed \ (inventory \ new)
    /\ UNCHANGED <<now, rows, errors, ssl, tomb, gate, log>>

\* unmark_servers_deleted, for all added servers at once.
Unmark(ok) ==
    /\ sync.pc = "unmarking"
    /\ tomb' = IF ok THEN [s \in Servers |-> IF s \in sync.added THEN Never ELSE tomb[s]]
               ELSE tomb
    /\ sync' = [sync EXCEPT !.pc = "marking"]
    /\ UNCHANGED <<now, rows, errors, ssl, gate, inventory, log, left, missed>>

\* Mutant of Marked: a tombstone that is there stays as it is.
MarkedOnce(s) == [tomb EXCEPT ![s] = IF @ = Never THEN now ELSE @]

\* mark_server_deleted: the time of an old tombstone is replaced.
Marked(s) == [tomb EXCEPT ![s] = now]

\* The removal loop reaches s; a notification is awaited before the next one.
Mark(s, ok) ==
    /\ sync.pc = "marking"
    /\ s \in sync.gone
    /\ sync' = [sync EXCEPT !.gone = @ \ {s}]
    /\ tomb' = IF ok THEN Marked(s) ELSE tomb
    /\ missed' = IF ok THEN missed ELSE missed \union {s}
    /\ UNCHANGED <<now, rows, errors, ssl, gate, inventory, log, left>>

IsPurgeDue == now - gate.purge >= Hour
Expired == {s \in Servers : tomb[s] # Never /\ tomb[s] < now - Grace}

\* Mutant of Purged: the tombstone decides alone.
PurgedAnyway == Expired

\* The servers whose rows purge_expired_deleted deletes.
Purged == Expired \ sync.present

\* _delete_server_rows: every table loses the rows of the servers in gone.
DeleteServerRows(gone) ==
    /\ rows' = [x \in Series |-> IF x[1] \in gone THEN [h \in Hours |-> NoCount] ELSE rows[x]]
    /\ errors' = [x \in Series |-> IF x[1] \in gone THEN {} ELSE errors[x]]
    /\ ssl' = ssl \ gone
    /\ log' = {r \in log : r.series[1] \notin gone}

\* The purge at the end of the cycle; the spared tombstones go as well.
Purge ==
    /\ sync.pc = "marking" /\ sync.gone = {}
    /\ IsPurgeDue
    /\ DeleteServerRows(Purged)
    /\ tomb' = [s \in Servers |-> IF s \in Expired THEN Never ELSE tomb[s]]
    /\ gate' = [gate EXCEPT !.purge = now]
    /\ sync' = Idle
    /\ UNCHANGED <<now, inventory, left, missed>>

\* The purge is not due, or fails; its gate may have moved before the commit.
SkipPurge ==
    /\ sync.pc = "marking" /\ sync.gone = {}
    /\ \/ UNCHANGED gate
       \/ IsPurgeDue /\ gate' = [gate EXCEPT !.purge = now]
    /\ sync' = Idle
    /\ UNCHANGED <<now, rows, errors, ssl, tomb, inventory, log, left, missed>>

(***************************************************************************)
(* The bot dies and comes back.  The startup adds the servers it finds to  *)
(* the inventory (sync_servers_on_startup in main.py) and does not touch   *)
(* the tombstones.                                                         *)
(***************************************************************************)
Restart(found) ==
    /\ sync' = Idle
    /\ missed' = missed \union sync.gone
    /\ inventory' = inventory \union found
    /\ gate' = [ping |-> Opened, check |-> Opened, purge |-> Opened]
    /\ UNCHANGED <<now, rows, errors, ssl, tomb, log, left>>

\* ... and finds the database malformed: it is deleted and created anew.
Rebuild ==
    /\ rows' = [x \in Series |-> [h \in Hours |-> NoCount]]
    /\ errors' = [x \in Series |-> {}]
    /\ ssl' = {}
    /\ tomb' = [s \in Servers |-> Never]
    /\ gate' = [ping |-> Opened, check |-> Opened, purge |-> Opened]
    /\ sync' = Idle
    /\ missed' = missed \union sync.gone
    /\ log' = {}
    /\ UNCHANGED <<now, inventory, left>>

Next ==
    \/ Tick
    \/ \E r \in Results : Record(r)
    \/ \E kind \in Kinds : RecordFails(kind)
    \/ \E s \in Servers : DeleteCheckState(s)
    \/ \E new \in SUBSET Servers : Save(new) \/ Restart(new)
    \/ \E ok \in BOOLEAN : Unmark(ok) \/ \E s \in Servers : Mark(s, ok)
    \/ Purge
    \/ SkipPurge
    \/ Rebuild

Spec == Init /\ [][Next]_vars

-----------------------------------------------------------------------------
(* What the readers see. *)

InWindow(w) == {h \in Hours : h * Hour >= now - w}

\* The SUM of a column.
SumOf(column) == FoldFunction(+, 0, column)

\* get_recent_statistics, get_check_statistics: what is added up.
RecentStatistics(x, w) ==
    [ok |-> SumOf([h \in InWindow(w) |-> rows[x][h].ok]),
     bad |-> SumOf([h \in InWindow(w) |-> rows[x][h].bad])]

\* get_recent_errors, which asks for the retention time by default, and
\* _get_last_downtime, which takes the last of these.
RecentErrors(x, w) == {t \in errors[x] : t >= now - w}

HasRows(s) ==
    \/ s \in ssl
    \/ \E x \in Series : x[1] = s /\ (errors[x] # {} \/ \E h \in Hours : rows[x][h] # NoCount)

-----------------------------------------------------------------------------
(* Properties. *)

\* Every variable has its type.
TypeOK ==
    /\ now \in Times
    /\ rows \in [Series -> [Hours -> [ok: Nat, bad: Nat]]]
    /\ errors \in [Series -> SUBSET Times]
    /\ \A x \in Series : Cardinality(errors[x]) <= MaxErrors
    /\ ssl \in SUBSET Servers
    /\ tomb \in [Servers -> Times \union {Never}]
    /\ gate \in [Kinds \union {"purge"} -> Times \union {Opened}]
    /\ inventory \in SUBSET Servers
    /\ sync \in [pc: {"idle", "unmarking", "marking"}, added: SUBSET Servers,
                 gone: SUBSET Servers, present: SUBSET Servers]
    /\ log \in SUBSET Results
    /\ left \in [Servers -> Times \union {Never}]
    /\ missed \in SUBSET Servers

(***************************************************************************)
(* The readers see what was recorded: the sums over their window count, of *)
(* the results of its whole hours, late or not, each one that is within    *)
(* the retention time once and no other one more than once, for this       *)
(* account alone, whatever was pruned, purged and deleted meanwhile.  A    *)
(* window that is no longer than the retention time is counted exactly.    *)
(***************************************************************************)
WindowCounts ==
    \A x \in Series, w \in Windows :
        LET Mine(hours) == {r \in log : r.series = x /\ HourOf(r.time) \in hours}
            all == Mine(InWindow(w))
            kept == Mine(InWindow(w) \intersect InWindow(Retention))
            seen == RecentStatistics(x, w)
        IN  /\ seen.ok \in Cardinality({r \in kept : r.ok})..Cardinality({r \in all : r.ok})
            /\ seen.bad \in Cardinality({r \in kept : ~r.ok})..Cardinality({r \in all : ~r.ok})

(***************************************************************************)
(* The errors shown are among the newest failures of the window, and all   *)
(* of those that are within the retention time: late ones do not push out  *)
(* newer ones, and neither do those of another account.                    *)
(***************************************************************************)
ErrorsAreNewest ==
    \A x \in Series, w \in Windows \union {Retention} :
        LET newest == NewestOf({r.time : r \in {r \in log : r.series = x /\ ~r.ok
                                                           /\ r.time >= now - w}})
        IN  /\ RecentErrors(x, w) \subseteq newest
            /\ {t \in newest : t >= now - Retention} \subseteq RecentErrors(x, w)

(***************************************************************************)
(* "A server that comes back within the grace window keeps its history":   *)
(* but for a rebuild and a check's deletion, no result of the last Horizon *)
(* ticks is forgotten while its server is in the inventory, nor before it   *)
(* has been gone for Grace, if that removal has its tombstone.             *)
(***************************************************************************)
HistoryKept ==
    [][Purge => \A r \in log \ log' :
          LET s == r.series[1]
          IN  s \notin inventory /\ (s \in missed \/ now - left[s] > Grace)]_vars

(***************************************************************************)
(* What is left of a removed server has a tombstone, so that the purge     *)
(* finds it one day, unless that tombstone could not be written.           *)
(***************************************************************************)
GoneIsMarked ==
    sync = Idle =>
        \A s \in Servers \ inventory : HasRows(s) => tomb[s] # Never \/ s \in missed
=============================================================================

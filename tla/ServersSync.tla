----------------------------- MODULE ServersSync -----------------------------
(***************************************************************************)
(* The server inventory synchronization of                                 *)
(* src/background_tasks/servers_sync.py with the repository it updates     *)
(* (src/storage/servers.py): every cycle asks every provider account for   *)
(* its servers and merges the answers into the local inventory.  A failed  *)
(* fetch, an empty answer and a truncated answer all look alike from here, *)
(* so removals pass two guards: A1 (_observe_empty_response) and A2        *)
(* (_authorize_removals).  Alerts about them are sent through Telegram and *)
(* may fail; what must be remembered about them survives a restart of the  *)
(* task in module-level dictionaries, but not a restart of the process.    *)
(*                                                                         *)
(* One cycle is one step: nothing but this task writes the guard state or  *)
(* the repository while the bot runs, so the awaits inside a cycle do not  *)
(* show here.  What other tasks do to the workers while a cycle sends its  *)
(* notifications is the subject of Workers.                                *)
(***************************************************************************)
EXTENDS Naturals, FiniteSets

CONSTANTS
    Aliases,         \* provider accounts of the registry
    Servers,         \* server ids; a composite key is an alias with an id
    Fleet,           \* Fleet[a]: the ids account a can ever report
    ConfirmCycles,   \* _empty_confirm_cycles(sync_interval)
    MinDeferrable,   \* MIN_DEFERRABLE_REMOVALS
    RatioNum,        \* max_removal_ratio is RatioNum / RatioDen
    RatioDen,
    AlertStreak,     \* EMPTY_ALERT_STREAK
    CooldownCycles,  \* EMPTY_ALERT_COOLDOWN_SECONDS in sync intervals
    OutageThreshold  \* OUTAGE_ALERT_THRESHOLD

ASSUME FleetAssumption == Fleet \in [Aliases -> SUBSET Servers]
ASSUME ConfirmAssumption == ConfirmCycles \in Nat /\ ConfirmCycles >= 2
ASSUME MassAssumption ==
    /\ MinDeferrable \in Nat \ {0}
    /\ RatioNum \in Nat
    /\ RatioDen \in Nat \ {0}
ASSUME AlertAssumption ==
    /\ AlertStreak \in Nat \ {0}
    /\ CooldownCycles \in Nat \ {0}
    /\ OutageThreshold \in Nat \ {0}

VARIABLES
    local,      \* local[a]: servers of account a in the repository
    guard,      \* guard[a]: _AliasGuardState, a local of the task
    failures,   \* consecutive_failures, counted up to OutageThreshold
    incident,   \* incident_kind, "none" standing for a missing key
    quiet,      \* _EMPTY_ALERT_LAST_SENT as sync intervals of cooldown left
    owed,       \* _EMPTY_RECOVERY_OWED, the presence of the alias
    claim,      \* history: the claims the answers made (see RemovalPolicy)
    announced   \* history: an empty-response alert reached an admin and the
                \* admins have since heard neither of a recovery nor of the
                \* removal

vars == <<local, guard, failures, incident, quiet, owed, claim, announced>>

Policy == INSTANCE RemovalPolicy WITH local <- local, claim <- claim

-----------------------------------------------------------------------------
(* The answers and the state carried between cycles. *)

\* A fetch raises a self-healing error (or was cancelled), or an error somebody
\* must fix; one page that does not come fails it as a whole.
Failures == {[kind |-> k, keys |-> {}] : k \in {"transient", "persistent"}}

\* Or it returns a list.  The pages of a list are read one after another while
\* the account changes: any servers may be missing from it.
Lists == [kind: {"servers"}, keys: SUBSET Servers]
Answers == Failures \union Lists

GuardStates ==
    [emptyCycles: 0..ConfirmCycles, pending: SUBSET Servers, massAlerted: BOOLEAN]

FreshGuard == [emptyCycles |-> 0, pending |-> {}, massAlerted |-> FALSE]

AtMost(bound, n) == IF n <= bound THEN n ELSE bound

-----------------------------------------------------------------------------
(* What one account's answer r means, given what is known locally. *)

IsFailed(r) == r.kind # "servers"

\* Guard A1: an empty list while servers are known locally ...
IsBlank(a, r) == ~IsFailed(r) /\ r.keys = {} /\ local[a] # {}

\* ... is believed once it has lasted for ConfirmCycles answers.
IsConfirmedEmpty(a, r) ==
    /\ IsBlank(a, r)
    /\ guard[a].emptyCycles + 1 >= ConfirmCycles

\* The account counts as having answered (successful_aliases).
IsHeard(a, r) == ~IsFailed(r) /\ (IsBlank(a, r) => IsConfirmedEmpty(a, r))

Missing(a, r) == local[a] \ r.keys

\* Mutant of IsDeferred: any second sighting confirms, whatever it misses.
IsDeferredOnce(a, r) ==
    /\ IsHeard(a, r)
    /\ ~IsBlank(a, r)
    /\ Policy!IsMassRemoval(Missing(a, r), local[a])
    /\ guard[a].pending = {}

\* Mutant of IsDeferred: a confirmed emptiness is a mass removal like others.
IsDeferredBlank(a, r) ==
    /\ IsHeard(a, r)
    /\ Policy!IsMassRemoval(Missing(a, r), local[a])
    /\ guard[a].pending # Missing(a, r)

\* Guard A2: a mass removal waits until the next answer misses the same set.
IsDeferred(a, r) ==
    /\ IsHeard(a, r)
    /\ ~IsBlank(a, r)
    /\ Policy!IsMassRemoval(Missing(a, r), local[a])
    /\ guard[a].pending # Missing(a, r)

IsAuthorized(a, r) == IsHeard(a, r) /\ ~IsDeferred(a, r)

\* The repository's own floor: an account with local servers and no server
\* in the answer keeps them unless the caller vouches for the emptiness.
IsFloored(a, r) == r.keys = {} /\ local[a] # {} /\ ~IsConfirmedEmpty(a, r)

\* sync_with_api_servers for one account.
Merged(a, r) ==
    IF ~IsHeard(a, r) THEN local[a]
    ELSE IF IsAuthorized(a, r) /\ ~IsFloored(a, r) THEN r.keys
    ELSE local[a] \union r.keys

-----------------------------------------------------------------------------
(* The alerts a cycle tries to send; sent is the set of <<alias, message>>  *)
(* among them that reach an admin.                                         *)

\* The empty-response alert: from AlertStreak answers on, once per incident
\* and per cooldown, and never in the cycle that confirms the emptiness.
AlertsEmpty(a, r) ==
    /\ IsBlank(a, r)
    /\ ~IsConfirmedEmpty(a, r)
    /\ guard[a].emptyCycles + 1 >= AlertStreak
    /\ ~owed[a]
    /\ quiet[a] = 0

\* The notice that an account with an announced incident answers again.
AlertsRecovered(a, r) == ~IsFailed(r) /\ ~IsBlank(a, r) /\ owed[a]

AlertsDeferred(a, r) == IsDeferred(a, r) /\ ~guard[a].massAlerted

Attempts(answer) ==
    UNION {{<<a, "empty">> : a \in {b \in Aliases : AlertsEmpty(b, answer[b])}},
           {<<a, "recovered">> : a \in {b \in Aliases : AlertsRecovered(b, answer[b])}},
           {<<a, "deferred">> : a \in {b \in Aliases : AlertsDeferred(b, answer[b])}}}

-----------------------------------------------------------------------------
(* The state after one account's answer. *)

\* Mutant of GuardAfter: a failed fetch leaves the evidence as it was.
GuardAfterKept(a, r, sent) ==
    IF IsFailed(r) THEN guard[a]
    ELSE IF IsBlank(a, r)
    THEN [emptyCycles |-> AtMost(ConfirmCycles, guard[a].emptyCycles + 1),
          pending |-> {}, massAlerted |-> FALSE]
    ELSE IF IsDeferred(a, r)
    THEN [emptyCycles |-> 0, pending |-> Missing(a, r),
          massAlerted |-> guard[a].massAlerted \/ <<a, "deferred">> \in sent]
    ELSE FreshGuard

GuardAfter(a, r, sent) ==
    IF IsFailed(r) THEN FreshGuard
    ELSE IF IsBlank(a, r)
    THEN [emptyCycles |-> AtMost(ConfirmCycles, guard[a].emptyCycles + 1),
          pending |-> {}, massAlerted |-> FALSE]
    ELSE IF IsDeferred(a, r)
    THEN [emptyCycles |-> 0, pending |-> Missing(a, r),
          massAlerted |-> guard[a].massAlerted \/ <<a, "deferred">> \in sent]
    ELSE FreshGuard

\* Mutant of FailuresAfter: any answer ends the count, an unconfirmed empty
\* one included.
FailuresAfterAny(a, r) ==
    IF IsFailed(r) THEN AtMost(OutageThreshold, failures[a] + 1) ELSE 0

FailuresAfter(a, r) ==
    IF IsFailed(r) THEN AtMost(OutageThreshold, failures[a] + 1)
    ELSE IF IsHeard(a, r) THEN 0 ELSE failures[a]

\* An incident opens whether or not its alert is delivered.
IncidentAfter(a, r) ==
    IF IsHeard(a, r) THEN "none"
    ELSE IF r.kind = "persistent" THEN "persistent"
    ELSE IF /\ r.kind = "transient" /\ incident[a] = "none"
            /\ failures[a] + 1 >= OutageThreshold
    THEN "transient" ELSE incident[a]

QuietAfter(a, sent) ==
    IF <<a, "empty">> \in sent THEN CooldownCycles - 1
    ELSE IF quiet[a] = 0 THEN 0 ELSE quiet[a] - 1

\* A debt is discharged by a delivered recovery notice, or by the removal
\* once the repository has been written.
OwedAfter(a, r, sent, saved) ==
    \/ <<a, "empty">> \in sent
    \/ /\ owed[a]
       /\ <<a, "recovered">> \notin sent
       /\ ~(IsConfirmedEmpty(a, r) /\ saved)

ClaimAfter(a, r) ==
    IF IsFailed(r) THEN Policy!NoClaim ELSE Policy!Claim(claim[a], local[a], r.keys)

\* What the admins know: the alert, until a recovery notice or the removal.
AnnouncedAfter(a, r, sent, saved) ==
    \/ <<a, "empty">> \in sent
    \/ /\ announced[a]
       /\ <<a, "recovered">> \notin sent
       /\ ~(saved /\ local[a] # {} /\ Merged(a, r) = {})

-----------------------------------------------------------------------------

Init ==
    /\ local \in [Aliases -> SUBSET Servers]
    /\ \A a \in Aliases : local[a] \subseteq Fleet[a]
    /\ guard = [a \in Aliases |-> FreshGuard]
    /\ failures = [a \in Aliases |-> 0]
    /\ incident = [a \in Aliases |-> "none"]
    /\ quiet = [a \in Aliases |-> 0]
    /\ owed = [a \in Aliases |-> FALSE]
    /\ claim = [a \in Aliases |-> Policy!NoClaim]
    /\ announced = [a \in Aliases |-> FALSE]

(***************************************************************************)
(* One iteration of the loop of servers_sync_task.  saved is FALSE when    *)
(* sync_with_api_servers raises: the iteration ends there, with the guard  *)
(* state already advanced and the repository as it was.                    *)
(***************************************************************************)
Cycle(answer, sent, saved) ==
    /\ local' = [a \in Aliases |-> IF saved THEN Merged(a, answer[a]) ELSE local[a]]
    /\ guard' = [a \in Aliases |-> GuardAfter(a, answer[a], sent)]
    /\ failures' = [a \in Aliases |-> FailuresAfter(a, answer[a])]
    /\ incident' = [a \in Aliases |-> IncidentAfter(a, answer[a])]
    /\ quiet' = [a \in Aliases |-> QuietAfter(a, sent)]
    /\ owed' = [a \in Aliases |-> OwedAfter(a, answer[a], sent, saved)]
    /\ claim' = [a \in Aliases |-> ClaimAfter(a, answer[a])]
    /\ announced' = [a \in Aliases |-> AnnouncedAfter(a, answer[a], sent, saved)]

SyncCycle ==
    \E answer \in {f \in [Aliases -> Answers] :
                       \A a \in Aliases : f[a].keys \subseteq Fleet[a]} :
        \E sent \in SUBSET Attempts(answer), saved \in BOOLEAN :
            Cycle(answer, sent, saved)

\* The local snapshot cannot be read: the cycle ends before it compares
\* anything, and only time passes.
AbortedCycle ==
    /\ quiet' = [a \in Aliases |-> IF quiet[a] = 0 THEN 0 ELSE quiet[a] - 1]
    /\ UNCHANGED <<local, guard, failures, incident, owed, claim, announced>>

\* Mutant of TaskRestart: what is owed is a local of the coroutine too.
TaskRestartForgetful ==
    /\ guard' = [a \in Aliases |-> FreshGuard]
    /\ failures' = [a \in Aliases |-> 0]
    /\ incident' = [a \in Aliases |-> "none"]
    /\ owed' = [a \in Aliases |-> FALSE]
    /\ claim' = [a \in Aliases |-> Policy!NoClaim]
    /\ UNCHANGED <<local, quiet, announced>>

\* The supervisor recreates the coroutine: its locals start afresh, and what the
\* accounts said before counts no more.
TaskRestart ==
    /\ guard' = [a \in Aliases |-> FreshGuard]
    /\ failures' = [a \in Aliases |-> 0]
    /\ incident' = [a \in Aliases |-> "none"]
    /\ claim' = [a \in Aliases |-> Policy!NoClaim]
    /\ UNCHANGED <<local, quiet, owed, announced>>

\* The process starts again: main() merges what the providers report into
\* the saved inventory without removing anything (bulk_update_from_api).
ProcessRestart ==
    /\ \E reported \in [Aliases -> SUBSET Servers] :
          /\ \A a \in Aliases : reported[a] \subseteq Fleet[a]
          /\ local' = [a \in Aliases |-> local[a] \union reported[a]]
    /\ guard' = [a \in Aliases |-> FreshGuard]
    /\ failures' = [a \in Aliases |-> 0]
    /\ incident' = [a \in Aliases |-> "none"]
    /\ quiet' = [a \in Aliases |-> 0]
    /\ owed' = [a \in Aliases |-> FALSE]
    /\ claim' = [a \in Aliases |-> Policy!NoClaim]
    /\ announced' = [a \in Aliases |-> FALSE]

Next == SyncCycle \/ AbortedCycle \/ TaskRestart \/ ProcessRestart

Spec == Init /\ [][Next]_vars

-----------------------------------------------------------------------------
(* Properties. *)

\* Every variable has its type.
TypeOK ==
    /\ local \in [Aliases -> SUBSET Servers]
    /\ guard \in [Aliases -> GuardStates]
    /\ failures \in [Aliases -> 0..OutageThreshold]
    /\ incident \in [Aliases -> {"none", "transient", "persistent"}]
    /\ quiet \in [Aliases -> 0..CooldownCycles]
    /\ owed \in [Aliases -> BOOLEAN]
    /\ claim \in [Aliases -> Policy!Claims]
    /\ announced \in [Aliases -> BOOLEAN]

(***************************************************************************)
(* The guard state never holds more evidence than the answers gave: a      *)
(* streak of empty answers, and a deferred removal, are claims the account *)
(* made in its last answers, since the last restart of the task or the     *)
(* process, about the inventory as it still is.                            *)
(* (_AliasGuardState: what a removal rests on.)                            *)
(***************************************************************************)
EvidenceBacked ==
    \A a \in Aliases :
        /\ local[a] # {} /\ guard[a].emptyCycles > 0 =>
              /\ claim[a].kind = "empty" /\ claim[a].gone = local[a]
              /\ claim[a].run >= guard[a].emptyCycles
        /\ guard[a].pending # {} =>
              /\ claim[a].kind = "partial" /\ claim[a].gone = guard[a].pending
              /\ claim[a].run >= 1

\* The inventory is only ever reduced as RemovalPolicy allows, whatever the
\* accounts answer, whichever alerts are lost and whenever the task, the
\* process or the repository's write fails.
RemovalsWarranted == Policy!PolicySpec

\* An open outage incident rests on failures counted since the last answer,
\* so its recovery message never reports an outage of no length; a
\* transient one has outlasted the debounce.
IncidentCounted ==
    \A a \in Aliases :
        /\ incident[a] # "none" => failures[a] > 0
        /\ incident[a] = "transient" => failures[a] >= OutageThreshold
=============================================================================
